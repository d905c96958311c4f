----------------------------- MODULE Lv2Thread -----------------------------
(***************************************************************************)
(* The control flow all PPU threads share: guest code, check_state after   *)
(* every system call (BIND_FUNC in PPUFunction.h), sys_timer_usleep, exit  *)
(* and the request to stop.  The actions here change only sched and pc;    *)
(* the modules that extend this one add their own.                         *)
(***************************************************************************)
EXTENDS Lv2Sched

VARIABLE
  pc       \* where each thread is; the values used here are
           \*   "guest"    executing guest code
           \*   "check"    in check_state, on the way back to guest code
           \*   "usleep"   in sys_timer_usleep
           \*   "stopped"  left the execution loop
           \*   "redo"     left it with cpu_flag::again: its system call is
           \*              executed again when the savestate is loaded
           \*   "exited"   past _sys_ppu_thread_exit

\* At the start: a thread whose program calls nothing has exited before.
StartQueue(queue, role) == SelectSeq(queue, LAMBDA t : role[t] # {})

\* What the run queue at the start is: every thread with a program once, the most
\* urgent first.
StartsOrdered(q, role, prio) ==
  /\ q \in Seq(Thread)
  /\ Range(q) = {t \in Thread : role[t] # {}}
  /\ \A i, j \in 1..Len(q) :
       i < j => q[i] # q[j] /\ prio[q[i]] <= prio[q[j]]

StartPc(s, role) ==
  [t \in Thread |-> IF role[t] = {} THEN "exited"
                    ELSE IF t \in s.suspend THEN "check" ELSE "guest"]

Goto(t, from, to) == pc[t] = from /\ pc' = [pc EXCEPT ![t] = to]

\* Guest code polls its flags.
Poll(t) ==
  /\ Goto(t, "guest", "check")
  /\ t \in sched.suspend \cup sched.signal \cup sched.notify \cup sched.stop
  /\ UNCHANGED sched

\* One iteration of check_state: it returns FALSE to `to', or TRUE to `stopped'.
CheckState(t, from, to, stopped) ==
  /\ CheckReady(sched, t)
  /\ Goto(t, from, IF Stopped(sched, t) THEN stopped
                   ELSE IF t \in sched.suspend THEN from ELSE to)
  /\ sched' = CheckFlags(sched, t)

\* check_state's call of cpu_sleep
Requeue(t) ==
  /\ sched.cpu_sleep[t] = "call"
  /\ UNCHANGED pc
  /\ \E late \in SUBSET sched.waiting : sched' = CpuSleep(sched, t, late)

\* The wait loop of a blocking call sees signal, or a stop flag and no signal.
SeesSignal(t, from, to) ==
  /\ t \in sched.signal
  /\ Goto(t, from, to)
  /\ sched' = [sched EXCEPT !.signal = @ \ {t}]

SeesStop(t, from, to) ==
  /\ Stopped(sched, t) /\ t \notin sched.signal
  /\ Goto(t, from, to)
  /\ UNCHANGED sched

\* The call is to be executed again when the savestate is loaded.
RedoCall(t, from, to) ==
  /\ Goto(t, from, to)
  /\ sched' = [sched EXCEPT !.again = @ \cup {t}]

\* sys_timer_usleep: the timeout is registered or not, as the configured timer
\* accuracy says.
Usleep(t) ==
  /\ Goto(t, "guest", "usleep")
  /\ \E registered \in BOOLEAN, late \in SUBSET (sched.waiting \cup {t}) :
       sched' = Sleep(sched, t, registered, late)

\* wait_timeout returns TRUE
UsleepElapsed(t) ==
  /\ Goto(t, "usleep", "check")
  /\ UNCHANGED sched

\* wait_timeout returns FALSE: state += again
UsleepCut(t) ==
  /\ t \in sched.signal \/ Stopped(sched, t)
  /\ Goto(t, "usleep", "redo")
  /\ sched' = [sched EXCEPT !.again = @ \cup {t}]

\* _sys_ppu_thread_exit: sleep, then drop the suspend flag
Exit(t) ==
  /\ Goto(t, "guest", "exited")
  /\ \E late \in SUBSET sched.waiting :
       sched' = [Sleep(sched, t, FALSE, late) EXCEPT !.suspend = @ \ {t}]

\* The emulator stops its threads one by one, to save the state or to quit.
Stop(t) ==
  /\ t \notin sched.stop
  /\ sched' = [sched EXCEPT !.stop = @ \cup {t}]
  /\ UNCHANGED pc
-----------------------------------------------------------------------------
\* A thread in sys_timer_usleep is never signaled: a late awake meant for an
\* earlier wait would make wait_timeout return FALSE and abort the thread
\* (sys_timer.cpp:472).
UsleepUndisturbed ==
  \A t \in Thread : pc[t] = "usleep" => t \notin sched.signal

\* A thread in guest code can always go to sleep: it is queued, carries no stale
\* signal (the fatal "sleep() failed (signaled)", lv2.cpp:1588) and no stale
\* notify (ensure, lv2.cpp:1579).
GuestCanSleep ==
  \A t \in Thread : pc[t] = "guest" =>
    t \in Range(sched.g_ppu) /\ t \notin sched.signal \cup sched.notify

\* A registered timeout belongs to a thread that sleeps and has not been
\* notified, so schedule_all's ensure(!test_and_set(notify)) holds
\* (lv2.cpp:1957).
TimeoutsSound ==
  sched.waiting \cap (Range(sched.g_ppu) \cup sched.notify) = {}
=============================================================================
