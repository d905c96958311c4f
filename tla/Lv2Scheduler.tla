---------------------------- MODULE Lv2Scheduler ----------------------------
(***************************************************************************)
(* The LV2 scheduler on its own, driven by threads that start one another, *)
(* block, wake others, sleep for a time, yield, change priorities and      *)
(* exit, with every system call followed by check_state (BIND_FUNC in      *)
(* PPUFunction.h).                                                         *)
(*                                                                         *)
(* The object a blocked thread waits on is left open: any caller, a PPU    *)
(* thread or a host thread, may call awake at any time for a thread that   *)
(* has been started and has not exited, be it blocked, on the run queue    *)
(* already, or in sys_timer_usleep, which such an awake aborts.            *)
(***************************************************************************)
EXTENDS Lv2Thread

CONSTANT Prio          \* priorities a thread may be given

ASSUME PrioAssumption == Prio \subseteq Int

\* Beside the values of Lv2Thread, pc is
\*   "new"      created, not started
\*   "blocked"  in the wait loop of a synchronisation object
\*   "timed"    the same, with a timeout
\*   "late"     timed out, in the check_state of the wait loop
vars == <<sched, pc>>

TypeOK ==
  /\ sched \in SchedType
  /\ pc \in [Thread -> {"new", "check", "guest", "blocked", "timed", "late",
                        "usleep", "redo", "exited"}]

-----------------------------------------------------------------------------
\* awake_unlocked with a priority: the thread is taken off the run queue and
\* put back where its new priority belongs.
SetPrioUnlocked(s, cur, t, p) ==
  IF s.prio[t] = p /\ t = cur THEN s
  ELSE IF t \notin Range(s.g_ppu) THEN [s EXCEPT !.prio[t] = p]
  ELSE AwakeUnlocked(Emplace([s EXCEPT !.g_ppu = Unqueue(@, t), !.prio[t] = p], t), cur)

\* The last position of the run of threads with t's priority that starts at t.
LastPeer(s, t) ==
  CHOOSE i \in Pos(s.g_ppu, t)..Len(s.g_ppu) :
    /\ \A j \in Pos(s.g_ppu, t)..i : s.prio[s.g_ppu[j]] = s.prio[t]
    /\ i = Len(s.g_ppu) \/ s.prio[s.g_ppu[i + 1]] # s.prio[t]

\* awake_unlocked with yield_cmd: t goes behind the threads of its priority;
\* a context switch is made only if it leaves the hardware threads.
YieldUnlocked(s, t) ==
  IF t \notin Range(s.g_ppu) \/ LastPeer(s, t) = Pos(s.g_ppu, t) THEN s
  ELSE LET rotated == [s EXCEPT !.g_ppu = Link(Unqueue(@, t), LastPeer(s, t), t)]
       IN  IF LastPeer(s, t) <= ppu_threads THEN rotated
           ELSE AwakeUnlocked(rotated, t)

-----------------------------------------------------------------------------
\* The main thread is started by the loader before the scheduler is ready.
Init ==
  /\ sched = [InitSched(<<>>) EXCEPT !.suspend = Thread, !.ready = FALSE]
  /\ pc = [t \in Thread |-> "new"]

\* A PPU thread in guest code makes a system call; NoThread is a host thread.
Calls(c) == IF c = NoThread THEN UNCHANGED pc ELSE Goto(c, "guest", "check")

Caller == Thread \cup {NoThread}

\* sys_ppu_thread_start (or the loader): test_and_reset(stop), awake
Start(c, t) ==
  /\ pc[t] = "new"
  /\ c # NoThread => pc[c] = "guest"
  /\ pc' = [u \in Thread |-> IF u \in {c, t} THEN "check" ELSE pc[u]]
  /\ \E late \in SUBSET sched.waiting :
       sched' = Awake(sched, c, t, late)

\* make_scheduler_ready, on the main host thread: awake_all with no thread
MakeReady ==
  /\ ~sched.ready
  /\ UNCHANGED pc
  /\ \E late \in SUBSET sched.waiting :
       sched' = ScheduleAll(AwakeUnlocked([sched EXCEPT !.ready = TRUE], NoThread),
                            NoThread, late)

\* The release operation of a synchronisation object: awake the thread t.  No object
\* has a thread in its queue before it starts or after it has exited.
Wake(c, t) ==
  /\ Calls(c)
  /\ pc[t] \notin {"new", "exited"}
  /\ \E late \in SUBSET sched.waiting :
       sched' = Awake(sched, c, t, late)

\* The acquire operation of a synchronisation object: sleep.
Block(t, timeout) ==
  /\ Goto(t, "guest", IF timeout THEN "timed" ELSE "blocked")
  /\ \E late \in SUBSET (sched.waiting \cup {t}) :
       sched' = Sleep(sched, t, timeout, late)

\* sys_ppu_thread_yield
Yield(t) ==
  /\ Goto(t, "guest", "check")
  /\ \E late \in SUBSET sched.waiting :
       sched' = ScheduleAll(YieldUnlocked(sched, t), t, late)

\* sys_ppu_thread_set_priority
SetPriority(c, t, p) ==
  /\ pc[t] # "exited"
  /\ Goto(c, "guest", "check")
  /\ \E late \in SUBSET sched.waiting :
       sched' = ScheduleAll(SetPrioUnlocked(sched, c, t, p), c, late)

-----------------------------------------------------------------------------
\* The wait loop sees signal and leaves.
Signaled(t) ==
  /\ pc[t] \in {"blocked", "timed"}
  /\ t \in sched.signal
  /\ pc' = [pc EXCEPT ![t] = "check"]
  /\ sched' = [sched EXCEPT !.signal = @ \ {t}]

\* wait_timeout returns TRUE: the time has passed, or notify forces it.  An end
\* time found in the past wins over a signal that has just arrived.
Timeout(t) == Goto(t, "timed", "late") /\ UNCHANGED sched

ThreadStep(t) ==
  \/ Poll(t)
  \/ CheckState(t, "check", "guest", "stopped")
  \/ CheckState(t, "late", "check", "timed")
  \/ Requeue(t)
  \/ Signaled(t)
  \/ Timeout(t)
  \/ UsleepElapsed(t)
  \/ UsleepCut(t)

Next ==
  \/ MakeReady
  \/ \E c \in Caller, t \in Thread : Start(c, t) \/ Wake(c, t)
  \/ \E t \in Thread :
       \/ \E timeout \in BOOLEAN : Block(t, timeout)
       \/ Usleep(t)
       \/ Yield(t)
       \/ \E c \in Thread, p \in Prio : SetPriority(c, t, p)
       \/ Exit(t)
       \/ ThreadStep(t)

\* The host runs every thread: a thread that can take a step of its own
\* control flow takes one.  Nobody is obliged to make system calls.
Fairness == /\ WF_vars(MakeReady)
            /\ \A t \in Thread : WF_vars(ThreadStep(t))

Spec == Init /\ [][Next]_vars /\ Fairness
-----------------------------------------------------------------------------
(***************************************************************************)
(* Properties                                                              *)
(***************************************************************************)
\* g_pending counts exactly the suspended threads that still owe their
\* acknowledgement, so schedule_all's `!g_pending' means that every displaced
\* thread has stopped executing guest code (lv2.cpp:1560, 1836, 1853, 1905).
PendingIsOwed ==
  /\ sched.g_pending = Cardinality(sched.ack_suspend)
  /\ sched.ack_suspend \subseteq sched.suspend

\* The run queue stays sorted by priority without duplicates through every
\* mixture of awake, yield and priority change: emplace_thread relies on it to
\* find a queued thread before its insertion point (lv2.cpp:1763, 1777).
QueueOrdered == RunQueueOrdered(sched)

\* A queued thread without the suspend flag is one of the first ppu_threads: no
\* path leaves a thread running after it has lost its hardware thread.
OnlyOnProcRun == Range(sched.g_ppu) \ sched.suspend \subseteq Running(sched)

\* When nothing is pending no hardware thread is idle while the thread that
\* should use it is held suspended (schedule_all is never skipped).
NoIdleHardware ==
  sched.ready /\ sched.g_pending = 0 => Running(sched) \cap sched.suspend = {}

\* A queued thread that stays among the first ppu_threads is eventually resumed:
\* the threads it displaced do acknowledge (check_state, cpu_sleep).
EventuallyScheduled ==
  \A t \in Thread :
    (t \in Running(sched)) ~> (t \notin sched.suspend \/ t \notin Running(sched))
=============================================================================
