------------------------------ MODULE Lv2Sched ------------------------------
(***************************************************************************)
(* The PPU thread scheduler of the LV2 kernel (lv2_obj in                  *)
(* rpcs3/Emu/Cell/lv2/lv2.cpp) and the part of cpu_thread::check_state     *)
(* that cooperates with it.                                                *)
(*                                                                         *)
(* Every scheduler call runs under lv2_obj::g_mutex, so each one is an     *)
(* operator from a scheduler state to a scheduler state.  The modules of   *)
(* the synchronisation objects extend this one and apply the operators to  *)
(* the variable sched inside their own actions.                            *)
(*                                                                         *)
(* A flag of cpu_thread::state, or a boolean member of ppu_thread, is the  *)
(* set of the threads that have it.  Time is abstract: a registered        *)
(* timeout may be found expired by any call.  cpu_flag::yield, preempt and *)
(* hw_sleep_time only delay a thread on the host and are left out.         *)
(***************************************************************************)
EXTENDS Integers, Sequences, FiniteSets, Functions

CONSTANTS
  Thread,        \* the PPU threads
  NoThread,      \* "no current PPU thread", "nobody holds the lock"
  ppu_threads,   \* g_cfg.core.ppu_threads: number of emulated hardware threads
  InitPrio       \* priority of each thread; smaller is more urgent

ASSUME SchedAssumption ==
  /\ IsFiniteSet(Thread)
  /\ NoThread \notin Thread
  /\ ppu_threads \in Nat \ {0}
  /\ InitPrio \in [Thread -> Int]

VARIABLE sched

(***************************************************************************)
(* The scheduler state.                                                    *)
(*   g_ppu         run queue, most urgent first                            *)
(*   waiting       threads with an entry in g_waiting (a registered        *)
(*                 timeout); one entry each, because an entry is only      *)
(*                 added for a thread just taken off g_ppu and a thread    *)
(*                 put on g_ppu loses its entry                            *)
(*   g_pending     suspension requests not acknowledged yet                *)
(*   ready         g_scheduler_ready                                       *)
(*   prio          ppu_thread::prio                                        *)
(*   suspend, signal, notify    flags of cpu_thread::state                 *)
(*   stop          is_stopped() for a reason other than again              *)
(*   again         cpu_flag::again: the system call is to be re-executed   *)
(*                 when the savestate is loaded                            *)
(*   ack_suspend   the thread owes an acknowledgement                      *)
(*   cancel_sleep  0, 1 (a sleep call is coming) or 2 (cancel it)          *)
(*   cpu_sleep     check_state's cpu_sleep_called: "no", "call" (about to  *)
(*                 call cpu_sleep) or "done"                               *)
(***************************************************************************)
SchedType ==
  [g_ppu : Seq(Thread), waiting : SUBSET Thread, g_pending : Nat,
   ready : BOOLEAN, prio : [Thread -> Int],
   suspend : SUBSET Thread, signal : SUBSET Thread, notify : SUBSET Thread,
   stop : SUBSET Thread, again : SUBSET Thread,
   ack_suspend : SUBSET Thread, cancel_sleep : [Thread -> 0..2],
   cpu_sleep : [Thread -> {"no", "call", "done"}]]

\* is_stopped(cpu.state)
Stopped(s, t) == t \in s.stop \cup s.again

(***************************************************************************)
(* lv2_obj::sleep                                                          *)
(***************************************************************************)
\* Mutant: the flag is dropped and the counter forgotten.
AckFlagOnly(s, t) == [s EXCEPT !.ack_suspend = @ \ {t}]

\* The caller acknowledges a suspension request.
AckSuspend(s, t) ==
  IF t \in s.ack_suspend
  THEN [s EXCEPT !.ack_suspend = @ \ {t}, !.g_pending = @ - 1]
  ELSE s

\* The queues are linked lists: unlink the i-th node, link t in as the i-th.
Unlink(q, i) == SubSeq(q, 1, i - 1) \o SubSeq(q, i + 1, Len(q))

Link(q, i, t) == SubSeq(q, 1, i - 1) \o <<t>> \o SubSeq(q, i, Len(q))

\* Position of t in a queue.
Pos(q, t) == CHOOSE i \in 1..Len(q) : q[i] = t

\* unqueue(q, t)
Unqueue(q, t) == IF t \in Range(q) THEN Unlink(q, Pos(q, t)) ELSE q

\* sleep_unlocked, on a thread that has already acknowledged
TakeOff(s, t, timeout) ==
  IF t \in s.signal
  THEN [s EXCEPT !.cancel_sleep[t] = 0]           \* "sleep() failed (signaled)"
  ELSE LET queued == t \in Range(s.g_ppu)
       IN  [s EXCEPT !.cancel_sleep[t] = 0,
                     !.suspend = @ \cup {t},
                     !.g_ppu = Unqueue(@, t),
                     !.waiting = IF queued /\ timeout THEN @ \cup {t} ELSE @]

SleepUnlocked(s, t, timeout) == TakeOff(AckSuspend(s, t), t, timeout)

\* The value returned by sleep: FALSE when another thread has completed the
\* operation before the sleep (cancel_sleep), or when the call has no effect.
SleepRet(s, t) ==
  s.cancel_sleep[t] # 2 /\ t \notin s.signal /\ t \in Range(s.g_ppu)

(***************************************************************************)
(* lv2_obj::awake                                                          *)
(***************************************************************************)
\* Where emplace_thread stops: at t itself, or before the first less urgent
\* thread, or at the end.
EmplacePos(s, t) ==
  LET q == s.g_ppu
      stops == {i \in 1..Len(q) : q[i] = t \/ s.prio[q[i]] > s.prio[t]}
  IN  IF stops = {} THEN Len(q) + 1
      ELSE CHOOSE i \in stops : \A j \in stops : i <= j

\* emplace_thread
Emplace(s, t) ==
  LET i == EmplacePos(s, t)
  IN  IF i <= Len(s.g_ppu) /\ s.g_ppu[i] = t
      THEN [s EXCEPT !.cancel_sleep[t] = IF @ = 1 THEN 2 ELSE @]
      ELSE [s EXCEPT !.g_ppu = Link(@, i, t), !.waiting = @ \ {t}]

\* Mutant: one thread too many keeps running.
SuspendExcessLate(s) ==
  LET excess == {s.g_ppu[i] : i \in (ppu_threads + 2)..Len(s.g_ppu)} \ s.suspend
  IN  [s EXCEPT !.ack_suspend = @ \cup excess,
                !.g_pending = @ + Cardinality(excess),
                !.suspend = @ \cup excess]

\* "Suspend threads if necessary": those beyond the hardware threads.
SuspendExcess(s) ==
  LET excess == {s.g_ppu[i] : i \in (ppu_threads + 1)..Len(s.g_ppu)} \ s.suspend
  IN  [s EXCEPT !.ack_suspend = @ \cup excess,
                !.g_pending = @ + Cardinality(excess),
                !.suspend = @ \cup excess]

\* awake_unlocked after the threads have been emplaced; cur is the calling PPU
\* thread, or NoThread for a host thread
AwakeUnlocked(emplaced, cur) == AckSuspend(SuspendExcess(emplaced), cur)

\* The threads of g_to_awake, in order.
EmplaceAll(s, list) ==
  LET after[i \in 0..Len(list)] ==
        IF i = 0 THEN s ELSE Emplace(after[i - 1], list[i])
  IN  after[Len(list)]

(***************************************************************************)
(* schedule_all: once every suspension is acknowledged, the first          *)
(* ppu_threads threads run; then the expired timeouts are notified.        *)
(***************************************************************************)
Running(s) == {s.g_ppu[i] : i \in 1..(IF Len(s.g_ppu) < ppu_threads
                                      THEN Len(s.g_ppu) ELSE ppu_threads)}

WakeUp(s) ==
  IF s.g_pending = 0 /\ s.ready
  THEN LET wake == Running(s) \cap s.suspend
       IN  [s EXCEPT !.signal = @ \cup wake, !.suspend = @ \ wake]
  ELSE s

\* late: threads whose end time has passed; the caller is not notified
ScheduleAll(s, cur, late) ==
  [WakeUp(s) EXCEPT !.waiting = @ \ late,
                    !.notify = @ \cup ((late \cap s.waiting) \ {cur})]

\* Mutant: sleep does not hand the hardware thread over.
SleepNoSchedule(s, t, timeout, late) == SleepUnlocked(s, t, timeout)

\* sleep(t, timeout)
Sleep(s, t, timeout, late) == ScheduleAll(SleepUnlocked(s, t, timeout), t, late)

\* awake(t), and awake_all() for the threads of g_to_awake
Awake(s, cur, t, late) == ScheduleAll(AwakeUnlocked(Emplace(s, t), cur), cur, late)

AwakeAll(s, cur, list, late) ==
  ScheduleAll(AwakeUnlocked(EmplaceAll(s, list), cur), cur, late)

\* sleep(t) after threads have been appended to g_to_awake: both under one lock
SleepAwaking(s, t, timeout, list, late) ==
  ScheduleAll(AwakeUnlocked(EmplaceAll(SleepUnlocked(s, t, timeout), list), t), t, late)

(***************************************************************************)
(* cpu_thread::check_state.  One iteration consumes signal and notify in a *)
(* single atomic operation; a suspended thread calls cpu_sleep, which puts *)
(* it back on the run queue, and waits for a change of its flags.          *)
(***************************************************************************)
\* Mutant: a signal does not re-arm the cpu_sleep call.
CheckFlagsNoRearm(s, t) ==
  LET held == ~Stopped(s, t) /\ t \in s.suspend
  IN  [s EXCEPT !.signal = @ \ {t}, !.notify = @ \ {t},
                !.cpu_sleep[t] = IF ~held THEN "no"
                                 ELSE IF @ = "no" THEN "call" ELSE @]

\* Mutant: check_state leaves the signal behind.
CheckFlagsKeepSignal(s, t) ==
  LET called == IF t \in s.signal THEN "no" ELSE s.cpu_sleep[t]
      held   == ~Stopped(s, t) /\ t \in s.suspend
  IN  [s EXCEPT !.notify = @ \ {t},
                !.cpu_sleep[t] = IF ~held THEN "no"
                                 ELSE IF called = "no" THEN "call" ELSE called]

CheckFlags(s, t) ==
  LET called == IF t \in s.signal THEN "no" ELSE s.cpu_sleep[t]
      held   == ~Stopped(s, t) /\ t \in s.suspend
  IN  [s EXCEPT !.signal = @ \ {t}, !.notify = @ \ {t},
                !.cpu_sleep[t] = IF ~held THEN "no"
                                 ELSE IF called = "no" THEN "call" ELSE called]

\* check_state returns after this iteration
CheckLeaves(s, t) == Stopped(s, t) \/ t \notin s.suspend

\* cpu_wait has nothing to wait for
CheckReady(s, t) ==
  \/ s.cpu_sleep[t] = "no"
  \/ s.cpu_sleep[t] = "done" /\ (CheckLeaves(s, t) \/ t \in s.signal \cup s.notify)

\* ppu_thread::cpu_sleep, called by check_state: awake(this)
CpuSleep(s, t, late) ==
  [Awake(s, t, t, late) EXCEPT !.cpu_sleep[t] = "done"]

(***************************************************************************)
(* The wait queues of the synchronisation objects, oldest waiter first.    *)
(* (The code pushes at the front and tags each waiter with an increasing   *)
(* order number; SYS_SYNC_FIFO takes the last node, SYS_SYNC_PRIORITY the  *)
(* lowest order number among the most urgent.)                             *)
(***************************************************************************)
\* The position of the waiter that lv2_obj::schedule picks.
ScheduleIndex(s, q, protocol) ==
  IF protocol = "FIFO" THEN 1
  ELSE CHOOSE i \in 1..Len(q) :
         /\ \A j \in 1..Len(q) : s.prio[q[i]] <= s.prio[q[j]]
         /\ \A j \in 1..(i - 1) : s.prio[q[i]] < s.prio[q[j]]

\* Every thread is on the run queue in priority order; the first ppu_threads
\* run and the others are suspended.
InitSched(q) ==
  [g_ppu |-> q, waiting |-> {}, g_pending |-> 0, ready |-> TRUE,
   prio |-> InitPrio,
   suspend |-> {q[i] : i \in (ppu_threads + 1)..Len(q)},
   signal |-> {}, notify |-> {}, stop |-> {}, again |-> {},
   ack_suspend |-> {}, cancel_sleep |-> [t \in Thread |-> 0],
   cpu_sleep |-> [t \in Thread |-> "no"]]

\* The run queue holds q's threads once each, most urgent first.
RunQueueOrdered(s) ==
  \A i, j \in 1..Len(s.g_ppu) :
    i < j => s.g_ppu[i] # s.g_ppu[j] /\ s.prio[s.g_ppu[i]] <= s.prio[s.g_ppu[j]]
=============================================================================
