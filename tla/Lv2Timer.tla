------------------------------ MODULE Lv2Timer ------------------------------
(***************************************************************************)
(* sys_timer (rpcs3/Emu/Cell/lv2/sys_timer.cpp): timers that guest threads *)
(* create, connect to event queues, start, stop and destroy, and the host  *)
(* thread that sends their events when they expire, sleeps until the next  *)
(* one is due, and is woken by a task pushed to it when a timer starts.    *)
(*                                                                         *)
(* Sections under a timer's mutex are single steps.  The list of the host  *)
(* thread is locked for reading while it scans.  Time is guest time, in    *)
(* units of the shortest period; a call reads it before it takes the lock. *)
(***************************************************************************)
EXTENDS Integers, Sequences, FiniteSets, SequencesExt

CONSTANTS
  Timer, Queue, NoQueue,
  Guest,        \* the threads that make system calls
  Setups,       \* what the guests do with which timers and queues, and for how long
  LastTime      \* bound of time in all of them

ASSUME TimerAssumption ==
  \A s \in Setups :
    /\ s.guests \subseteq Guest /\ s.timers \subseteq Timer /\ s.queues \subseteq Queue
    /\ s.starts \subseteq Nat \X Nat
    /\ {LastTime, s.lag, s.loads} \subseteq Nat /\ s.time \in 0..LastTime

\* umax, the time to sleep when nothing is due
Umax == LastTime + 1000

VARIABLES
  setup,        \* the member of Setups this behaviour has: it never changes
  now,          \* get_guest_system_time()
  tm,           \* each lv2_timer
  alive,        \* the queues that have not been destroyed
  timers,       \* lv2_timer_thread::timers
  taskq,        \* a task has been pushed to the host thread
  thread,       \* the locals of the host thread
  pc,           \* what each guest thread has left to do in its call
  paused,       \* Emu.IsPausedOrReady()
  log,          \* the expiry times of the events sent by each timer since it was started,
                \* or loaded without its queue
  loads         \* the number of times the state has been loaded

vars == <<setup, now, tm, alive, timers, taskq, thread, pc, paused, log, loads>>
calls == <<setup, now, alive, timers, taskq, thread, pc, paused, loads>>

Ops == setup.ops          \* the calls the guests make
Starts == setup.starts    \* pairs <<base_time, period>>; a one-shot timer has period 0
MaxTime == setup.time     \* bound of time
Lag == setup.lag          \* bound of the time from reading the clock to taking the lock
MaxLoads == setup.loads   \* bound of the number of times the state is saved and loaded

\* exists is "new" until the timer is created and "dead" once it is destroyed.
TimerType == [exists: {"new", "yes", "dead"}, state: {"STOP", "RUN"}, port: Queue \cup {NoQueue},
              expire: Nat, period: Nat]

\* The host thread waits until wake, visits timer i of the list, or has found it due.
ThreadType == [pc: {"wait", "scan", "lock"}, i: Nat, now: Nat, sleep: Nat, wake: Nat]

Idle == <<"idle">>
TypeOK ==
  /\ setup \in Setups
  /\ now \in 0..MaxTime
  /\ tm \in [Timer -> TimerType]
  /\ alive \in SUBSET Queue
  /\ timers \in Seq(Timer) /\ Len(timers) <= Cardinality(Timer)
  /\ taskq \in BOOLEAN /\ paused \in BOOLEAN
  /\ thread \in ThreadType
  /\ pc \in [Guest -> {Idle, <<"push">>} \cup ({"add", "erase"} \X Timer)]
  /\ log \in [Timer -> Seq(Nat)]
  /\ loads \in 0..MaxLoads

FreshThread == [pc |-> "wait", i |-> 1, now |-> 0, sleep |-> 0, wake |-> 0]

Init ==
  /\ setup \in Setups
  /\ now = 0
  /\ tm = [u \in Timer |-> [exists |-> "new", state |-> "STOP", port |-> NoQueue,
                            expire |-> 0, period |-> 0]]
  /\ alive = setup.queues
  /\ timers = <<>>
  /\ taskq = FALSE
  /\ thread = FreshThread
  /\ pc = [g \in Guest |-> Idle]
  /\ paused = FALSE
  /\ log = [u \in Timer |-> <<>>]
  /\ loads = 0

Least(a, b) == IF a < b THEN a ELSE b
Exists(u) == tm[u].exists = "yes"
Connected(u) == tm[u].port \in alive
Scanning == thread.pc # "wait"
-----------------------------------------------------------------------------
(***************************************************************************)
(* lv2_timer::check_unlocked(t): due is its first test, and Fire what it   *)
(* does to the timer if that holds.  Whether the queue takes the event is  *)
(* the business of lv2_event_queue::send.                                  *)
(***************************************************************************)
Due(u, t) == t >= tm[u].expire /\ tm[u].state = "RUN"

Fire(timer) ==
  IF timer.period > 0 THEN [timer EXCEPT !.expire = @ + timer.period]
  ELSE [timer EXCEPT !.state = "STOP"]

CheckUnlocked(u, t) == IF Due(u, t) THEN Fire(tm[u]) ELSE tm[u]
Sent(u, t) == IF Due(u, t) /\ tm[u].port # NoQueue THEN Append(log[u], tm[u].expire) ELSE log[u]
-----------------------------------------------------------------------------
(***************************************************************************)
(* System calls.  clock is the time the call read.                         *)
(***************************************************************************)
Clock == {t \in (now - Lag)..now : t >= 0}

Call(g, op) == g \in setup.guests /\ op \in Ops /\ pc[g] = Idle

\* idm::check by id: create has returned it, unless guests make ids up
Found(u) == Exists(u) /\ ("guess" \in Ops \/ \A g \in Guest : pc[g] # <<"add", u>>)

\* idm::make_ptr, then the list
Create(g, u) ==
  /\ Call(g, "create") /\ u \in setup.timers /\ tm[u].exists = "new"
  /\ tm' = [tm EXCEPT ![u].exists = "yes"]
  /\ pc' = [pc EXCEPT ![g] = <<"add", u>>]
  /\ UNCHANGED <<setup, now, alive, timers, taskq, thread, paused, log, loads>>

CreateAdd(g, u) ==
  /\ pc[g] = <<"add", u>> /\ ~Scanning
  /\ timers' = IF u \in Range(timers) THEN timers ELSE Append(timers, u)
  /\ pc' = [pc EXCEPT ![g] = Idle]
  /\ UNCHANGED <<setup, now, tm, alive, taskq, thread, paused, log, loads>>

\* idm::withdraw unless it is connected (CELL_EISCONN), then the list
Destroy(g, u) ==
  /\ Call(g, "destroy") /\ Found(u) /\ ~Connected(u)
  /\ tm' = [tm EXCEPT ![u].exists = "dead"]
  /\ pc' = [pc EXCEPT ![g] = <<"erase", u>>]
  /\ UNCHANGED <<setup, now, alive, timers, taskq, thread, paused, log, loads>>

\* Mutant: the last timer of the list goes instead.
EraseLast(g, u) ==
  /\ pc[g] = <<"erase", u>> /\ ~Scanning
  /\ timers' = IF u \in Range(timers) THEN Front(timers) ELSE timers
  /\ pc' = [pc EXCEPT ![g] = Idle]
  /\ UNCHANGED <<setup, now, tm, alive, taskq, thread, paused, log, loads>>

DestroyErase(g, u) ==
  /\ pc[g] = <<"erase", u>> /\ ~Scanning
  /\ timers' = SelectSeq(timers, LAMBDA v : v # u)
  /\ pc' = [pc EXCEPT ![g] = Idle]
  /\ UNCHANGED <<setup, now, tm, alive, taskq, thread, paused, log, loads>>

\* sys_timer_get_information sends an event that is due.
GetInformation(g, u, clock) ==
  /\ Call(g, "info") /\ Found(u)
  /\ tm' = [tm EXCEPT ![u] = CheckUnlocked(u, clock)]
  /\ log' = [log EXCEPT ![u] = Sent(u, clock)]
  /\ UNCHANGED calls

\* When a timer started at clock expires first.
FirstExpire(clock, base, period) ==
  IF period = 0 THEN base
  ELSE IF base = 0 THEN clock + period
  ELSE IF clock < base + period THEN base + period
  ELSE LET aligned == (clock - (clock % period)) + (base % period)
       IN  aligned + (IF aligned < clock THEN period ELSE 0)

\* The timer runs after this call of _sys_timer_start.
Startable(u, clock, base, period) ==
  /\ tm[u].port # NoQueue
  /\ CheckUnlocked(u, clock).state = "STOP"
  /\ period > 0 \/ clock < base

\* Mutant: the host thread is not told.
StartSilent(g, u, clock, base, period) ==
  /\ Call(g, "start") /\ Found(u) /\ Startable(u, clock, base, period)
  /\ "restart" \in Ops \/ tm[u].state = "STOP"
  /\ tm' = [tm EXCEPT ![u].expire = FirstExpire(clock, base, period),
                      ![u].period = period, ![u].state = "RUN"]
  /\ log' = [log EXCEPT ![u] = <<>>]
  /\ UNCHANGED calls

\* _sys_timer_start sends an event that is due; it pushes a task when it has started
\* the timer.
Start(g, u, clock, base, period) ==
  /\ Call(g, "start") /\ Found(u) /\ Startable(u, clock, base, period)
  /\ "restart" \in Ops \/ tm[u].state = "STOP"
  /\ tm' = [tm EXCEPT ![u].expire = FirstExpire(clock, base, period),
                      ![u].period = period, ![u].state = "RUN"]
  /\ log' = [log EXCEPT ![u] = <<>>]
  /\ pc' = [pc EXCEPT ![g] = <<"push">>]
  /\ UNCHANGED <<setup, now, alive, timers, taskq, thread, paused, loads>>

\* CELL_ENOTCONN does nothing; CELL_EBUSY and CELL_ETIMEDOUT come after check_unlocked.
StartFails(g, u, clock, base, period) ==
  /\ Call(g, "start") /\ "restart" \in Ops
  /\ Found(u) /\ ~Startable(u, clock, base, period) /\ tm[u].port # NoQueue
  /\ tm' = [tm EXCEPT ![u] = CheckUnlocked(u, clock)]
  /\ log' = [log EXCEPT ![u] = Sent(u, clock)]
  /\ UNCHANGED calls

StartPush(g) ==
  /\ pc[g] = <<"push">>
  /\ taskq' = TRUE
  /\ pc' = [pc EXCEPT ![g] = Idle]
  /\ UNCHANGED <<setup, now, tm, alive, timers, thread, paused, log, loads>>

Stop(g, u, clock) ==
  /\ Call(g, "stop") /\ Found(u)
  /\ tm' = [tm EXCEPT ![u] = [CheckUnlocked(u, clock) EXCEPT !.state = "STOP"]]
  /\ log' = [log EXCEPT ![u] = Sent(u, clock)]
  /\ UNCHANGED calls

\* The queue is found, under the IDM lock.
Connect(g, u, q) ==
  /\ Call(g, "connect") /\ Found(u) /\ q \in alive /\ ~Connected(u)
  /\ tm' = [tm EXCEPT ![u].port = q]
  /\ UNCHANGED <<calls, log>>

\* CELL_ENOTCONN stops the timer too.
Disconnect(g, u, clock) ==
  /\ Call(g, "disconnect") /\ Found(u)
  /\ tm' = [tm EXCEPT ![u] = [CheckUnlocked(u, clock) EXCEPT
                                !.state = "STOP",
                                !.port = IF Connected(u) THEN NoQueue ELSE @]]
  /\ log' = [log EXCEPT ![u] = Sent(u, clock)]
  /\ UNCHANGED calls

\* sys_event_queue_destroy: exists becomes 0
DestroyQueue(g, q) ==
  /\ Call(g, "destroyqueue") /\ q \in alive
  /\ alive' = alive \ {q}
  /\ UNCHANGED <<setup, now, tm, timers, taskq, thread, pc, paused, log, loads>>
-----------------------------------------------------------------------------
(***************************************************************************)
(* lv2_timer_thread::operator()                                            *)
(***************************************************************************)
\* wait_for has returned: a task, or the time.  thread_ctrl::state() drains the tasks.
\* An emulator that is paused is looked at again later.
Wake ==
  /\ thread.pc = "wait" /\ (taskq \/ now >= thread.wake)
  /\ taskq' = FALSE
  /\ thread' = IF paused THEN [thread EXCEPT !.wake = Least(now + 1, MaxTime)]
               ELSE [FreshThread EXCEPT !.pc = "scan", !.now = now, !.sleep = Umax]
  /\ UNCHANGED <<setup, now, tm, alive, timers, pc, paused, log, loads>>

\* The visit of a timer has returned the time to sleep.
Advise(sleep) ==
  thread' = [thread EXCEPT !.pc = "scan", !.i = @ + 1, !.sleep = Least(@, sleep)]

\* A timer of the list: thread_ctrl::state(), then lv2_timer::check
Visit ==
  /\ thread.pc = "scan" /\ thread.i <= Len(timers)
  /\ LET u == timers[thread.i]
     IN  /\ taskq' = (taskq /\ ~Exists(u))
         /\ IF Exists(u) /\ Due(u, thread.now) THEN thread' = [thread EXCEPT !.pc = "lock"]
            ELSE Advise(IF Exists(u) /\ tm[u].state = "RUN" THEN tm[u].expire - thread.now
                        ELSE Umax)
  /\ UNCHANGED <<setup, now, tm, alive, timers, pc, paused, log, loads>>

\* Mutant: what was seen without the lock is not looked at again.
CheckUnverified ==
  /\ thread.pc = "lock"
  /\ LET u == timers[thread.i]
         next == tm[u].expire + tm[u].period
     IN  /\ tm' = [tm EXCEPT ![u] = Fire(tm[u])]
         /\ log' = [log EXCEPT ![u] = IF tm[u].port # NoQueue THEN Append(@, tm[u].expire) ELSE @]
         /\ IF tm[u].period = 0 THEN Advise(Umax)
            ELSE IF next > thread.now THEN Advise(next - thread.now)
            ELSE thread' = [thread EXCEPT !.pc = "scan"]
  /\ UNCHANGED <<setup, now, alive, timers, taskq, pc, paused, loads>>

\* check_unlocked under the lock; 0 is checked again
CheckLocked ==
  /\ thread.pc = "lock"
  /\ LET u == timers[thread.i]
         next == tm[u].expire + tm[u].period
     IN  /\ tm' = [tm EXCEPT ![u] = CheckUnlocked(u, thread.now)]
         /\ log' = [log EXCEPT ![u] = Sent(u, thread.now)]
         /\ IF ~Due(u, thread.now) \/ tm[u].period = 0 THEN Advise(Umax)
            ELSE IF next > thread.now THEN Advise(next - thread.now)
            ELSE thread' = [thread EXCEPT !.pc = "scan"]
  /\ UNCHANGED <<setup, now, alive, timers, taskq, pc, paused, loads>>

\* The list is unlocked and the thread waits.  Within the bound of time a wait with a
\* limit ends.
EndScan ==
  /\ thread.pc = "scan" /\ thread.i > Len(timers)
  /\ thread' = [FreshThread EXCEPT
                  !.wake = IF thread.sleep = Umax THEN Umax ELSE Least(now + thread.sleep, MaxTime)]
  /\ UNCHANGED <<setup, now, tm, alive, timers, taskq, pc, paused, log, loads>>

ThreadStep == Wake \/ Visit \/ CheckLocked \/ EndScan

\* Of a queue that has been destroyed save_ptr writes 0.
Saved(u) == IF Connected(u) THEN tm[u] ELSE [tm[u] EXCEPT !.port = NoQueue]

\* The state is saved when the host thread is not sending, and loaded: timers keep their
\* members, and the list is made anew from the ids.
Reload ==
  /\ loads < MaxLoads
  /\ thread.pc # "lock" /\ \A g \in Guest : pc[g] = Idle
  /\ timers' \in SetToSeqs({u \in Timer : Exists(u)})
  /\ tm' = [u \in Timer |-> Saved(u)]
  /\ log' = [u \in Timer |-> IF Connected(u) THEN log[u] ELSE <<>>]
  /\ thread' = FreshThread
  /\ taskq' = FALSE
  /\ loads' = loads + 1
  /\ UNCHANGED <<setup, now, alive, pc, paused>>

Pause ==
  /\ "pause" \in Ops
  /\ paused' = ~paused
  /\ UNCHANGED <<setup, now, tm, alive, timers, taskq, thread, pc, log, loads>>

Tick ==
  /\ now < MaxTime
  /\ now' = now + 1
  /\ UNCHANGED <<setup, tm, alive, timers, taskq, thread, pc, paused, log, loads>>
-----------------------------------------------------------------------------
GuestCall(g) ==
  \/ \E u \in Timer : Create(g, u) \/ Destroy(g, u)
  \/ \E u \in Timer, t \in Clock : GetInformation(g, u, t) \/ Stop(g, u, t) \/ Disconnect(g, u, t)
  \/ \E u \in Timer, t \in Clock, s \in Starts :
       Start(g, u, t, s[1], s[2]) \/ StartFails(g, u, t, s[1], s[2])
  \/ \E u \in Timer, q \in Queue : Connect(g, u, q)
  \/ \E q \in Queue : DestroyQueue(g, q)

GuestStep(g) == StartPush(g) \/ \E u \in Timer : CreateAdd(g, u) \/ DestroyErase(g, u)

Next ==
  \/ \E g \in Guest : GuestCall(g) \/ GuestStep(g)
  \/ ThreadStep \/ Reload \/ Pause \/ Tick

\* Time passes, and the host runs every thread; nobody is obliged to make system calls.
\* The list is unlocked again and again: a thread that waits for it gets it.
\* The setups without fair are for the properties that do not depend on it.
Fairness ==
  /\ WF_vars(setup.fair /\ Tick) /\ WF_vars(setup.fair /\ ThreadStep)
  /\ \A g \in Guest : SF_vars(setup.fair /\ GuestStep(g))

Spec == Init /\ [][Next]_vars /\ Fairness
-----------------------------------------------------------------------------
(***************************************************************************)
(* Properties                                                              *)
(***************************************************************************)
\* The first expiry of a periodic timer with a base is what the loop of LV2 that it was
\* "optimized from" (lines 304-309) computes: the least time a number of periods past
\* the base that is not before the start.
FirstExpireIsLoop ==
  \A g \in Guest : pc[g] = Idle /\ pc'[g] = <<"push">> =>
    \A u \in Timer, t \in Clock, s \in Starts :
      s[2] > 0 /\ s[1] > 0 /\ Start(g, u, t, s[1], s[2]) =>
        LET after == {n \in 1..MaxTime + 1 : s[1] + n * s[2] >= t}
        IN  tm'[u].expire = s[1] + s[2] * (CHOOSE n \in after : \A k \in after : n <= k)

\* The events of a timer carry its expiry times in order, a period apart, none twice and
\* none early; one for a one-shot timer.  The host thread and the system calls send them
\* from times read before they had the lock (sys_timer.cpp:62, 83, 287, 351).  The first
\* of them is at the right time.
EventsExact ==
  /\ [](\A u \in Timer :
          /\ \A i \in 1..Len(log[u]) : log[u][i] <= now
          /\ \A i \in 2..Len(log[u]) : log[u][i] = log[u][i - 1] + tm[u].period
          /\ tm[u].period = 0 => Len(log[u]) <= 1
          /\ tm[u].state = "RUN" /\ log[u] # <<>> => Last(log[u]) < tm[u].expire)
  /\ [][FirstExpireIsLoop]_vars

\* Every timer is in the list once, from the time it is created until it is destroyed
\* (lines 186, 230), also after the list has been made anew (line 112).  A timer that has
\* been started and is connected has not been destroyed, so that the host thread, which
\* may be about to check it, sends nothing for a timer that has been (lines 206, 417).
ListExact ==
  /\ IsInjective(timers)
  /\ \A u \in Timer :
       /\ Exists(u) /\ (\A g \in Guest : pc[g] # <<"add", u>>) => u \in Range(timers)
       /\ tm[u].exists = "dead" => tm[u].state = "STOP" \/ ~Connected(u)

\* "Theoretically could have been destroyed by sys_timer_destroy by now" (line 183): the
\* list does not keep a timer that has been.
DeadUnlisted ==
  \A u \in Timer :
    tm[u].exists = "dead" /\ (\A g \in Guest : pc[g] \notin {<<"add", u>>, <<"erase", u>>})
      => u \notin Range(timers)

\* A running timer whose "Next expiration time" (sys_timer.h:34) has come sends its event
\* or is stopped, unless the emulator is paused.
DueFires ==
  \A u \in Timer, e \in 0..LastTime :
    (setup.fair /\ Exists(u) /\ tm[u].state = "RUN" /\ tm[u].expire = e /\ now >= e)
      ~> (~Exists(u) \/ tm[u].state = "STOP" \/ tm[u].expire # e \/ paused)
=============================================================================
