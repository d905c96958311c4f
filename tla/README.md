# LV2 kernel emulation: models, checks and proofs

This directory is a TLA+ development of the concurrency core of the emulator: the
high-level emulation of the PS3 kernel (LV2) in `src/rpcs3/Emu/Cell/lv2`, seen
from the PPU threads that call it, the host lock it is built on, and the
synchronisation library cellSync that works in guest memory alone. It holds the modules, the TLC configurations
that check them on small instances, and proofs checked by TLAPS that hold for any
number of threads. `PROJECT.json` lists the runs, the lines of code each
definition stands for, the hazards, the theorems and the findings.

## 1. The system

PS3Native runs PS3 programs on Android and desktop hosts. Its parts, and the state
that matters to this development:

| part | code | state | operations |
| --- | --- | --- | --- |
| PPU scheduler | `lv2/lv2.cpp`, `lv2/sys_sync.h` | run queue `g_ppu`, timeouts `g_waiting`, counter `g_pending`, flags in `cpu_thread::state` | sleep, awake, awake_all, yield, set_priority, schedule_all, wait_timeout |
| check_state | `CPU/CPUThread.cpp`, `PPUThread.cpp` | the flags of one thread | poll, hold a suspended thread, acknowledge, resume, stop |
| synchronisation objects | `lv2/sys_semaphore`, `sys_mutex`, `sys_cond`, `sys_lwmutex`, `sys_lwcond`, `sys_rwlock`, `sys_event_flag`, `sys_event`, `sys_interrupt` | an atomic value or owner word, a wait queue, the object mutex | create, destroy, acquire with and without timeout, try, release |
| PPU threads | `lv2/sys_ppu_thread.cpp`, `sys_timer.cpp` | status, joiner, priority | create, start, exit, join, detach, usleep |
| timers | `lv2/sys_timer.cpp` | the list of timers, a host thread with a task queue | create, start, stop, connect, destroy, scan |
| cellSync | `Modules/cellSync.cpp`, `.h` | words in guest memory | mutex, barrier, buffer with readers and writers, queue |
| IDs and IPC | `IdManager.h`, `IPC.h`, `sys_sync.h` | tables of shared objects | create, open, withdraw |
| host primitives | `Utilities/mutex.h`, `cond.h`, `sema.h`, `lockless.h`, `util/atomic.cpp` | one or two words | lock, wait, notify |
| emulator life cycle | `System.cpp` | system state | boot, pause, resume, stop, savestate |
| SPU threads, RSX, audio, input, loader, crypto, front ends | the rest of `rpcs3/`, `android/` | | mostly data processing and host I/O |

How they interact: a system call runs on the host thread of its PPU thread. It
changes an object (partly with lock-free operations, partly under the object's
mutex) and calls the scheduler, which serialises everything under one mutex,
`lv2_obj::g_mutex`. The scheduler tells a thread what to do only through the atomic
flag word `cpu_thread::state`; the thread reads it when guest code polls, in
`check_state` after every call, and in the wait loop of the call itself. That is
where the hard behaviours are:

* **the suspension handshake.** The emulated machine has `ppu_threads` hardware
  threads, the host runs all threads at once. A thread that becomes runnable may
  displace another: the other gets `suspend` and owes an acknowledgement
  (`ack_suspend`, counted in `g_pending`), and nobody is resumed until all
  acknowledgements are in;
* **one `signal` flag for everything.** The same flag ends a wait on an object, ends a
  suspension, and makes a later `sleep` fatal if left over;
* **timeouts**: a waiter that times out first asks to be scheduled again, and only
  then takes the object's lock to find out whether it was granted meanwhile;
* **lock-free fast paths** next to queues that only change under the lock;
* **savestates**: threads are stopped one by one in the middle of their calls and some
  of them repeat the call after loading (`cpu_flag::again`).

## 2. Modules

| module | what it is |
| --- | --- |
| `Lv2Sched` | the scheduler as operators on a record `sched`; used by every `Lv2` module but the timer |
| `Lv2Thread` | what every PPU thread does between calls: guest code, `check_state`, usleep, exit, stop |
| `Lv2Scheduler` | the scheduler driven by threads that start, block, wake, yield, change priorities and exit |
| `Semaphore`, `Lv2Semaphore` | what `sys_semaphore` promises (a counting semaphore with hand-over), and its code |
| `Lv2Mutex` | `sys_mutex`: owner word, recursion, hand-over |
| `Monitor`, `Lv2Cond` | what a condition variable and its mutex promise together, and `sys_cond` composed with `Lv2Mutex` |
| `EventFlag`, `Lv2EventFlag` | what `sys_event_flag` promises (set serves the waiters in one step), and its code |
| `Lv2EventQueue` | `sys_event`: queues, local and IPC ports, sends by threads and by the host, loading of states |
| `RwLock`, `Lv2Rwlock` | what `sys_rwlock` promises, and its code with the signed owner word |
| `Lv2Timer` | `sys_timer` objects and the host thread that scans them |
| `Lock`, `Lwmutex` | a lock that is handed over, and `sys_lwmutex`: the word in guest memory and the kernel object together |
| `SharedMutex` | `Utilities/mutex.*`, the lock inside every object, one step per atomic access |
| `CellSyncThread` | threads that call cellSync, and the saving of states |
| `CellSyncMutex`, `CellSyncBarrier`, `CellSyncRwm`, `CellSyncQueue` | the four objects; `Barrier` and `Fifo` are what the barrier and the queue promise |
| `MC*` | the instances for TLC |
| `Lv2SchedProofs`, `Lv2SchedulerProofs`, `Lv2SemaphoreProofs`, `SharedMutexProofs`, `CellSyncMutexProofs`, `CellSyncRwmProofs` | proofs |

### State and steps

`sched` is one record because the code changes all of it under `g_mutex`. A flag of
`cpu_thread::state` or a boolean member of `ppu_thread` is the set of the threads
that have it: `suspend`, `signal`, `notify`, `stop`, `again`, `ack_suspend`. The run
queue `g_ppu` is a sequence, `g_waiting` a set of threads, because only whether an
entry exists matters once time is abstract: any subset of the registered timeouts may
be found expired by a call. `cpu_sleep` is the local `cpu_sleep_called` of `check_state`.

A scheduler call is one operator: `Sleep` is `sleep_unlocked` followed by
`schedule_all`, `Awake` and `AwakeAll` are `emplace_thread` for each thread, the
suspension of the threads beyond `ppu_threads`, the caller's acknowledgement, and
`schedule_all`. `CheckFlags` is the single atomic operation of a `check_state`
iteration, `CpuSleep` the `awake(this)` it makes. In the modules of the objects a step is
what happens between two points where another thread can see a difference: one access
to an atomic word, a section under the object mutex up to the next such access, one
scheduler call. `pc` says where each thread is. The object mutex is a variable `mutex`
that names its holder; `SharedMutex` shows what the others assume of it. Wait queues
are sequences with the oldest waiter first; the code pushes at the front and numbers
the waiters (`ScheduleIndex` picks the same waiter).

* In `Lv2Mutex` and `Lwmutex` a thread joins the queue by compare-and-swap and sleeps in a
  later call. `cancel_sleep` covers the window: an `awake` that finds the thread still
  running makes it 2, and `sleep` then returns false, which lock takes for the hand-over.
* `Lv2Cond` adds the queue of the condition variable `csq`, the list `todo` of a
  signal_all, and the recursion count `ret` that a waiter sets aside.
* In `Lv2EventFlag` the pattern is a set of bits. `SetLock` and `SetCas` are the two halves of
  set: the work on a copy (`Round`), and the `fetch_op` that commits it or starts over.
* In `Lv2EventQueue` events are numbered as they are accepted; `gone` has those that
  receivers have returned with. A send that hands over an event awakes the receiver and raises
  `is_busy` in two steps. `Load` makes threads run again as `ppu_thread` does.
* In `Lv2Timer` time is a small number. A call uses a time it has read up to `Lag` ago.
  `Reload` saves and loads the state; the pointer to a queue destroyed before is lost (`Saved`).
* In cellSync a thread that is told to stop leaves its spin loop with `CELL_OK` and goes on
  behind the call after loading. `mode` is "steady" if no state is ever saved. The depth of a
  queue is taken to be below 2^24, which `cellSyncQueueInitialize` does not check.

Variables not in the code record what the guest was told, so that it can be compared with
the state: `holds`, `sent`, `gone`, `log`, `before`, `heir`, `line`.

Left out of the scheduler: `cpu_flag::yield` and `preempt` and `hw_sleep_time` (hints
for the host), `g_to_notify` (which host thread is woken by whom), `g_to_sleep`
(threads that come back from a savestate).

## 3. Runs

An object is checked in several setups by one run: the initial state chooses one of the
records `Setups` (which threads take part, what each of them calls, protocol, sizes).

| run | setups | shows |
| --- | --- | --- |
| `scheduler` | 3 threads, 3 priorities, 1 hardware thread | handshake, use of the hardware thread, stale flags, resumption |
| `semaphore` | two waiters and a poster; the same told to stop; a pair that calls everything | `val` and queue agree; refines `Semaphore`; a popped waiter returns |
| `monitor` | two waiters and a signaller; told to stop; a pair that also destroys; one waiter; the mutex alone (3) | wait returns as the owner; no waiter lost between queues; refines `Monitor` |
| `monitor_stopped` | timeouts and stops together | **fails**: section 6 |
| `shared_mutex` | 3 threads, fields of 0-2 readers and 0-4 writers | exclusion, exact counts, the lock passed on, `lock_unlock` waits |
| `event_flag` | two waiters and a thread that does the rest; stops; bits taken during a set; a flag for one waiter; two waiters whom only their age sets apart | nobody sleeps through its bits; order; refines `EventFlag` |
| `event_flag_restart` | three waiters, a set, a clear | **fails**: section 6 |
| `event_queue` | receivers and a host sender; ports; stops and loading; one receiver | every event once and in order; `is_busy` exact; CELL_OK has an event |
| `rwlock` | mixed calls; two readers and two writers; stops; the last writer gives up; one waiter | owner word exact; refines `RwLock` |
| `timer` | all calls; many first expiries; two timers with loading; a queue lost by loading; one timer | list exact, events exact, a due timer fires |
| `lwmutex` | all calls; SYS_SYNC_RETRY with and without timeouts; stops; a recursive pair | guest word and kernel object agree; refines `Lock` |
| `cell_sync` | 3 threads on each of the four objects, with and without saved states | no lost ticket, no torn read; refines `Barrier` and `Fifo`; waits end |

`CallsSound` of a module collects what its calls rely on: the `ensure`s, that a signal in
a wait loop means what the loop takes it for, that destroy strands nobody, that a thread
to be repeated after loading is still queued. The comment lists the lines.
`NoIdleHardware` states that every path through the scheduler ends in a `schedule_all` that
could see the last acknowledgement. `GuestCanSleep` is the absence of the fatal "sleep()
failed (signaled)". Every refinement is also a safety property of the lock-free paths:
each step of the code is one step of the promise or changes nothing of it.

*Bounds.* Three threads are the smallest number with a running thread, one that is
being displaced and one that displaces it, or with two waiters and a thread that serves
them; the event flag and the readers-writer lock have a setup with four. With two hardware
threads several threads execute calls at the same time; `scheduler` and `monitor_stopped`
have one, so that suspension happens inside every call. `MaxCount` stands for 0xffffffff
and is 1, so that the limit is reached; `c_one` and `c_sig` are the field sizes of
`shared_mutex`, `Mod` is 2^16 of the cellSync mutex (with as many values as threads), `Half`
is the sign bit of the barrier (so that `total_count` is at its largest), `depth` the queue's
slots. `MaxSent` bounds the events sent, `LastTime` and `time` the clock, `lag` the age of a
reading of it, `loads` how often a state is loaded. Nothing else is bounded.

*Deadlock* is not checked: guest programs may block for ever, and do when all threads
wait or have exited.

*Fairness.* Weak fairness of the steps of each thread's own control flow: the host
schedules all its threads, and each wait in the code is on a flag word whose writer
notifies it. None is assumed of the calls a guest makes, of timeouts or of stop requests.
Exceptions: holders of a `SharedMutex` release it and those who begin to wait or upgrade go on;
the holder of a cellSync mutex unlocks it, and threads at a cellSync barrier come again;
timers need time to pass, and guests in the middle of a timer call to get the lock of the
list, which the host thread takes again and again (strong fairness). To keep liveness
within reach it is assumed, and checked, only in the setups with `fair` (in `scheduler`, of
the behaviours in which `t3` is not started and no usleep is aborted by an awake; in `cell_sync`, with mode "steady").

*What the passing instances leave out on purpose.* Some properties do not hold in every
setup; section 6 says why. The passing runs therefore do not combine: timeouts and stops
on one condition variable or event queue, or of one thread at any object but the semaphore and
the readers-writer lock (this bounds `CallsSound` and the refinements of the
mutex, the light-weight mutex and the event flag); a sender less urgent than its receiver with
loading; a receiver that destroys queue and port under its sender; two timers, or
get_information, with the liveness of timers. The last conjunct of `Lwmutex!CallsSound` is about
SYS_SYNC_RETRY without timeouts: a thread woken by an unlock that finds its timeout elapsed
returns without waking the next one (`sys_lwmutex_.cpp:255`).

## 4. Proofs

*Scheduler.* `Lv2SchedulerProofs` proves, for any finite set of threads, any number of
hardware threads and any priorities (`SchedAssumption`, `PrioAssumption`), the safety
properties of `scheduler` and three more (types, order of the run queue, timeouts).
None is inductive alone. The invariant `Inv` adds to the types:

* `Core`: the queue is sorted without duplicates, `g_pending` is the number of threads in
  `ack_suspend`, those are suspended, only queued threads are signaled, and registered
  timeouts belong to threads neither queued nor notified;
* `OnProc` and `NoIdle`: exactly the first `ppu_threads` run, up to pending suspensions;
* `ThreadInv`, which ties a thread's place to the scheduler: in guest code it is queued,
  carries no signal and no notification, and if suspended it still owes its
  acknowledgement (this is why a signal cannot reach it: `g_pending` is not zero); unless it
  has exited it is queued or suspended; it is marked `again` only when its usleep has been
  aborted; only in `check_state` is a call of `cpu_sleep` outstanding.

`Lv2SchedProofs` proves what each operator preserves of this, first about sequences
(`Unlink`, `Link`, `Unqueue`, the place `emplace_thread` finds in a sorted queue), then about
`AckSuspend`, `SuspendExcess`, `ScheduleAll`, `Emplace` and their compositions. `Unlink` and `Link` are
defined in `Lv2Sched` rather than taken from `SequencesExt`: the definitions that module
brings into every obligation multiply the time of the proofs.

*Semaphore.* `Lv2SemaphoreProofs` proves `QueueMatchesValue`, `CallsSound` and the refinement of
`Semaphore` for any number of threads, any setups, either protocol and any maximum. Its
invariant has the scheduler's part above as `Placed`, in terms of four sets of threads: those that
run, those that have exited, those in `check_state`, and those `Asleep` that only an awake meant
for them may queue. To this it adds `ThreadInv` (where a thread is that is in the queue, among
the popped or marked `again`; who holds the mutex), `ObjectInv` (nobody is both queued and
popped, posts under way hold the mutex) and `QueueMatchesValue`. That no awake reaches a thread in
usleep (`UsleepSafe`) is proved here, where the awakes are those of the code: in
`Lv2Scheduler` any thread may be awoken at any time, and a usleep may be aborted. The setups are
assumed to start in an orderly queue (`StartsOrdered`).

*Host lock.* `SharedMutexProofs` proves `MutualExclusion`, `Counted` and `PassedOn` for any number
of threads that the fields can count. The invariant is the count of the word by the places
of the threads, from which exclusion follows by arithmetic on the fields.

*cellSync.* `CellSyncMutexProofs` proves `MutexSound` for up to `Mod` threads, also
when states are saved: every ticket taken is returned or is with a thread. As long as none
is saved, the tickets of the line run from `rel` to `acq` modulo `Mod`, and exclusion follows.
`CellSyncRwmProofs` proves `BufferSound` for any number of threads: the invariant relates the
counters to the readers and the writer, and the half of each copy that is made to `data`.

Only model-checked: the other kernel objects and their refinements, the barrier and the
queue of cellSync, `LockUnlockWaits`, and liveness, which is outside the prover's reach.

## 5. Not modelled

The repository has about 700,000 lines, most of which translate instructions, shaders and
formats, talk to devices, or draw user interfaces. These are sequential data processing or
host I/O, with no control that a model checker adds to; the map covers a small share of
the lines for that reason. `PROJECT.json` lists every part with its reason. Of the
concurrent parts these are left for later:

* `sys_lwcond`, `sys_interrupt`, SPU queues of `sys_event`, join and detach of `sys_ppu_thread`;
* the restart of `sys_cond_wait` after loading (it re-enters one of two queues), and
  `g_to_sleep` of the scheduler;
* objects shared by IPC key (`sys_sync.h`, `IPC.h`), the life cycle in `System.cpp`;
* `cond_variable`, `semaphore` and the lock-free queue of `Utilities/`, `cellSyncLFQueue`;
* SPU thread groups and channels, the range locks of `vm.cpp`, the command FIFO of the RSX.

## 6. Findings

`monitor_stopped`: a waiter that has timed out calls `check_state` and is put back on the run
queue. If it is then told to stop, `check_state` returns true and the loop starts again; a
scheduler signal in between ends the wait (`sys_cond.cpp:513`) without ownership, and the
`ensure` under "Verify ownership" fails.

`event_flag_restart`: a set that starts over does not reset the results of its first attempt. A
waiter served only in the first keeps `CELL_OK` and is taken off the queue although another
waiter has taken its bits (`sys_event_flag.cpp:346-402`).

The following were met on the way. Each is stated by a definition of the module that TLC
refutes on the instance named; they are not among the runs.

| definition | instance | behaviour of the code |
| --- | --- | --- |
| `Lv2Semaphore!SaveExact`, `Lv2Mutex!SaveExact`, `Lv2Mutex!HeldIsOwned` | all threads with timeouts and stops | the same loop as in `monitor_stopped`: the call ends with `CELL_OK`, still queued and not marked `again`; the saved object drops the queue (`sys_semaphore.cpp:162`, `sys_mutex.cpp:216`) |
| `Lv2EventQueue!OkHasEvent` | a receiver with timeout and stop, 1 hardware thread | the same: `CELL_OK` without an event (`sys_event.cpp:524`) |
| `Lv2EventFlag!ImplementsEventFlag` | `Stopping` with a timeout of `t1` | the same: the wait ends while its thread is still queued (`sys_event_flag.cpp:200`) |
| `Lv2Cond!RedoKeepsRecursion` | a recursive mutex, a waiter and a locker told to stop | `lock_count` is cleared before the call learns that it is to be repeated (`sys_cond.cpp:475`) |
| `Lv2EventFlag!ResultCurrent` | `Racing` | the pattern a waiter returns may have a bit that a trywait has taken meanwhile (`sys_event_flag.cpp:394`) |
| `Lv2EventQueue!Delivered` | `Stopping` with `MCPrio` | a sender stopped after its event was delivered sends it again after loading (`sys_event.cpp:805`) |
| `Lv2EventQueue!SendingPortKept` | the receiver destroys queue and port, 1 hardware thread | the sender lowers `is_busy` of a port that is gone (`sys_event.cpp:645, 811`) |
| `Lv2Rwlock!WakingEnds` | `LastToGiveUp` with `fair` | `schedule` does not unlink a reader marked `again`, so the loop that wakes the readers does not end (`sys_rwlock.cpp:459`) |
| `Lv2Timer!DueFires` | `OneTimer` with get_information | the event was sent by the call; the host thread then sleeps without limit (`sys_timer.cpp:83`) |
| `Lv2Timer!DueFires` | `TwoTimers` with `fair` | the scan of another timer drains the task of a start (`sys_timer.cpp:152`) |
| `Lv2Timer!DeadUnlisted` | `TwoTimers`, ids guessed before create returns | a timer destroyed before it is listed stays listed; harmless (`sys_timer.cpp:184`) |
| `Lwmutex!HeirFindsReserved`, `Lwmutex!ImplementsLock` | `TimedStopping` | the same loop: the thread leaves it with `CELL_OK`, still queued, and its exchange of the owner does not find it reserved: "Locking failed" (`sys_lwmutex.cpp:237`, `sys_lwmutex_.cpp:200`) |
| `Lwmutex!UnlockRepeatable` | `Stopping` | an unlock repeated after loading no longer finds itself the owner (`sys_lwmutex_.cpp:394`) |
| `CellSyncMutex!MutualExclusion` | saved states | a thread stopped in the spin loop goes on as if it had the mutex (`cellSync.cpp:82`) |
| `CellSyncRwm!FreeAtRest` | saved states | a writer stopped after it has shut the others out leaves `writers` at 1 (`cellSync.cpp:380`) |
