----------------------------- MODULE Lv2Rwlock -----------------------------
(***************************************************************************)
(* sys_rwlock (rpcs3/Emu/Cell/lv2/sys_rwlock.cpp): one lv2_rwlock used by  *)
(* PPU threads that lock it for reading and for writing, with or without a *)
(* timeout, try to, unlock and destroy it, and are stopped to save the     *)
(* state.                                                                  *)
(*                                                                         *)
(* owner is the signed word of the code: 0 when free, twice the id of the  *)
(* writer, or minus twice the number of readers; its lowest bit is set     *)
(* when threads wait.  Fast paths change it without the lock.  A read of   *)
(* owner followed by a compare-and-swap is one step: if the swap fails,    *)
(* the slow path does what it would have done.  A thread unlocks only what *)
(* it holds, and holds it once.                                            *)
(***************************************************************************)
EXTENDS Lv2Thread

CONSTANTS
  Setups,       \* the programs of the threads, with the attributes of the lock
  Id,           \* ppu.id of each thread
  InitQueue     \* the run queue at the start

ASSUME RwlockAssumption ==
  /\ \A s \in Setups : DOMAIN s.role = Thread /\ s.protocol \in {"FIFO", "PRIORITY"}
  /\ Id \in [Thread -> Nat \ {0}]
  /\ \A t, u \in Thread : Id[t] = Id[u] => t = u

VARIABLES
  setup,        \* the member of Setups this behaviour has: it never changes
  owner,        \* lv2_rwlock::owner
  rq, wq,       \* lv2_rwlock::rq and wq, oldest first
  mutex,        \* holder of lv2_rwlock::mutex
  exists,       \* the id is in the IDM
  timeout,      \* threads whose wait has a timeout
  kind,         \* "r" or "w": what each waiter waits for
  holds,        \* "no", "r" or "w": what each thread has been given
  g_to_awake    \* threads the holder of mutex has taken off rq

lock == <<setup, owner, rq, wq, mutex, exists, timeout, kind, holds, g_to_awake>>
vars == <<sched, pc, lock>>

Role == setup.role             \* the operations each thread calls
protocol == setup.protocol     \* lv2_rwlock::protocol

\* Beside the values of Lv2Thread, pc is
\*   "r_lock"   in rlock, under the IDM lock; "w_lock" in wlock
\*   "w_loop"   in the wait loop
\*   "w_stop"   it has seen a stop flag
\*   "w_redo"   stopped, with the call to be executed again
\*   "w_check"  it has timed out, in check_state
\*   "w_unq"    about to leave the queue
\*   "w_wake"   the last writer to give up wakes the readers
\*   "ru_lock"  in runlock, about to lock; "wu_lock" in wunlock
PC == {"guest", "check", "stopped", "redo", "exited", "r_lock", "w_lock", "w_loop", "w_stop", "w_redo",
       "w_check", "w_unq", "w_wake", "ru_lock", "wu_lock"}

MaxId == CHOOSE n \in {Id[t] : t \in Thread} : \A t \in Thread : Id[t] <= n

TypeOK ==
  /\ sched \in SchedType
  /\ pc \in [Thread -> PC]
  /\ setup \in Setups
  /\ owner \in (-2 * Cardinality(Thread))..(2 * MaxId + 1)
  /\ rq \in Seq(Thread) /\ wq \in Seq(Thread) /\ g_to_awake \in Seq(Thread)
  /\ mutex \in Thread \cup {NoThread}
  /\ exists \in BOOLEAN
  /\ timeout \in SUBSET Thread
  /\ kind \in [Thread -> {"r", "w"}]
  /\ holds \in [Thread -> {"no", "r", "w"}]

Init ==
  /\ setup \in Setups
  /\ sched = InitSched(StartQueue(InitQueue, Role))
  /\ pc = StartPc(sched, Role)
  /\ owner = 0
  /\ rq = <<>> /\ wq = <<>> /\ g_to_awake = <<>>
  /\ mutex = NoThread
  /\ exists = TRUE
  /\ timeout = {}
  /\ kind = [t \in Thread |-> "r"]
  /\ holds = [t \in Thread |-> "no"]

\* val & 1, val |= 1 and val &= -2 on the signed word; val <= 0 && !(val & 1)
Odd(val) == val % 2 = 1
SetBit(val) == IF Odd(val) THEN val ELSE val + 1
ClearBit(val) == val - (val % 2)
Readable(val) == val <= 0 /\ ~Odd(val)

Hold(ts, what) == holds' = [t \in Thread |-> IF t \in ts THEN what ELSE holds[t]]

\* The return from a wait: its locals are gone.
Return(t) == timeout' = timeout \ {t} /\ kind' = [kind EXCEPT ![t] = "r"]
-----------------------------------------------------------------------------
(***************************************************************************)
(* sys_rwlock_rlock, _tryrlock, _wlock, _trywlock                          *)
(***************************************************************************)
Rlock(t, timed) ==
  /\ "rlock" \in Role[t] /\ holds[t] = "no"
  /\ IF exists /\ Readable(owner)
     THEN Goto(t, "guest", "check") /\ owner' = owner - 2 /\ Hold({t}, "r")
     ELSE Goto(t, "guest", IF exists THEN "r_lock" ELSE "check") /\ UNCHANGED <<owner, holds>>
  /\ timeout' = IF timed /\ pc'[t] = "r_lock" THEN timeout \cup {t} ELSE timeout
  /\ UNCHANGED <<setup, sched, rq, wq, mutex, exists, kind, g_to_awake>>

\* Under the lock: one more reader, or set the bit, sleep and emplace.
RlockLock(t) ==
  /\ mutex = NoThread
  /\ IF Readable(owner)
     THEN /\ Goto(t, "r_lock", "check")
          /\ owner' = owner - 2
          /\ Hold({t}, "r")
          /\ Return(t)
          /\ UNCHANGED <<sched, rq>>
     ELSE /\ Goto(t, "r_lock", "w_loop")
          /\ owner' = SetBit(owner)
          /\ \E late \in SUBSET (sched.waiting \cup {t}) :
               sched' = Sleep(sched, t, t \in timeout, late)
          /\ rq' = Append(rq, t)
          /\ kind' = [kind EXCEPT ![t] = "r"]
          /\ UNCHANGED <<holds, timeout>>
  /\ UNCHANGED <<setup, wq, mutex, exists, g_to_awake>>

TryRlock(t) ==
  /\ "tryrlock" \in Role[t] /\ holds[t] = "no"
  /\ Goto(t, "guest", "check")
  /\ IF exists /\ Readable(owner)
     THEN owner' = owner - 2 /\ Hold({t}, "r")
     ELSE UNCHANGED <<owner, holds>>
  /\ UNCHANGED <<setup, sched, rq, wq, mutex, exists, timeout, kind, g_to_awake>>

\* EDEADLK for the writer itself
Wlock(t, timed) ==
  /\ "wlock" \in Role[t] /\ holds[t] # "r"
  /\ IF exists /\ owner = 0
     THEN Goto(t, "guest", "check") /\ owner' = 2 * Id[t] /\ Hold({t}, "w")
     ELSE /\ Goto(t, "guest", IF exists /\ owner \div 2 # Id[t] THEN "w_lock" ELSE "check")
          /\ UNCHANGED <<owner, holds>>
  /\ timeout' = IF timed /\ pc'[t] = "w_lock" THEN timeout \cup {t} ELSE timeout
  /\ UNCHANGED <<setup, sched, rq, wq, mutex, exists, kind, g_to_awake>>

\* Mutant: the writer goes to sleep without setting the bit.
WlockNoBit(t) ==
  /\ mutex = NoThread
  /\ IF owner = 0
     THEN /\ Goto(t, "w_lock", "check")
          /\ owner' = 2 * Id[t]
          /\ Hold({t}, "w")
          /\ Return(t)
          /\ UNCHANGED <<sched, wq>>
     ELSE /\ Goto(t, "w_lock", "w_loop")
          /\ \E late \in SUBSET (sched.waiting \cup {t}) :
               sched' = Sleep(sched, t, t \in timeout, late)
          /\ wq' = Append(wq, t)
          /\ kind' = [kind EXCEPT ![t] = "w"]
          /\ UNCHANGED <<owner, holds, timeout>>
  /\ UNCHANGED <<setup, rq, mutex, exists, g_to_awake>>

\* Under the lock: take it if it is free, or set the bit, sleep and emplace.
WlockLock(t) ==
  /\ mutex = NoThread
  /\ IF owner = 0
     THEN /\ Goto(t, "w_lock", "check")
          /\ owner' = 2 * Id[t]
          /\ Hold({t}, "w")
          /\ Return(t)
          /\ UNCHANGED <<sched, wq>>
     ELSE /\ Goto(t, "w_lock", "w_loop")
          /\ owner' = SetBit(owner)
          /\ \E late \in SUBSET (sched.waiting \cup {t}) :
               sched' = Sleep(sched, t, t \in timeout, late)
          /\ wq' = Append(wq, t)
          /\ kind' = [kind EXCEPT ![t] = "w"]
          /\ UNCHANGED <<holds, timeout>>
  /\ UNCHANGED <<setup, rq, mutex, exists, g_to_awake>>

TryWlock(t) ==
  /\ "trywlock" \in Role[t] /\ holds[t] = "no"
  /\ Goto(t, "guest", "check")
  /\ IF exists /\ owner = 0
     THEN owner' = 2 * Id[t] /\ Hold({t}, "w")
     ELSE UNCHANGED <<owner, holds>>
  /\ UNCHANGED <<setup, sched, rq, wq, mutex, exists, timeout, kind, g_to_awake>>
-----------------------------------------------------------------------------
(***************************************************************************)
(* The wait loop, the same in rlock and wlock up to the timeout.           *)
(***************************************************************************)
WaitSignaled(t) ==
  /\ SeesSignal(t, "w_loop", "check")
  /\ Return(t)
  /\ UNCHANGED <<setup, owner, rq, wq, mutex, exists, holds, g_to_awake>>

WaitStopped(t) == SeesStop(t, "w_loop", "w_stop") /\ UNCHANGED lock

\* Under the lock: a thread still queued is to repeat the call after loading.
WaitAgain(t) ==
  /\ mutex = NoThread
  /\ IF t \in Range(IF kind[t] = "r" THEN rq ELSE wq)
     THEN RedoCall(t, "w_stop", "w_redo") /\ UNCHANGED <<timeout, kind>>
     ELSE Goto(t, "w_stop", "check") /\ Return(t) /\ UNCHANGED sched
  /\ UNCHANGED <<setup, owner, rq, wq, mutex, exists, holds, g_to_awake>>

\* wait_timeout returns TRUE
WaitTimeout(t) ==
  /\ t \in timeout
  /\ Goto(t, "w_loop", "w_check")
  /\ UNCHANGED <<sched, lock>>

\* "Wait for rescheduling"
WaitCheck(t) == CheckState(t, "w_check", "w_unq", "w_loop") /\ UNCHANGED lock

\* A reader leaves the queue, or finds that it has been let in.  A queue read as empty
\* does not hold the thread, and lock_unlock waits for the holder.
RlockUnqueue(t) ==
  /\ mutex = NoThread /\ kind[t] = "r"
  /\ Goto(t, "w_unq", "check")
  /\ rq' = Unqueue(rq, t)
  /\ Return(t)
  /\ UNCHANGED <<setup, sched, owner, wq, mutex, exists, holds, g_to_awake>>

\* The readers did not wait for the holder.
LastWriter(t) == wq = <<t>> /\ rq # <<>> /\ owner < 0

\* Mutant: the readers are left to the last of the readers that hold the lock.
UnqueueOnly(t) ==
  /\ mutex = NoThread /\ kind[t] = "w"
  /\ Goto(t, "w_unq", "check")
  /\ wq' = Unqueue(wq, t)
  /\ owner' = IF wq = <<t>> /\ rq = <<>> THEN ClearBit(owner) ELSE owner
  /\ Return(t)
  /\ UNCHANGED <<setup, sched, rq, mutex, exists, holds, g_to_awake>>

\* A writer leaves the queue, or finds that it has the lock.  The last one to leave
\* wakes the readers or clears the bit.
WlockUnqueue(t) ==
  /\ mutex = NoThread /\ kind[t] = "w"
  /\ Goto(t, "w_unq", IF LastWriter(t) THEN "w_wake" ELSE "check")
  /\ wq' = Unqueue(wq, t)
  /\ mutex' = IF LastWriter(t) THEN t ELSE NoThread
  /\ owner' = IF wq = <<t>> /\ rq = <<>> THEN ClearBit(owner) ELSE owner
  /\ Return(t)
  /\ UNCHANGED <<setup, sched, rq, exists, holds, g_to_awake>>

\* One turn of its loop: schedule does not unlink a reader that has cpu_flag::again.
WakeNext(t) ==
  /\ pc[t] = "w_wake" /\ rq # <<>>
  /\ IF rq[1] \in sched.again THEN UNCHANGED <<rq, g_to_awake>>
     ELSE rq' = Tail(rq) /\ g_to_awake' = Append(g_to_awake, rq[1])
  /\ UNCHANGED <<setup, sched, pc, owner, wq, mutex, exists, timeout, kind, holds>>

\* "Add readers to value", "Clear wait bit", awake_all
WakeReaders(t) ==
  /\ rq = <<>>
  /\ Goto(t, "w_wake", "check")
  /\ owner' = ClearBit(owner - 2 * Len(g_to_awake))
  /\ Hold(Range(g_to_awake), "r")
  /\ \E late \in SUBSET sched.waiting : sched' = AwakeAll(sched, t, g_to_awake, late)
  /\ g_to_awake' = <<>>
  /\ mutex' = NoThread
  /\ UNCHANGED <<setup, rq, wq, exists, timeout, kind>>
-----------------------------------------------------------------------------
(***************************************************************************)
(* sys_rwlock_runlock, sys_rwlock_wunlock                                  *)
(***************************************************************************)
NextWriter == wq[ScheduleIndex(sched, wq, protocol)]

\* Mutant: the writer is given the lock and not awoken.
ToWriterSilent(t, from) ==
  LET rest == Unlink(wq, ScheduleIndex(sched, wq, protocol))
  IN  /\ mutex = NoThread /\ wq # <<>> /\ NextWriter \notin sched.again
      /\ Goto(t, from, "check")
      /\ wq' = rest
      /\ owner' = 2 * Id[NextWriter] + (IF rest # <<>> \/ rq # <<>> THEN 1 ELSE 0)
      /\ holds' = [holds EXCEPT ![t] = "no", ![NextWriter] = "w"]
      /\ UNCHANGED <<setup, sched, rq, mutex, exists, timeout, kind, g_to_awake>>

\* Hand over to a writer.
ToWriter(t, from) ==
  LET rest == Unlink(wq, ScheduleIndex(sched, wq, protocol))
  IN  /\ mutex = NoThread /\ wq # <<>> /\ NextWriter \notin sched.again
      /\ Goto(t, from, "check")
      /\ wq' = rest
      /\ owner' = 2 * Id[NextWriter] + (IF rest # <<>> \/ rq # <<>> THEN 1 ELSE 0)
      /\ holds' = [holds EXCEPT ![t] = "no", ![NextWriter] = "w"]
      /\ \E late \in SUBSET sched.waiting : sched' = Awake(sched, t, NextWriter, late)
      /\ UNCHANGED <<setup, rq, mutex, exists, timeout, kind, g_to_awake>>

Runlock(t) ==
  /\ holds[t] = "r"
  /\ IF owner < 0 /\ ~Odd(owner)
     THEN Goto(t, "guest", "check") /\ owner' = owner + 2 /\ Hold({t}, "no")
     ELSE Goto(t, "guest", "ru_lock") /\ UNCHANGED <<owner, holds>>
  /\ UNCHANGED <<setup, sched, rq, wq, mutex, exists, timeout, kind, g_to_awake>>

\* "Remove one reader", or the last one with nobody to hand over to
RunlockLock(t) ==
  /\ mutex = NoThread
  /\ owner < -1 \/ wq = <<>>
  /\ Goto(t, "ru_lock", "check")
  /\ owner' = IF owner < -1 THEN owner + 2 ELSE 0
  /\ Hold({t}, "no")
  /\ UNCHANGED <<setup, sched, rq, wq, mutex, exists, timeout, kind, g_to_awake>>

RunlockHands(t) == owner = -1 /\ ToWriter(t, "ru_lock")

\* The writer is to repeat its call after loading: so is this thread.
RunlockAgain(t) ==
  /\ mutex = NoThread /\ owner = -1 /\ wq # <<>> /\ NextWriter \in sched.again
  /\ RedoCall(t, "ru_lock", "redo")
  /\ UNCHANGED lock

Wunlock(t) ==
  /\ holds[t] = "w"
  /\ IF owner = 2 * Id[t]
     THEN Goto(t, "guest", "check") /\ owner' = 0 /\ Hold({t}, "no")
     ELSE Goto(t, "guest", "wu_lock") /\ UNCHANGED <<owner, holds>>
  /\ UNCHANGED <<setup, sched, rq, wq, mutex, exists, timeout, kind, g_to_awake>>

\* No writer waits: let the readers in, if there are any.
WunlockLock(t) ==
  /\ mutex = NoThread /\ wq = <<>> /\ Range(rq) \cap sched.again = {}
  /\ Goto(t, "wu_lock", "check")
  /\ owner' = -2 * Len(rq)
  /\ holds' = [u \in Thread |-> IF u = t THEN "no" ELSE IF u \in Range(rq) THEN "r" ELSE holds[u]]
  /\ rq' = <<>>
  /\ IF rq = <<>> THEN UNCHANGED sched
     ELSE \E late \in SUBSET sched.waiting : sched' = AwakeAll(sched, t, rq, late)
  /\ UNCHANGED <<setup, wq, mutex, exists, timeout, kind, g_to_awake>>

WunlockAgain(t) ==
  /\ mutex = NoThread
  /\ IF wq # <<>> THEN NextWriter \in sched.again ELSE Range(rq) \cap sched.again # {}
  /\ RedoCall(t, "wu_lock", "redo")
  /\ UNCHANGED lock

\* sys_rwlock_destroy: idm::withdraw holds the IDM lock exclusively
Destroy(t) ==
  /\ "destroy" \in Role[t]
  /\ \A u \in Thread : pc[u] \notin {"r_lock", "w_lock"}
  /\ Goto(t, "guest", "check")
  /\ exists' = (exists /\ owner # 0)
  /\ UNCHANGED <<setup, sched, owner, rq, wq, mutex, timeout, kind, holds, g_to_awake>>
-----------------------------------------------------------------------------
LockStep(t) ==
  \/ RlockLock(t) \/ WlockLock(t) \/ WaitSignaled(t) \/ WaitStopped(t) \/ WaitAgain(t)
  \/ WaitTimeout(t) \/ WaitCheck(t) \/ RlockUnqueue(t) \/ WlockUnqueue(t)
  \/ WakeNext(t) \/ WakeReaders(t)

UnlockStep(t) ==
  \/ RunlockLock(t) \/ RunlockHands(t) \/ RunlockAgain(t)
  \/ ToWriter(t, "wu_lock") \/ WunlockLock(t) \/ WunlockAgain(t)

\* Steps common to all system calls.
ThreadStep(t) ==
  /\ Poll(t) \/ CheckState(t, "check", "guest", "stopped") \/ Requeue(t)
  /\ UNCHANGED lock

Call(t) ==
  \/ \E timed \in {FALSE, "timed" \in Role[t]} : Rlock(t, timed) \/ Wlock(t, timed)
  \/ TryRlock(t) \/ TryWlock(t) \/ Runlock(t) \/ Wunlock(t) \/ Destroy(t)
  \/ "stop" \in Role[t] /\ Stop(t) /\ UNCHANGED lock

Next == \E t \in Thread : Call(t) \/ LockStep(t) \/ UnlockStep(t) \/ ThreadStep(t)

\* The host runs every thread; nobody is obliged to make system calls or to stop.
\* The setups without fair are for the properties that do not depend on it.
Fairness ==
  \A t \in Thread : WF_vars(setup.fair /\ (ThreadStep(t) \/ LockStep(t) \/ UnlockStep(t)))

Spec == Init /\ [][Next]_vars /\ Fairness
-----------------------------------------------------------------------------
(***************************************************************************)
(* Properties                                                              *)
(***************************************************************************)
Holding(what) == {t \in Thread : holds[t] = what}

\* The lock implements the readers-writer lock with hand-over to waiting writers
\* first, though fast paths and timeouts change owner outside the queues' order.
Abstract == INSTANCE RwLock WITH
  writer <- IF Holding("w") = {} THEN NoThread ELSE CHOOSE t \in Thread : holds[t] = "w",
  readers <- Holding("r"),
  waitR <- Range(rq) \cup Range(g_to_awake),
  waitW <- Range(wq) \cup {t \in Thread : pc[t] = "w_wake"}

ImplementsRwLock == Abstract!Spec

\* The word, the queues and the calls agree:
\*  - owner is exactly what the threads hold: one writer, its id, or the number of
\*    readers (sys_rwlock.cpp:110, 302, 321, 467, 583);
\*  - its bit tells the unlocker of every waiter, and the last reader to leave never
\*    finds readers and no writer waiting: the ensure(!rq) of line 329;
\*  - nobody waits for a lock that destroy, which looks at owner without the lock, has
\*    withdrawn (line 76);
\*  - a thread that will repeat its call after loading is still queued: no unlock made
\*    while the threads are being stopped lets it in (lines 169, 315, 416, 553, 567);
\*  - no thread in guest code is flagged to wait for the scheduler with no way to
\*    notice (ppu_thread::cpu_sleep).
CallsSound ==
  /\ owner > 0 => Holding("r") = {} /\ \E t \in Thread : Holding("w") = {t} /\ owner \div 2 = Id[t]
  /\ owner <= 0 => Holding("w") = {} /\ ClearBit(owner) = -2 * Cardinality(Holding("r"))
  /\ mutex = NoThread => /\ rq # <<>> \/ wq # <<>> => Odd(owner)
                         /\ Odd(owner) /\ owner < 0 => wq # <<>>
  /\ ~exists => rq = <<>> /\ wq = <<>> /\ owner = 0
  /\ \A t \in Thread :
       pc[t] = "w_redo" => t \in Range(rq) \cup Range(wq) /\ t \in sched.again /\ holds[t] = "no"
  /\ GuestCanSleep

\* A waiter that has been given the lock leaves the wait loop (with the lock to take
\* once more if it has timed out), unless the scheduler prefers other threads
\* (lines 323, 471, 584).
GivenReturns ==
  \A t \in Thread :
    (setup.fair /\ pc[t] \in {"w_loop", "w_check"} /\ holds[t] # "no")
      ~> (\/ pc[t] \in {"check", "guest", "w_unq"}
          \/ t \in Range(sched.g_ppu) \ Running(sched))

\* "Protocol doesn't matter here since they are all enqueued anyways" (line 458): the
\* last writer to give up wakes all the readers, and is done.
WakingEnds == \A t \in Thread : (setup.fair /\ pc[t] = "w_wake") ~> pc[t] # "w_wake"
=============================================================================
