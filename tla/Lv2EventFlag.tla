---------------------------- MODULE Lv2EventFlag ----------------------------
(***************************************************************************)
(* sys_event_flag (rpcs3/Emu/Cell/lv2/sys_event_flag.cpp): one             *)
(* lv2_event_flag used by PPU threads that wait with or without a timeout, *)
(* poll, set and clear bits, cancel the waiters, destroy it and are        *)
(* stopped to save the state.                                              *)
(*                                                                         *)
(* A pattern of bits is a set.  wait, trywait and clear change the pattern *)
(* without the lock; set holds the lock, works out whom to wake from a     *)
(* copy of the pattern, and commits the result in one atomic operation     *)
(* that starts over if bits it relied on have changed.                     *)
(***************************************************************************)
EXTENDS Lv2Thread, TLC

CONSTANTS
  Setups,       \* the programs of the threads, with the attributes of the flag
  Bit,          \* the bits in use
  InitQueue     \* the run queue at the start

Request == [bits : SUBSET Bit, and : BOOLEAN, clear : {"no", "bits", "all"}]

ASSUME EventFlagAssumption ==
  \A s \in Setups :
    /\ DOMAIN s.role = Thread
    /\ s.protocol \in {"FIFO", "PRIORITY"}
    /\ s.single \in BOOLEAN
    /\ s.init \subseteq Bit
    /\ s.requests \in [Thread -> SUBSET Request]
    /\ s.sets \subseteq SUBSET Bit /\ s.masks \subseteq SUBSET Bit

VARIABLES
  setup,        \* the member of Setups this behaviour has: it never changes
  pattern,      \* lv2_event_flag::pattern
  sq,           \* lv2_event_flag::sq, oldest first
  mutex,        \* holder of lv2_event_flag::mutex
  exists,       \* the id is in the IDM
  arg,          \* gpr[4] and gpr[5] of each waiter; arg.bits is the bitptn of set
  gpr3,         \* the result code of each waiter
  gpr6,         \* the pattern it returns
  timeout,      \* threads whose wait has a timeout
  round,        \* locals of the holder in set: what it has worked out
  g_to_awake    \* threads the holder has taken off the queue

flag == <<setup, pattern, sq, mutex, exists, arg, gpr3, gpr6, timeout, round, g_to_awake>>
vars == <<sched, pc, flag>>

Role == setup.role             \* the operations each thread calls
protocol == setup.protocol     \* lv2_event_flag::protocol
single == setup.single         \* type == SYS_SYNC_WAITER_SINGLE

\* Beside the values of Lv2Thread, pc is
\*   "w_lock"   in wait, under the IDM lock
\*   "w_loop"   in the wait loop
\*   "w_stop"   it has seen a stop flag
\*   "w_redo"   stopped, with wait to be executed again
\*   "w_check"  it has timed out, in check_state
\*   "w_unq"    about to leave the queue
\*   "s_lock"   in set, about to lock
\*   "s_cas"    it has worked out whom to wake
\*   "s_rm"     it has changed the pattern
\*   "s_awake"  about to awake the threads
\*   "c_lock"   in cancel, about to lock
\*   "c_awake"  about to awake the threads
PC == {"guest", "check", "usleep", "stopped", "redo", "exited",
       "w_lock", "w_loop", "w_stop", "w_redo", "w_check", "w_unq",
       "s_lock", "s_cas", "s_rm", "s_awake", "c_lock", "c_awake"}

NoArg == [bits |-> {}, and |-> FALSE, clear |-> "no"]
NoRound == [pattern |-> {}, to_write |-> {}, dependant |-> {}, count |-> 0]

TypeOK ==
  /\ sched \in SchedType
  /\ pc \in [Thread -> PC]
  /\ setup \in Setups
  /\ pattern \in SUBSET Bit
  /\ sq \in Seq(Thread) /\ Len(sq) <= Cardinality(Thread)
  /\ g_to_awake \in Seq(Thread)
  /\ mutex \in Thread \cup {NoThread}
  /\ exists \in BOOLEAN
  /\ arg \in [Thread -> Request]
  /\ gpr3 \in [Thread -> {"none", "OK", "ETIMEDOUT", "ECANCELED"}]
  /\ gpr6 \in [Thread -> SUBSET Bit]
  /\ timeout \in SUBSET Thread
  /\ round \in [pattern : SUBSET Bit, to_write : SUBSET Bit, dependant : SUBSET Bit,
                count : 0..Cardinality(Thread)]

Init ==
  /\ setup \in Setups
  /\ sched = InitSched(StartQueue(InitQueue, Role))
  /\ pc = StartPc(sched, Role)
  /\ pattern = setup.init
  /\ sq = <<>>
  /\ mutex = NoThread
  /\ exists = TRUE
  /\ arg = [t \in Thread |-> NoArg]
  /\ gpr3 = [t \in Thread |-> "none"]
  /\ gpr6 = [t \in Thread |-> {}]
  /\ timeout = {}
  /\ round = NoRound
  /\ g_to_awake = <<>>

\* check_pattern: the pattern satisfies the request, and what is left of it
Satisfied(p, a) == IF a.and THEN a.bits \subseteq p ELSE a.bits \cap p # {}
Cleared(p, a) == CASE a.clear = "no" -> p
                   [] a.clear = "bits" -> p \ a.bits
                   [] a.clear = "all" -> {}

\* The return from a call: its locals are gone.
Return(t) ==
  /\ arg' = [arg EXCEPT ![t] = NoArg]
  /\ gpr3' = [gpr3 EXCEPT ![t] = "none"]
  /\ gpr6' = [gpr6 EXCEPT ![t] = {}]
  /\ timeout' = timeout \ {t}
-----------------------------------------------------------------------------
(***************************************************************************)
(* sys_event_flag_wait                                                     *)
(***************************************************************************)
\* idm::get finds the object, and the request is satisfied at once or not.
Wait(t, a, timed) ==
  LET waits == exists /\ ~Satisfied(pattern, a)
  IN  /\ "wait" \in Role[t]
      /\ Goto(t, "guest", IF waits THEN "w_lock" ELSE "check")
      /\ pattern' = IF exists /\ ~waits THEN Cleared(pattern, a) ELSE pattern
      /\ arg' = [arg EXCEPT ![t] = IF waits THEN a ELSE NoArg]
      /\ timeout' = IF timed /\ waits THEN timeout \cup {t} ELSE timeout
      /\ UNCHANGED <<setup, sched, sq, mutex, exists, gpr3, gpr6, round, g_to_awake>>

\* Mutant: the pattern is not looked at again under the lock.
WaitLockOnce(t) ==
  LET busy == single /\ sq # <<>>
  IN  /\ mutex = NoThread
      /\ Goto(t, "w_lock", IF busy THEN "check" ELSE "w_loop")
      /\ IF busy
         THEN Return(t) /\ UNCHANGED <<sched, sq>>
         ELSE /\ \E late \in SUBSET (sched.waiting \cup {t}) :
                   sched' = Sleep(sched, t, t \in timeout, late)
              /\ sq' = Append(sq, t)
              /\ UNCHANGED <<arg, gpr3, gpr6, timeout>>
      /\ UNCHANGED <<setup, pattern, mutex, exists, round, g_to_awake>>

\* Under the lock: satisfied after all, EPERM, or sleep and emplace.
WaitLock(t) ==
  LET ok == Satisfied(pattern, arg[t])
      busy == single /\ sq # <<>>
  IN  /\ mutex = NoThread
      /\ Goto(t, "w_lock", IF ok \/ busy THEN "check" ELSE "w_loop")
      /\ pattern' = IF ok THEN Cleared(pattern, arg[t]) ELSE pattern
      /\ IF ok \/ busy
         THEN Return(t) /\ UNCHANGED <<sched, sq>>
         ELSE /\ \E late \in SUBSET (sched.waiting \cup {t}) :
                   sched' = Sleep(sched, t, t \in timeout, late)
              /\ sq' = Append(sq, t)
              /\ UNCHANGED <<arg, gpr3, gpr6, timeout>>
      /\ UNCHANGED <<setup, mutex, exists, round, g_to_awake>>

WaitSignaled(t) ==
  /\ SeesSignal(t, "w_loop", "check")
  /\ Return(t)
  /\ UNCHANGED <<setup, pattern, sq, mutex, exists, round, g_to_awake>>

WaitStopped(t) == SeesStop(t, "w_loop", "w_stop") /\ UNCHANGED flag

\* Under the lock: a thread still queued is to repeat the call after loading.
WaitAgain(t) ==
  /\ mutex = NoThread
  /\ IF t \in Range(sq)
     THEN RedoCall(t, "w_stop", "w_redo") /\ UNCHANGED <<arg, gpr3, gpr6, timeout>>
     ELSE Goto(t, "w_stop", "check") /\ Return(t) /\ UNCHANGED sched
  /\ UNCHANGED <<setup, pattern, sq, mutex, exists, round, g_to_awake>>

\* wait_timeout returns TRUE
WaitTimeout(t) ==
  /\ t \in timeout
  /\ Goto(t, "w_loop", "w_check")
  /\ UNCHANGED <<sched, flag>>

\* "Wait for rescheduling"
WaitCheck(t) == CheckState(t, "w_check", "w_unq", "w_loop") /\ UNCHANGED flag

\* Leave the queue with ETIMEDOUT, or find that a set or cancel was first.  A queue
\* read as empty does not hold the thread, and lock_unlock waits for the holder.
WaitUnqueue(t) ==
  /\ mutex = NoThread
  /\ Goto(t, "w_unq", "check")
  /\ sq' = Unqueue(sq, t)
  /\ Return(t)
  /\ UNCHANGED <<setup, sched, pattern, mutex, exists, round, g_to_awake>>

\* sys_event_flag_trywait
TryWait(t, a) ==
  /\ "trywait" \in Role[t]
  /\ Goto(t, "guest", "check")
  /\ pattern' = IF exists /\ Satisfied(pattern, a) THEN Cleared(pattern, a) ELSE pattern
  /\ UNCHANGED <<setup, sched, sq, mutex, exists, arg, gpr3, gpr6, timeout, round, g_to_awake>>

\* sys_event_flag_clear
Clear(t, mask) ==
  /\ "clear" \in Role[t]
  /\ Goto(t, "guest", "check")
  /\ pattern' = IF exists THEN pattern \cap mask ELSE pattern
  /\ UNCHANGED <<setup, sched, sq, mutex, exists, arg, gpr3, gpr6, timeout, round, g_to_awake>>
(***************************************************************************)
(* sys_event_flag_set                                                      *)
(***************************************************************************)
\* Nothing to do if the bits are set already.
Set(t, b) ==
  LET goes == exists /\ ~(b \subseteq pattern)
  IN  /\ "set" \in Role[t]
      /\ Goto(t, "guest", IF goes THEN "s_lock" ELSE "check")
      /\ arg' = [arg EXCEPT ![t].bits = IF goes THEN b ELSE {}]
      /\ UNCHANGED <<setup, sched, pattern, sq, mutex, exists, gpr3, gpr6, timeout, round, g_to_awake>>

\* A waiter that is to repeat its call after loading: so must this one.
SetAgain(t) ==
  /\ mutex = NoThread
  /\ Range(sq) \cap sched.again # {}
  /\ RedoCall(t, "s_lock", "redo")
  /\ Return(t)
  /\ UNCHANGED <<setup, pattern, sq, mutex, exists, round, g_to_awake>>

\* Mutant: the newest waiter comes first.
OrderReversed == [i \in 1..Len(sq) |-> sq[Len(sq) + 1 - i]]

\* The waiters in the order of get_next.
Order ==
  LET urgency(i) == IF protocol = "PRIORITY" THEN sched.prio[sq[i]] ELSE 0
      before(i, j) == urgency(i) < urgency(j) \/ (urgency(i) = urgency(j) /\ i < j)
      index == SortSeq([i \in 1..Len(sq) |-> i], before)
  IN  [i \in 1..Len(sq) |-> sq[index[i]]]

\* One turn of the while loop: waiter u is served from to_write if that satisfies it.
\* Serving it relies on the bits it waits for, unless b has just set them all or any
\* one is enough for it.  The loop ends when no bits are left.
Serve(r, u, b) ==
  LET a == arg[u]
      relied == IF ~a.and \/ a.bits \subseteq b \cap r.to_write THEN {} ELSE a.bits
      left == Cleared(r.to_write, a)
  IN  IF r.ended THEN r
      ELSE IF ~Satisfied(r.to_write, a)
      THEN [r EXCEPT !.gpr3[u] = "none", !.gpr6[u] = r.to_write]
      ELSE [r EXCEPT !.gpr3[u] = "OK", !.gpr6[u] = r.to_write, !.to_write = left,
                     !.dependant = @ \cup relied, !.count = @ + 1, !.ended = (left = {})]

\* What set(b) works out from the pattern p.
Round(p, b) ==
  LET start == [to_write |-> p \cup b, dependant |-> {}, count |-> 0, ended |-> FALSE,
                gpr3 |-> gpr3, gpr6 |-> gpr6]
      after[i \in 0..Len(sq)] == IF i = 0 THEN start ELSE Serve(after[i - 1], Order[i], b)
  IN  after[Len(sq)]

Work(p, b) ==
  LET r == Round(p, b)
  IN  /\ round' = [pattern |-> p, to_write |-> r.to_write, dependant |-> r.dependant \ b,
                   count |-> r.count]
      /\ gpr3' = r.gpr3
      /\ gpr6' = r.gpr6

SetLock(t) ==
  /\ mutex = NoThread
  /\ Range(sq) \cap sched.again = {}
  /\ Goto(t, "s_lock", "s_cas")
  /\ Work(pattern, arg[t].bits)
  /\ mutex' = t
  /\ UNCHANGED <<setup, sched, pattern, sq, exists, arg, timeout, g_to_awake>>

\* Mutant: the commit does not look at the bits relied on.
SetCommits(t) ==
  LET b == arg[t].bits
  IN  /\ pattern' = (pattern \cup b) \ ((round.pattern \cup b) \ round.to_write)
      /\ IF round.count = 0
         THEN /\ Goto(t, "s_cas", "check")
              /\ arg' = [arg EXCEPT ![t] = NoArg] /\ mutex' = NoThread /\ round' = NoRound
         ELSE Goto(t, "s_cas", "s_rm") /\ UNCHANGED <<arg, mutex, round>>
      /\ UNCHANGED <<setup, sched, sq, exists, gpr3, gpr6, timeout, g_to_awake>>

\* The fetch_op: commit, or start over if bits relied on have changed.
SetCas(t) ==
  LET b == arg[t].bits
      changed == (pattern \ round.pattern) \cup (round.pattern \ pattern)
  IN  /\ IF changed \cap round.dependant # {}
         THEN /\ Goto(t, "s_cas", "s_cas")
              /\ Work(pattern, b)
              /\ UNCHANGED <<pattern, arg, mutex>>
         ELSE /\ pattern' = (pattern \cup b) \ ((round.pattern \cup b) \ round.to_write)
              /\ IF round.count = 0
                 THEN /\ Goto(t, "s_cas", "check")
                      /\ arg' = [arg EXCEPT ![t] = NoArg]
                      /\ mutex' = NoThread /\ round' = NoRound
                 ELSE Goto(t, "s_cas", "s_rm") /\ UNCHANGED <<arg, mutex, round>>
              /\ UNCHANGED <<gpr3, gpr6>>
      /\ UNCHANGED <<setup, sched, sq, exists, timeout, g_to_awake>>

\* "Remove waiters"
SetRemove(t) ==
  /\ Goto(t, "s_rm", "s_awake")
  /\ sq' = SelectSeq(sq, LAMBDA u : gpr3[u] # "OK")
  /\ g_to_awake' = SelectSeq([i \in 1..Len(sq) |-> sq[Len(sq) + 1 - i]],
                             LAMBDA u : gpr3[u] = "OK")
  /\ round' = NoRound
  /\ UNCHANGED <<setup, sched, pattern, mutex, exists, arg, gpr3, gpr6, timeout>>

\* Mutant: the threads are not awoken.
AwakeNobody(t, from) ==
  /\ Goto(t, from, "check")
  /\ g_to_awake' = <<>>
  /\ mutex' = NoThread
  /\ arg' = [arg EXCEPT ![t] = NoArg]
  /\ UNCHANGED <<setup, sched, pattern, sq, exists, gpr3, gpr6, timeout, round>>

\* awake_all, unlock
AwakeThem(t, from) ==
  /\ Goto(t, from, "check")
  /\ \E late \in SUBSET sched.waiting : sched' = AwakeAll(sched, t, g_to_awake, late)
  /\ g_to_awake' = <<>>
  /\ mutex' = NoThread
  /\ arg' = [arg EXCEPT ![t] = NoArg]
  /\ UNCHANGED <<setup, pattern, sq, exists, gpr3, gpr6, timeout, round>>

(***************************************************************************)
(* sys_event_flag_cancel, sys_event_flag_destroy                           *)
(***************************************************************************)
Cancel(t) ==
  /\ "cancel" \in Role[t]
  /\ Goto(t, "guest", IF exists THEN "c_lock" ELSE "check")
  /\ UNCHANGED <<sched, flag>>

CancelAgain(t) ==
  /\ mutex = NoThread
  /\ Range(sq) \cap sched.again # {}
  /\ RedoCall(t, "c_lock", "redo")
  /\ UNCHANGED flag

\* Under the lock: all waiters leave the queue, in FIFO order.
CancelLock(t) ==
  /\ mutex = NoThread
  /\ Range(sq) \cap sched.again = {}
  /\ Goto(t, "c_lock", IF sq = <<>> THEN "check" ELSE "c_awake")
  /\ gpr3' = [u \in Thread |-> IF u \in Range(sq) THEN "ECANCELED" ELSE gpr3[u]]
  /\ gpr6' = [u \in Thread |-> IF u \in Range(sq) THEN pattern ELSE gpr6[u]]
  /\ sq' = <<>>
  /\ g_to_awake' = sq
  /\ mutex' = IF sq = <<>> THEN NoThread ELSE t
  /\ UNCHANGED <<setup, sched, pattern, exists, arg, timeout, round>>

\* idm::withdraw holds the IDM lock exclusively; EBUSY with waiters
Destroy(t) ==
  /\ "destroy" \in Role[t]
  /\ Goto(t, "guest", "check")
  /\ \A u \in Thread : pc[u] # "w_lock"
  /\ exists' = (exists /\ sq # <<>>)
  /\ UNCHANGED <<setup, sched, pattern, sq, mutex, arg, gpr3, gpr6, timeout, round, g_to_awake>>
-----------------------------------------------------------------------------
WaitStep(t) ==
  \/ WaitLock(t) \/ WaitSignaled(t) \/ WaitStopped(t) \/ WaitAgain(t)
  \/ WaitTimeout(t) \/ WaitCheck(t) \/ WaitUnqueue(t)

SetStep(t) ==
  \/ SetAgain(t) \/ SetLock(t) \/ SetCas(t) \/ SetRemove(t) \/ AwakeThem(t, "s_awake")
  \/ CancelAgain(t) \/ CancelLock(t) \/ AwakeThem(t, "c_awake")

\* Steps common to all system calls.
ThreadStep(t) ==
  /\ Poll(t) \/ CheckState(t, "check", "guest", "stopped") \/ Requeue(t)
  /\ UNCHANGED flag

Call(t) ==
  \/ \E a \in setup.requests[t], timed \in {FALSE, "timed" \in Role[t]} : Wait(t, a, timed)
  \/ \E a \in setup.requests[t] : TryWait(t, a)
  \/ \E b \in setup.sets : Set(t, b)
  \/ \E b \in setup.masks : Clear(t, b)
  \/ Cancel(t) \/ Destroy(t)
  \/ "stop" \in Role[t] /\ Stop(t) /\ UNCHANGED flag

Next == \E t \in Thread : Call(t) \/ WaitStep(t) \/ SetStep(t) \/ ThreadStep(t)

\* The host runs every thread; nobody is obliged to make system calls or to stop.
\* The setups without fair are for the properties that do not depend on it.
Fairness ==
  \A t \in Thread : WF_vars(setup.fair /\ (ThreadStep(t) \/ WaitStep(t) \/ SetStep(t)))

Spec == Init /\ [][Next]_vars /\ Fairness
-----------------------------------------------------------------------------
(***************************************************************************)
(* Properties                                                              *)
(***************************************************************************)
\* The waiters that a set has served, but not taken off the queue yet.
Granted ==
  {t \in Range(sq) : gpr3[t] = "OK" /\ \E u \in Thread : pc[u] = "s_rm"}

\* "Process all waiters in single atomic op" (sys_event_flag.cpp:346): what set does
\* to the pattern and to the waiters is what serving them one after the other from
\* the current pattern does, though wait, trywait and clear change it without the lock
\* while set works on a copy.  A thread told to stop after its wait has timed out is not
\* covered: it may leave the wait still queued.
Abstract == INSTANCE EventFlag WITH
  waiting <- [t \in Range(sq) \ Granted |-> arg[t]]

ImplementsEventFlag == Abstract!Spec

\* The calls agree on who waits and who has been served, as long as no thread is told to
\* stop after its wait has timed out (it may leave the wait loop still queued):
\*  - no waiter sleeps through its bits: nobody is queued whose request the pattern
\*    satisfies (the second check_pattern of wait, line 162; set, line 394);
\*  - a flag created for one waiter never has two (line 170);
\*  - nobody is left waiting on a flag that destroy has withdrawn (line 105);
\*  - a waiter that is signaled, and not told to stop, has been taken off the queue by
\*    a set or cancel and has its result (lines 200, 445);
\*  - a thread that will call wait again after loading is still queued: no set or
\*    cancel made while the threads are being stopped serves it (lines 213, 335, 504);
\*  - no thread in guest code is flagged to wait for the scheduler with no way to
\*    notice (ppu_thread::cpu_sleep).
CallsSound ==
  /\ \A t \in Range(sq) \ Granted : ~Satisfied(pattern, arg[t])
  /\ single => Len(sq) <= 1
  /\ ~exists => sq = <<>>
  /\ \A t \in Thread :
       /\ pc[t] = "w_loop" /\ t \in sched.signal \ sched.stop =>
            t \notin Range(sq) /\ gpr3[t] \in {"OK", "ECANCELED"}
       /\ pc[t] = "w_redo" => t \in Range(sq) /\ t \in sched.again
  /\ GuestCanSleep

\* Of two waiters with the same request, the one that get_next takes first is not
\* passed over (line 367).
ServedInOrder ==
  [][\A i, j \in 1..Len(sq) :
       LET u == sq[i]
           v == sq[j]
           first == IF protocol = "PRIORITY" /\ sched.prio[u] # sched.prio[v]
                    THEN sched.prio[u] < sched.prio[v] ELSE i < j
       IN  first /\ arg[u] = arg[v] /\ v \in Granted' /\ v \notin Granted => u \in Granted']_vars

\* The pattern a waiter returns was the pattern when its set was made, with the bits
\* set and less those that waiters before it have taken ("Process all waiters in
\* single atomic op", line 346): no bit in it had been taken by another thread before.
ResultCurrent ==
  [][\A t \in Range(sq) :
       t \in Granted' /\ t \notin Granted =>
         gpr6[t] \subseteq pattern \cup UNION {arg[u].bits : u \in {v \in Thread : pc[v] = "s_cas"}}]_vars

\* A waiter that has been served or cancelled leaves the wait loop (with the lock to
\* take once more if it has timed out), unless the scheduler prefers other threads
\* (lines 198-266, 456).
ServedReturns ==
  \A t \in Thread :
    (setup.fair /\ pc[t] \in {"w_loop", "w_check"} /\ t \notin Range(sq))
      ~> (\/ pc[t] \in {"check", "guest", "w_unq"}
          \/ t \in Range(sched.g_ppu) \ Running(sched))
=============================================================================
