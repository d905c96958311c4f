--------------------------- MODULE Lv2EventQueue ---------------------------
(***************************************************************************)
(* sys_event_queue and sys_event_port (rpcs3/Emu/Cell/lv2/sys_event.cpp):  *)
(* one lv2_event_queue of type SYS_PPU_QUEUE and one lv2_event_port.  PPU  *)
(* threads receive with or without a timeout, take what is there, drain,   *)
(* send through the port, connect, disconnect and destroy; host threads    *)
(* that hold the queue (timers, audio) send too; the threads are stopped   *)
(* to save the state, which is loaded again.                               *)
(*                                                                         *)
(* An event is its number: the n-th event that send has accepted is n.     *)
(***************************************************************************)
EXTENDS Lv2Thread

CONSTANTS
  Setups,       \* the programs of the threads, with the attributes of queue and port
  InitQueue,    \* the run queue at the start
  MaxSent       \* bound on the number of events

ASSUME EventQueueAssumption ==
  /\ MaxSent \in Nat
  /\ \A s \in Setups :
       /\ DOMAIN s.role = Thread /\ s.prio \in [Thread -> Int]
       /\ s.protocol \in {"FIFO", "PRIORITY"}
       /\ s.size \in 1..127
       /\ s.ipc \in BOOLEAN /\ s.host \in BOOLEAN

VARIABLES
  setup,        \* the member of Setups this behaviour has: it never changes
  events,       \* lv2_event_queue::events
  pq,           \* lv2_event_queue::pq, oldest first
  mutex,        \* holder of lv2_event_queue::mutex
  exists,       \* the queue exists
  gpr3, gpr4,   \* result code of each receiver and the event it has been given, or 0
  timeout,      \* threads whose receive has a timeout
  sent,         \* number of events accepted
  nth,          \* number of the event that each thread in port_send has sent, or 0
  gone,         \* events that receivers have returned with, drained or destroyed
  connected,    \* lv2_event_port::queue points to the queue
  is_busy,      \* lv2_event_port::is_busy
  port_exists   \* the id of the port is in the IDM

queue == <<setup, events, pq, mutex, exists, gpr3, gpr4, timeout, sent, nth, gone>>
port == <<connected, is_busy, port_exists>>
vars == <<sched, pc, queue, port>>

Role == setup.role             \* the operations each thread calls
protocol == setup.protocol     \* lv2_event_queue::protocol
size == setup.size             \* lv2_event_queue::size
ipc == setup.ipc               \* the port is of type SYS_EVENT_PORT_IPC
Host == setup.host             \* host threads send as well

\* Beside the values of Lv2Thread, pc is
\*   "r_lock"   in receive, under the IDM lock
\*   "r_loop"   in the wait loop
\*   "r_stop"   it has seen a stop flag
\*   "r_redo"   stopped, with receive to be executed again
\*   "r_check"  it has timed out, in check_state
\*   "r_unq"    about to leave the queue
\*   "t_lock"   in tryreceive, about to lock
\*   "n_lock"   in drain, under the IDM lock
\*   "d_awake"  in destroy, about to cancel the waiters
\*   "p_lock"   in port_send, under the IDM lock
\*   "p_hand"   it has given the event to a more urgent thread, about to raise is_busy
\*   "p_busy"   it has raised it and unlocked, in test_stopped
\*   "p_done"   back from test_stopped
\*   "p_stop"   told to stop there
\*   "p_redo"   stopped, with port_send to be executed again, the event sent
\*   "s_redo"   the same, the event not sent; "s_again" when loaded
\*   "i_lock"   in connect_ipc, it has found the queue
RecvPC == {"r_lock", "r_loop", "r_stop", "r_redo", "r_check", "r_unq"}
PC == RecvPC \cup {"guest", "check", "stopped", "redo", "exited", "t_lock", "n_lock", "d_awake",
        "p_lock", "p_hand", "p_busy", "p_done", "p_stop", "p_redo", "s_redo", "s_again", "i_lock"}

TypeOK ==
  /\ sched \in SchedType
  /\ pc \in [Thread -> PC]
  /\ setup \in Setups
  /\ events \in Seq(1..MaxSent) /\ Len(events) <= size
  /\ pq \in Seq(Thread) /\ Len(pq) <= Cardinality(Thread)
  /\ mutex \in Thread \cup {NoThread}
  /\ exists \in BOOLEAN /\ connected \in BOOLEAN /\ port_exists \in BOOLEAN
  /\ gpr3 \in [Thread -> {"OK", "ETIMEDOUT", "ECANCELED"}]
  /\ gpr4 \in [Thread -> 0..MaxSent]
  /\ timeout \in SUBSET Thread
  /\ nth \in [Thread -> 0..MaxSent]
  /\ sent \in 0..MaxSent /\ gone \in SUBSET (1..MaxSent)
  /\ is_busy \in 0..Cardinality(Thread)

Init ==
  /\ setup \in Setups
  /\ sched = [InitSched(StartQueue(InitQueue, Role)) EXCEPT !.prio = setup.prio]
  /\ pc = StartPc(sched, Role)
  /\ events = <<>> /\ pq = <<>>
  /\ mutex = NoThread
  /\ exists = TRUE
  /\ gpr3 = [t \in Thread |-> "OK"]
  /\ gpr4 = [t \in Thread |-> 0]
  /\ timeout = {}
  /\ sent = 0 /\ gone = {}
  /\ nth = [t \in Thread |-> 0]
  /\ connected = TRUE /\ is_busy = 0 /\ port_exists = TRUE

\* idm::withdraw and the port calls hold the IDM lock exclusively.
IdmFree == \A u \in Thread : pc[u] \notin {"r_lock", "n_lock", "p_lock", "p_hand"}

\* The return from receive with code r: the guest reads the event only if r is OK.
Return(t, r) ==
  /\ gone' = IF r = "OK" THEN gone \cup ({gpr4[t]} \ {0}) ELSE gone
  /\ gpr3' = [gpr3 EXCEPT ![t] = "OK"]
  /\ gpr4' = [gpr4 EXCEPT ![t] = 0]
  /\ timeout' = timeout \ {t}
-----------------------------------------------------------------------------
(***************************************************************************)
(* lv2_event_queue::send                                                   *)
(***************************************************************************)
NextWaiter == ScheduleIndex(sched, pq, protocol)

Waiter == pq[NextWaiter]

\* The bound on the number of events, those about to be sent included.
Room ==
  sent + Cardinality({t \in Thread : pc[t] \in {"p_lock", "s_redo", "s_again", "p_redo"}})
    < MaxSent

\* The event of a system call has one number, however often the call is executed.
Event(cur) == IF cur \in Thread /\ nth[cur] # 0 THEN nth[cur] ELSE sent + 1

Accept(cur) ==
  /\ mutex = NoThread /\ exists
  /\ sent' = IF Event(cur) > sent THEN sent + 1 ELSE sent

\* No waiter: save the event if there is room.
Save(cur) ==
  /\ Accept(cur)
  /\ pq = <<>> /\ Len(events) < size
  /\ events' = Append(events, Event(cur))
  /\ UNCHANGED <<setup, sched, pq, mutex, exists, gpr3, gpr4, timeout, gone>>

\* Mutant: the waiter is not awoken.
HandOverSilent(cur) ==
  /\ Accept(cur)
  /\ pq # <<>> /\ Waiter \notin sched.again
  /\ pq' = Unlink(pq, NextWaiter)
  /\ gpr4' = [gpr4 EXCEPT ![Waiter] = Event(cur)]
  /\ UNCHANGED <<setup, sched, events, exists, gpr3, timeout, gone>>

\* "Store event in registers", awake
HandOver(cur) ==
  /\ Accept(cur)
  /\ pq # <<>> /\ Waiter \notin sched.again
  /\ pq' = Unlink(pq, NextWaiter)
  /\ gpr4' = [gpr4 EXCEPT ![Waiter] = Event(cur)]
  /\ \E late \in SUBSET sched.waiting : sched' = Awake(sched, cur, Waiter, late)
  /\ UNCHANGED <<setup, events, exists, gpr3, timeout, gone>>

\* A host thread sends: on EBUSY, ENOTCONN and EAGAIN nothing happens.
HostSend ==
  /\ Host /\ Room
  /\ Save(NoThread) \/ (HandOver(NoThread) /\ UNCHANGED mutex)
  /\ UNCHANGED <<pc, nth, port>>

(***************************************************************************)
(* sys_event_port_send                                                     *)
(***************************************************************************)
\* idm::check finds the port.
Send(t) ==
  /\ "send" \in Role[t]
  /\ Room
  /\ Goto(t, "guest", IF port_exists THEN "p_lock" ELSE "check")
  /\ UNCHANGED <<sched, queue, port>>

\* ENOTCONN, EBUSY
SendFails(t) ==
  /\ Goto(t, "p_lock", "check")
  /\ \/ ~(port_exists /\ connected /\ exists)
     \/ mutex = NoThread /\ pq = <<>> /\ Len(events) = size
  /\ nth' = [nth EXCEPT ![t] = 0]
  /\ UNCHANGED <<setup, sched, events, pq, mutex, exists, gpr3, gpr4, timeout, sent, gone, port>>

SendSaves(t) ==
  /\ port_exists /\ connected
  /\ Goto(t, "p_lock", "check")
  /\ Save(t)
  /\ nth' = [nth EXCEPT ![t] = 0]
  /\ UNCHANGED port

\* The locks are kept if the event has gone to a more urgent thread.
SendHands(t) ==
  LET lower == sched.prio[Waiter] < sched.prio[t]
  IN  /\ pq # <<>> /\ port_exists /\ connected
      /\ Goto(t, "p_lock", IF lower THEN "p_hand" ELSE "check")
      /\ HandOver(t)
      /\ nth' = [nth EXCEPT ![t] = IF lower THEN Event(t) ELSE 0]
      /\ mutex' = IF lower THEN t ELSE NoThread
      /\ UNCHANGED port

\* "Block event port disconnection", unlock
SendBusy(t) ==
  /\ Goto(t, "p_hand", "p_busy")
  /\ is_busy' = is_busy + 1
  /\ mutex' = NoThread
  /\ UNCHANGED <<setup, sched, events, pq, exists, gpr3, gpr4, timeout, sent, nth, gone, connected,
                 port_exists>>

\* The waiter is to repeat its call after loading: so is this one.
SendAgain(t) ==
  /\ port_exists /\ connected /\ exists
  /\ mutex = NoThread
  /\ pq # <<>> /\ Waiter \in sched.again
  /\ RedoCall(t, "p_lock", "s_redo")
  /\ UNCHANGED <<queue, port>>

\* "Wait to be requeued"
SendTest(t) ==
  /\ CheckState(t, "p_busy", "p_done", "p_stop")
  /\ UNCHANGED <<queue, port>>

\* "Wait again on savestate load"
SendStopped(t) ==
  /\ RedoCall(t, "p_stop", "p_redo")
  /\ is_busy' = is_busy - 1
  /\ UNCHANGED <<queue, connected, port_exists>>

SendDone(t) ==
  /\ Goto(t, "p_done", "check")
  /\ is_busy' = is_busy - 1
  /\ nth' = [nth EXCEPT ![t] = 0]
  /\ UNCHANGED <<setup, sched, events, pq, mutex, exists, gpr3, gpr4, timeout, sent, gone, connected,
                 port_exists>>
-----------------------------------------------------------------------------
(***************************************************************************)
(* sys_event_queue_receive                                                 *)
(***************************************************************************)
\* idm::get finds the queue.
Receive(t, timed) ==
  /\ "receive" \in Role[t]
  /\ Goto(t, "guest", IF exists THEN "r_lock" ELSE "check")
  /\ timeout' = IF timed /\ exists THEN timeout \cup {t} ELSE timeout
  /\ UNCHANGED <<setup, sched, events, pq, mutex, exists, gpr3, gpr4, sent, nth, gone, port>>

\* Take the first event, or sleep and emplace.
ReceiveLock(t) ==
  /\ mutex = NoThread
  /\ IF events = <<>>
     THEN /\ Goto(t, "r_lock", "r_loop")
          /\ \E late \in SUBSET (sched.waiting \cup {t}) :
               sched' = Sleep(sched, t, t \in timeout, late)
          /\ pq' = Append(pq, t)
          /\ UNCHANGED <<events, timeout, gone>>
     ELSE /\ Goto(t, "r_lock", "check")
          /\ events' = Tail(events)
          /\ gone' = gone \cup {Head(events)}
          /\ timeout' = timeout \ {t}
          /\ UNCHANGED <<sched, pq>>
  /\ UNCHANGED <<setup, mutex, exists, gpr3, gpr4, sent, nth, port>>

ReceiveSignaled(t) ==
  /\ SeesSignal(t, "r_loop", "check")
  /\ Return(t, gpr3[t])
  /\ UNCHANGED <<setup, events, pq, mutex, exists, sent, nth, port>>

ReceiveStopped(t) == SeesStop(t, "r_loop", "r_stop") /\ UNCHANGED <<queue, port>>

\* Under the lock: a thread still queued is to repeat the call after loading.
ReceiveAgain(t) ==
  /\ mutex = NoThread
  /\ IF t \in Range(pq)
     THEN RedoCall(t, "r_stop", "r_redo") /\ UNCHANGED <<gpr3, gpr4, timeout, gone>>
     ELSE Goto(t, "r_stop", "check") /\ Return(t, gpr3[t]) /\ UNCHANGED sched
  /\ UNCHANGED <<setup, events, pq, mutex, exists, sent, nth, port>>

\* wait_timeout returns TRUE
ReceiveTimeout(t) ==
  /\ t \in timeout
  /\ Goto(t, "r_loop", "r_check")
  /\ UNCHANGED <<sched, queue, port>>

\* "Wait for rescheduling"
ReceiveCheck(t) == CheckState(t, "r_check", "r_unq", "r_loop") /\ UNCHANGED <<queue, port>>

\* Mutant: the thread does not look whether it is still queued.
UnqueueTimesOut(t) ==
  /\ mutex = NoThread
  /\ Goto(t, "r_unq", "check")
  /\ pq' = Unqueue(pq, t)
  /\ Return(t, "ETIMEDOUT")
  /\ UNCHANGED <<setup, sched, events, mutex, exists, sent, nth, port>>

\* Leave the queue with ETIMEDOUT, or find that a send or destroy was first.  A queue
\* read as empty does not hold the thread, and lock_unlock waits for the holder.
ReceiveUnqueue(t) ==
  /\ mutex = NoThread
  /\ Goto(t, "r_unq", "check")
  /\ pq' = Unqueue(pq, t)
  /\ Return(t, IF t \in Range(pq) THEN "ETIMEDOUT" ELSE gpr3[t])
  /\ UNCHANGED <<setup, sched, events, mutex, exists, sent, nth, port>>

(***************************************************************************)
(* sys_event_queue_tryreceive, sys_event_queue_drain                       *)
(***************************************************************************)
TryReceive(t) ==
  /\ "tryreceive" \in Role[t]
  /\ Goto(t, "guest", IF exists THEN "t_lock" ELSE "check")
  /\ UNCHANGED <<sched, queue, port>>

\* At most n events, if the queue still exists.
TryReceiveLock(t) ==
  /\ mutex = NoThread
  /\ Goto(t, "t_lock", "check")
  /\ \E n \in 1..size :
       LET count == IF ~exists THEN 0 ELSE IF n < Len(events) THEN n ELSE Len(events)
       IN  /\ events' = SubSeq(events, count + 1, Len(events))
           /\ gone' = gone \cup {events[i] : i \in 1..count}
  /\ UNCHANGED <<setup, sched, pq, mutex, exists, gpr3, gpr4, timeout, sent, nth, port>>

Drain(t) ==
  /\ "drain" \in Role[t]
  /\ Goto(t, "guest", IF exists THEN "n_lock" ELSE "check")
  /\ UNCHANGED <<sched, queue, port>>

DrainLock(t) ==
  /\ mutex = NoThread
  /\ Goto(t, "n_lock", "check")
  /\ events' = <<>>
  /\ gone' = gone \cup Range(events)
  /\ UNCHANGED <<setup, sched, pq, mutex, exists, gpr3, gpr4, timeout, sent, nth, port>>

(***************************************************************************)
(* sys_event_queue_destroy.  With waiters and force, the lock is kept when *)
(* the IDM lock is released.                                               *)
(***************************************************************************)
Destroy(t, force) ==
  LET busy == pq # <<>> /\ ~force
  IN  /\ "destroy" \in Role[t]
      /\ IdmFree /\ mutex = NoThread
      /\ exists /\ (busy \/ Range(pq) \cap sched.again = {})
      /\ Goto(t, "guest", IF busy \/ pq = <<>> THEN "check" ELSE "d_awake")
      /\ exists' = busy
      /\ mutex' = IF busy \/ pq = <<>> THEN NoThread ELSE t
      /\ UNCHANGED <<setup, sched, events, pq, gpr3, gpr4, timeout, sent, nth, gone, port>>

\* With force, and a waiter that is to repeat its call after loading.
DestroyAgain(t) ==
  /\ "destroy" \in Role[t]
  /\ IdmFree /\ mutex = NoThread
  /\ exists /\ Range(pq) \cap sched.again # {}
  /\ RedoCall(t, "guest", "redo")
  /\ UNCHANGED <<queue, port>>

\* Mutant: the waiters are not told that they have been cancelled.
DestroyAwakeOk(t) ==
  /\ Goto(t, "d_awake", "check")
  /\ pq' = <<>>
  /\ \E late \in SUBSET sched.waiting :
       sched' = AwakeAll(sched, t, [i \in 1..Len(pq) |-> pq[Len(pq) + 1 - i]], late)
  /\ mutex' = NoThread
  /\ UNCHANGED <<setup, events, exists, gpr3, gpr4, timeout, sent, nth, gone, port>>

\* "Forcefully awaken waiters": append from the newest, awake_all, unlock
DestroyAwake(t) ==
  /\ Goto(t, "d_awake", "check")
  /\ gpr3' = [u \in Thread |-> IF u \in Range(pq) THEN "ECANCELED" ELSE gpr3[u]]
  /\ pq' = <<>>
  /\ \E late \in SUBSET sched.waiting :
       sched' = AwakeAll(sched, t, [i \in 1..Len(pq) |-> pq[Len(pq) + 1 - i]], late)
  /\ mutex' = NoThread
  /\ UNCHANGED <<setup, events, exists, gpr4, timeout, sent, nth, gone, port>>

(***************************************************************************)
(* sys_event_port_connect_local, _connect_ipc, _disconnect, _destroy       *)
(***************************************************************************)
\* The queue and the port exist, and the port is not connected to a live queue.
ConnectLocal(t) ==
  /\ "connect" \in Role[t] /\ ~ipc
  /\ IdmFree
  /\ Goto(t, "guest", "check")
  /\ connected' = (connected \/ (port_exists /\ exists))
  /\ UNCHANGED <<sched, queue, is_busy, port_exists>>

\* find(ipc_key), before the IDM lock is taken
FindIpc(t) ==
  /\ "connect" \in Role[t] /\ ipc
  /\ Goto(t, "guest", IF exists THEN "i_lock" ELSE "check")
  /\ UNCHANGED <<sched, queue, port>>

\* The queue found may have been destroyed meanwhile.
ConnectIpc(t) ==
  /\ IdmFree
  /\ Goto(t, "i_lock", "check")
  /\ connected' = (connected \/ port_exists)
  /\ UNCHANGED <<sched, queue, is_busy, port_exists>>

\* Mutant: is_busy is not looked at.
DisconnectBusy(t) ==
  /\ "disconnect" \in Role[t]
  /\ IdmFree
  /\ Goto(t, "guest", "check")
  /\ connected' = (connected /\ ~(port_exists /\ exists))
  /\ UNCHANGED <<sched, queue, is_busy, port_exists>>

\* ESRCH, ENOTCONN, EBUSY, or reset the pointer
Disconnect(t) ==
  /\ "disconnect" \in Role[t]
  /\ IdmFree
  /\ Goto(t, "guest", "check")
  /\ connected' = (connected /\ ~(port_exists /\ exists /\ is_busy = 0))
  /\ UNCHANGED <<sched, queue, is_busy, port_exists>>

\* EISCONN while it is connected to a live queue
PortDestroy(t) ==
  /\ "portdestroy" \in Role[t]
  /\ IdmFree
  /\ Goto(t, "guest", "check")
  /\ port_exists' = (port_exists /\ connected /\ exists)
  /\ UNCHANGED <<sched, queue, connected, is_busy>>
-----------------------------------------------------------------------------
(***************************************************************************)
(* Loading the state saved when all threads had stopped.  The threads that *)
(* slept in receive (PPU_THREAD_STATUS_SLEEP) call it again before the     *)
(* scheduler starts, and only they see loaded_from_savestate; those on the *)
(* run queue execute their system call when they are scheduled.  A waiter  *)
(* keeps its order number, which only SYS_SYNC_PRIORITY looks at.  A state *)
(* with a receiver that has timed out and is back on the run queue, or     *)
(* with an interrupted destroy, is not loaded here.                        *)
(***************************************************************************)
Sleeper(t) == t \in sched.again /\ t \notin Range(sched.g_ppu)

Resumed(t) ==
  CASE pc[t] = "stopped" -> "check"
    [] pc[t] = "r_redo" -> "r_loop"
    [] pc[t] = "s_redo" -> "s_again"
    [] pc[t] = "p_redo" -> IF Sleeper(t) THEN "p_busy" ELSE "s_again"

Orders(q) ==
  IF protocol = "PRIORITY" THEN {q}
  ELSE {p \in [1..Len(q) -> Range(q)] : Range(p) = Range(q)}

Load ==
  /\ \A t \in Thread : pc[t] \in {"stopped", "r_redo", "s_redo", "p_redo"}
  /\ \A t \in Thread : pc[t] = "r_redo" => Sleeper(t)
  /\ pc' = [t \in Thread |-> Resumed(t)]
  /\ sched' = WakeUp([InitSched(sched.g_ppu) EXCEPT
                        !.prio = sched.prio,
                        !.suspend = Thread,
                        !.waiting = {t \in timeout : Sleeper(t)}])
  /\ pq' \in Orders(SelectSeq(pq, Sleeper))
  /\ gpr4' = [t \in Thread |-> 0] /\ gpr3' = [t \in Thread |-> "OK"]
  /\ is_busy' = Cardinality({t \in Thread : pc[t] = "p_redo" /\ Sleeper(t)})
  /\ UNCHANGED <<setup, events, mutex, exists, timeout, sent, nth, gone, connected, port_exists>>

\* port_send is executed again.
SendRedone(t) == CheckState(t, "s_again", "p_lock", "s_redo") /\ UNCHANGED <<queue, port>>
-----------------------------------------------------------------------------
ReceiveStep(t) ==
  ReceiveLock(t) \/ ReceiveSignaled(t) \/ ReceiveStopped(t) \/ ReceiveAgain(t)

TimeoutStep(t) == ReceiveTimeout(t) \/ ReceiveCheck(t) \/ ReceiveUnqueue(t)

TakeStep(t) == TryReceiveLock(t) \/ DrainLock(t)

SendStep(t) ==
  \/ SendFails(t) \/ SendSaves(t) \/ SendHands(t) \/ SendBusy(t) \/ SendAgain(t)
  \/ SendTest(t) \/ SendStopped(t) \/ SendDone(t) \/ SendRedone(t)
  \/ ConnectIpc(t)

\* Steps common to all system calls.
ThreadStep(t) ==
  /\ Poll(t) \/ CheckState(t, "check", "guest", "stopped") \/ Requeue(t)
  /\ UNCHANGED <<queue, port>>

Call(t) ==
  \/ Send(t)
  \/ \E timed \in {FALSE, "timed" \in Role[t]} : Receive(t, timed)
  \/ TryReceive(t) \/ Drain(t)
  \/ \E force \in BOOLEAN : Destroy(t, force)
  \/ DestroyAgain(t)
  \/ ConnectLocal(t) \/ FindIpc(t) \/ Disconnect(t) \/ PortDestroy(t)
  \/ "stop" \in Role[t] /\ Stop(t) /\ UNCHANGED <<queue, port>>

Next ==
  \/ \E t \in Thread :
       \/ Call(t) \/ ThreadStep(t)
       \/ ReceiveStep(t) \/ TimeoutStep(t) \/ TakeStep(t) \/ SendStep(t) \/ DestroyAwake(t)
  \/ HostSend
  \/ Load

\* The host runs every thread; nobody is obliged to make system calls or to stop.
\* The setups without fair are for the properties that do not depend on it.
Fairness ==
  \A t \in Thread : WF_vars(setup.fair /\ (\/ ThreadStep(t) \/ ReceiveStep(t) \/ TimeoutStep(t)
                                         \/ TakeStep(t) \/ SendStep(t) \/ DestroyAwake(t)))

Spec == Init /\ [][Next]_vars /\ Fairness
-----------------------------------------------------------------------------
(***************************************************************************)
(* Properties                                                              *)
(***************************************************************************)
\* The receivers that have been given an event they have not returned with.
Holders == {t \in Thread : gpr4[t] # 0}

\* Every event that send has accepted is delivered once, in the order of sending: the
\* queue holds the last ones, and each of the others is with one receiver or gone to
\* one.  No timeout, cancel or stop that races a send loses or repeats an event
\* (sys_event.cpp:154, 182, 499, 576).
Delivered ==
  LET first == sent - Len(events)
  IN  /\ events = [i \in 1..Len(events) |-> first + i]
      /\ gone \cup {gpr4[t] : t \in Holders} = 1..first
      /\ \A t \in Holders : gpr4[t] \notin gone
      /\ \A t, u \in Holders : gpr4[t] = gpr4[u] => t = u

\* "If cancelled, gpr[3] will be non-zero. Other registers must contain event data"
\* (line 521): a receive that waited and returns CELL_OK has an event.
OkHasEvent ==
  [][\A t \in Thread :
       pc[t] \in {"r_loop", "r_stop", "r_unq"} /\ pc'[t] = "check" /\ gpr4[t] = 0
         => gpr3[t] = "ECANCELED" \/ (t \in Range(pq) /\ t \notin Range(pq'))]_vars

\* The calls agree on the queue and the port:
\*  - no receiver sleeps while an event is in the queue (lines 152, 492);
\*  - nobody is left waiting on a queue that has been destroyed: a receive that found
\*    it is cancelled (lines 306, 375);
\*  - is_busy, which is raised under the queue's lock and lowered without a lock, is
\*    the number of threads that have sent through the port and wait to be
\*    rescheduled, and while there are any, or one that has woken the receiver is about
\*    to raise it, the port is not disconnected (lines 184, 188, 754);
\*  - no thread in guest code is flagged to wait for the scheduler with no way to
\*    notice (ppu_thread::cpu_sleep).
CallsSound ==
  LET sending == {t \in Thread : pc[t] \in {"p_busy", "p_done", "p_stop"}}
  IN  /\ pq # <<>> => events = <<>>
      /\ ~exists /\ mutex = NoThread => pq = <<>>
      /\ is_busy = Cardinality(sending)
      /\ sending # {} \/ (\E t \in Thread : pc[t] = "p_hand") => connected
      /\ GuestCanSleep

\* The count in the port lowered after test_stopped (line 811) is that of a port that
\* still exists ("Counts threads waiting on event sending", sys_event.h:125).
SendingPortKept ==
  \A t \in Thread : pc[t] \in {"p_busy", "p_done", "p_stop"} => port_exists

\* A receiver that has been given an event or cancelled leaves the wait loop (with the
\* lock to take once more if it has timed out), unless the scheduler prefers other
\* threads (lines 184, 382, 522).
HandedReturns ==
  \A t \in Thread :
    (setup.fair /\ pc[t] \in {"r_loop", "r_check"} /\ t \notin Range(pq))
      ~> (\/ pc[t] \in {"check", "guest", "r_unq"}
          \/ t \in Range(sched.g_ppu) \ Running(sched))
=============================================================================
