----------------------------- MODULE MCCellSync -----------------------------
(***************************************************************************)
(* One of cellSync's objects, used by a few threads.  The others keep      *)
(* their initial values.                                                   *)
(***************************************************************************)
EXTENDS CellSyncMutex, CellSyncBarrier, CellSyncRwm, CellSyncQueue

VARIABLE object   \* the one that the threads use

mutex == <<rel, acq, order, line>>
barrier == value
rwm == <<readers, writers, data, mem>>
queue == <<ctrl, buffer, position, arg>>
vars == <<object, pc, mode, mutex, barrier, rwm, queue>>

Init ==
  /\ object \in {"mutex", "barrier", "rwm", "queue"}
  /\ MutexInit /\ BarrierInit /\ RwmInit /\ QueueInit

Next ==
  /\ UNCHANGED object
  /\ \/ object = "mutex" /\ MutexNext /\ UNCHANGED <<barrier, rwm, queue>>
     \/ object = "barrier" /\ BarrierNext /\ UNCHANGED <<mutex, rwm, queue>>
     \/ object = "rwm" /\ RwmNext /\ UNCHANGED <<mutex, barrier, queue>>
     \/ object = "queue" /\ QueueNext /\ UNCHANGED <<mutex, barrier, rwm>>

\* What the host and the guest owe a thread, as long as no state is saved
Continue(t) ==
  /\ mode = "steady"
  /\ \/ object = "mutex" /\ MutexContinue(t) /\ UNCHANGED <<barrier, rwm, queue>>
     \/ object = "barrier" /\ BarrierStep(t) /\ UNCHANGED <<mutex, rwm, queue>>
     \/ object = "rwm" /\ RwmContinue(t) /\ UNCHANGED <<mutex, barrier, queue>>
     \/ object = "queue" /\ QueueContinue(t) /\ UNCHANGED <<mutex, barrier, rwm>>
  /\ UNCHANGED object

Spec == Init /\ [][Next]_vars /\ \A t \in Thread : WF_vars(Continue(t))
-----------------------------------------------------------------------------
\* The loops that wait for others who are bound to go on: for the ticket's turn, for the
\* barrier to open or to close, for the readers to end, for who pushes to end.
Waiting == {"locking", "notify", "wait", "w_drain", "w_wait", "clear_2", "clear_2_again"}

\* Such a wait ends, whoever comes meanwhile: later tickets, a thread on its next round of
\* the barrier, new readers, or threads that push until the queue is full
\* (cellSync.cpp:78, 170, 221, 376, 713).
WaitsEnd == \A t \in Thread : (mode = "steady" /\ pc[t] \in Waiting) ~> pc[t] \notin Waiting
=============================================================================
