-------------------------- MODULE CellSyncBarrier --------------------------
(***************************************************************************)
(* cellSync's barrier (rpcs3/Emu/Cell/Modules/cellSync.h, cellSync.cpp): a *)
(* signed 16-bit value in guest memory that counts the threads that have   *)
(* notified, and has its sign bit set while they pass.  Every one of the   *)
(* total_count threads notifies and then waits, again and again.           *)
(***************************************************************************)
EXTENDS CellSyncThread

CONSTANT Half \* the value of the sign bit, 2^15 in the code

total_count == Cardinality(Thread)

\* cellSyncBarrierInitialize: total_count is neither 0 nor more than 32767.
ASSUME BarrierAssumption == Half \in Nat /\ total_count \in 1..(Half - 1)

VARIABLE value  \* ctrl.value

barrierVars == <<value, pc, mode>>

BarrierInit == ThreadInit /\ value = 0

\* The sign bit, and setting it
Signed(v) == v < 0
WithSign(v) == v - Half
-----------------------------------------------------------------------------
\* Mutant: the barrier opens one thread too early.
try_notifyEarly(v, w) ==
  /\ ~Signed(v)
  /\ w = IF v + 2 >= total_count THEN WithSign(v + 1) ELSE v + 1

\* v becomes w
try_notify(v, w) ==
  /\ ~Signed(v)
  /\ w = IF v + 1 = total_count THEN WithSign(v + 1) ELSE v + 1

try_wait(v, w) ==
  /\ Signed(v)
  /\ w = IF v - 1 = -Half THEN 0 ELSE v - 1

\* cellSyncBarrierTryNotify, or the first attempt of cellSyncBarrierNotify
TryNotify(t) ==
  /\ Call(t, "out", "notified")
  /\ try_notify(value, value')
  /\ UNCHANGED mode

\* The attempt fails: CELL_SYNC_ERROR_BUSY changes nothing, and cellSyncBarrierNotify
\* spins.
NotifyBegin(t) ==
  /\ Call(t, "out", "notify") /\ Signed(value)
  /\ UNCHANGED <<value, mode>>

NotifyEnd(t) ==
  /\ Goto(t, "notify", "notified")
  /\ try_notify(value, value')
  /\ UNCHANGED mode

\* test_stopped: the call returns 0, which is CELL_OK
NotifyStopped(t) ==
  /\ mode = "stop" /\ Goto(t, "notify", "notified")
  /\ UNCHANGED <<value, mode>>

\* cellSyncBarrierTryWait, or the first attempt of cellSyncBarrierWait
TryWait(t) ==
  /\ Call(t, "notified", "out")
  /\ try_wait(value, value')
  /\ UNCHANGED mode

\* The attempt fails, and cellSyncBarrierWait spins.
WaitBegin(t) ==
  /\ Call(t, "notified", "wait") /\ ~Signed(value)
  /\ UNCHANGED <<value, mode>>

WaitEnd(t) ==
  /\ Goto(t, "wait", "out")
  /\ try_wait(value, value')
  /\ UNCHANGED mode

WaitStopped(t) ==
  /\ mode = "stop" /\ Goto(t, "wait", "out")
  /\ UNCHANGED <<value, mode>>

\* The host runs every thread, and the guest's threads keep coming to the barrier.
BarrierStep(t) ==
  \/ TryNotify(t) \/ NotifyBegin(t) \/ NotifyEnd(t) \/ NotifyStopped(t)
  \/ TryWait(t) \/ WaitBegin(t) \/ WaitEnd(t) \/ WaitStopped(t)

BarrierNext ==
  \/ (Stop \/ Load) /\ UNCHANGED value
  \/ \E t \in Thread : BarrierStep(t)

BarrierSpec == BarrierInit /\ [][BarrierNext]_barrierVars
-----------------------------------------------------------------------------
Arrived == {t \in Thread : pc[t] \in {"notified", "wait"}}

Promise == INSTANCE Barrier WITH
  arrived <- IF mode = "steady" THEN Arrived ELSE {},
  open <- mode = "steady" /\ Signed(value)

\* As long as no state is saved, nobody leaves the barrier before everybody has arrived,
\* and nobody arrives again before everybody has left; and the value, which stays within
\* its bits even at the largest total_count, counts those who are at it (cellSync.h:85-92,
\* 100-107; cellSync.cpp:145).
ImplementsBarrier ==
  /\ Promise!Spec
  /\ [](value \in (-Half)..(Half - 1))
  /\ [](mode = "steady" =>
         Cardinality(Arrived) = IF Signed(value) THEN value + Half ELSE value)
=============================================================================
