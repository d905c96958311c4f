--------------------------- MODULE CellSyncMutex ---------------------------
(***************************************************************************)
(* cellSync's mutex (rpcs3/Emu/Cell/Modules/cellSync.h, cellSync.cpp): a   *)
(* ticket lock of two 16-bit counters in guest memory.                     *)
(***************************************************************************)
EXTENDS CellSyncThread, Sequences

CONSTANT Mod  \* the number of values of a counter, 2^16 in the code

ASSUME MutexAssumption == Mod \in Nat \ {0} /\ Cardinality(Thread) <= Mod

VARIABLES
  rel, acq,   \* ctrl
  order,      \* the local variable of lock
  line        \* the threads that have taken a ticket and not returned it, in order

mutexVars == <<rel, acq, order, line, pc, mode>>

Counter == 0..(Mod - 1)

\* A thread is "locking" in the loop of lock, and "locked" when it was told that it has
\* the mutex.
Using == {"locking", "locked"}

MutexTypeOK ==
  /\ rel \in Counter /\ acq \in Counter
  /\ pc \in [Thread -> {"out"} \cup Using]
  /\ order \in [Thread -> Counter]
  /\ mode \in {"steady", "run", "stop"}
  /\ line \in Seq(Thread)

\* Counters wrap around.
u16(n) == n % Mod

\* cellSyncMutexInitialize
MutexInit ==
  /\ ThreadInit
  /\ rel = 0 /\ acq = 0
  /\ order = [t \in Thread |-> 0]
  /\ line = <<>>

\* The line without t, who is the first of it unless a stop has let it overtake.
Left(t) ==
  IF line # <<>> /\ Head(line) = t THEN Tail(line) ELSE SelectSeq(line, LAMBDA u : u # t)
-----------------------------------------------------------------------------
\* lock_begin: "Increase acq value and remember its old value"
LockBegin(t) ==
  /\ Call(t, "out", "locking")
  /\ order' = [order EXCEPT ![t] = acq]
  /\ acq' = u16(acq + 1)
  /\ line' = Append(line, t)
  /\ UNCHANGED <<rel, mode>>

\* "Wait until rel value is equal to old acq value"
LockEnd(t) ==
  /\ Goto(t, "locking", "locked") /\ rel = order[t]
  /\ UNCHANGED <<rel, acq, order, line, mode>>

\* Mutant: a stopped thread is forgotten with its ticket.
LockAbandoned(t) ==
  /\ mode = "stop" /\ Goto(t, "locking", "out")
  /\ UNCHANGED <<rel, acq, order, line, mode>>

\* test_stopped: the call returns 0, which is CELL_OK
LockStopped(t) ==
  /\ mode = "stop" /\ Goto(t, "locking", "locked")
  /\ UNCHANGED <<rel, acq, order, line, mode>>

\* try_lock; CELL_SYNC_ERROR_BUSY changes nothing
TryLock(t) ==
  /\ Call(t, "out", "locked")
  /\ rel = acq
  /\ acq' = u16(acq + 1)
  /\ line' = Append(line, t)
  /\ UNCHANGED <<rel, order, mode>>

\* unlock, by a thread that was told it has the mutex
Unlock(t) ==
  /\ Call(t, "locked", "out")
  /\ rel' = u16(rel + 1)
  /\ line' = Left(t)
  /\ UNCHANGED <<acq, order, mode>>

\* The host runs every thread, and the guest returns what it has locked.
MutexContinue(t) == LockEnd(t) \/ LockStopped(t) \/ Unlock(t)

MutexNext ==
  \/ (Stop \/ Load) /\ UNCHANGED <<rel, acq, order, line>>
  \/ \E t \in Thread : LockBegin(t) \/ TryLock(t) \/ MutexContinue(t)

MutexSpec == MutexInit /\ [][MutexNext]_mutexVars
-----------------------------------------------------------------------------
\* The tickets of the line follow one another from rel to acq, and the thread that has
\* the mutex is the first.
Aligned ==
  /\ Len(line) <= Cardinality(Thread)
  /\ \A i, j \in 1..Len(line) : line[i] = line[j] => i = j
  /\ acq = u16(rel + Len(line))
  /\ \A i \in 1..Len(line) : pc[line[i]] \in Using
  /\ \A i \in 1..Len(line) : pc[line[i]] = "locking" => order[line[i]] = u16(rel + (i - 1))
  /\ \A t \in Thread : pc[t] \in Using => \E i \in 1..Len(line) : line[i] = t
  /\ \A i \in 1..Len(line) : pc[line[i]] = "locked" => i = 1

\* Every thread in or before the mutex has one ticket that is still to be returned, even
\* when states are saved and loaded: once all have left, the mutex is free again.
TicketsCounted == acq = u16(rel + Cardinality({t \in Thread : pc[t] \in Using}))

\* No ticket is lost, though the counters wrap around; and as long as no state is saved,
\* the mutex belongs to one thread and passes on in the order of the tickets
\* (cellSync.cpp:75, 78, 104, 126).
MutexSound == TicketsCounted /\ (mode = "steady" => Aligned)

\* At most one thread has been told that it has the mutex.  Not so when a state has been
\* saved while a thread was in the loop of lock (cellSync.cpp:82).
MutualExclusion == \A t, u \in Thread : pc[t] = "locked" /\ pc[u] = "locked" => t = u
=============================================================================
