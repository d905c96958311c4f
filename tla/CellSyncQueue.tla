--------------------------- MODULE CellSyncQueue ---------------------------
(***************************************************************************)
(* cellSync's queue (rpcs3/Emu/Cell/Modules/cellSync.h, cellSync.cpp): a   *)
(* ring of slots in guest memory, with one atomic word that holds where    *)
(* the next element goes, how many there are, and whether one thread is    *)
(* pushing and one is popping.  Elements are copied outside the word.      *)
(***************************************************************************)
EXTENDS CellSyncThread, Sequences

CONSTANTS
  NoValue,
  depth       \* taken to be below 2^24, the range of the fields next and count, which
              \* cellSyncQueueInitialize does not check

ASSUME QueueAssumption == NoValue \notin Value /\ depth \in Nat \ {0}

VARIABLES
  next, count, _pop, _push,   \* ctrl
  buffer,
  position,                   \* a local variable of the calls, 0 outside of them
  arg                         \* what each thread pushes, or has popped or peeked;
                              \* NoValue outside of the calls

ctrl == <<next, count, _pop, _push>>
queueVars == <<ctrl, buffer, position, arg, pc, mode>>

Spinning == {"push", "pop", "peek", "clear_1", "clear_2_again"}
Popping == {"pop_copy", "peek_copy", "pop_end"}
Pushing == {"push_copy", "push_end"}

QueueTypeOK ==
  /\ next \in 0..(depth - 1) /\ count \in 0..depth /\ _pop \in 0..1 /\ _push \in 0..1
  /\ buffer \in [0..(depth - 1) -> Value]
  /\ position \in [Thread -> Nat]
  /\ arg \in [Thread -> Value \cup {NoValue}]

\* cellSyncQueueInitialize
QueueInit ==
  /\ ThreadInit
  /\ next = 0 /\ count = 0 /\ _pop = 0 /\ _push = 0
  /\ buffer = [i \in 0..(depth - 1) |-> InitValue]
  /\ position = [t \in Thread |-> 0]
  /\ arg = [t \in Thread |-> NoValue]
-----------------------------------------------------------------------------
CanPush == _push = 0 /\ count + _pop < depth

try_push_begin(t) ==
  /\ CanPush
  /\ position' = [position EXCEPT ![t] = next]
  /\ next' = IF next + 1 # depth THEN next + 1 ELSE 0
  /\ count' = count + 1
  /\ _push' = 1
  /\ UNCHANGED _pop

\* Mutant: the slot that is still being written may be read.
CanPopUnwritten == _pop = 0 /\ count > 0

CanPop == _pop = 0 /\ count > _push

try_pop_begin(t) ==
  /\ CanPop
  /\ _pop' = 1
  /\ position' = [position EXCEPT ![t] = next + depth - count]
  /\ count' = count - 1
  /\ UNCHANGED <<next, _push>>

try_peek_begin(t) ==
  /\ CanPop
  /\ _pop' = 1
  /\ position' = [position EXCEPT ![t] = next + depth - count]
  /\ UNCHANGED <<next, count, _push>>

\* cellSyncQueuePush and cellSyncQueueTryPush of v.  An attempt succeeds at once, or
\* fails: cellSyncQueueTryPush returns CELL_SYNC_ERROR_BUSY, cellSyncQueuePush spins.
PushBegin(t, v) ==
  /\ Call(t, "out", "push_copy") /\ try_push_begin(t)
  /\ arg' = [arg EXCEPT ![t] = v]
  /\ UNCHANGED <<buffer, mode>>

PushSpin(t, v) ==
  /\ Call(t, "out", "push") /\ ~CanPush
  /\ arg' = [arg EXCEPT ![t] = v]
  /\ UNCHANGED <<ctrl, buffer, position, mode>>

PushRetry(t) ==
  /\ Goto(t, "push", "push_copy") /\ try_push_begin(t)
  /\ UNCHANGED <<buffer, arg, mode>>

PushCopy(t) ==
  /\ Goto(t, "push_copy", "push_end")
  /\ buffer' = [buffer EXCEPT ![position[t]] = arg[t]]
  /\ UNCHANGED <<ctrl, position, arg, mode>>

\* push_end
PushEnd(t) ==
  /\ Goto(t, "push_end", "out")
  /\ _push' = 0
  /\ position' = [position EXCEPT ![t] = 0]
  /\ arg' = [arg EXCEPT ![t] = NoValue]
  /\ UNCHANGED <<next, count, _pop, buffer, mode>>

\* cellSyncQueuePop, cellSyncQueueTryPop, cellSyncQueuePeek, cellSyncQueueTryPeek
PopBegin(t) ==
  /\ \/ Call(t, "out", "pop_copy") /\ try_pop_begin(t)
     \/ Call(t, "out", "peek_copy") /\ try_peek_begin(t)
  /\ UNCHANGED <<buffer, arg, mode>>

PopSpin(t) ==
  /\ Call(t, "out", "pop") \/ Call(t, "out", "peek")
  /\ ~CanPop
  /\ UNCHANGED <<ctrl, buffer, position, arg, mode>>

PopRetry(t) ==
  /\ \/ Goto(t, "pop", "pop_copy") /\ try_pop_begin(t)
     \/ Goto(t, "peek", "peek_copy") /\ try_peek_begin(t)
  /\ UNCHANGED <<buffer, arg, mode>>

PopCopy(t) ==
  /\ Goto(t, "pop_copy", "pop_end") \/ Goto(t, "peek_copy", "pop_end")
  /\ arg' = [arg EXCEPT ![t] = buffer[position[t] % depth]]
  /\ UNCHANGED <<ctrl, buffer, position, mode>>

\* pop_end
PopEnd(t) ==
  /\ Goto(t, "pop_end", "out")
  /\ _pop' = 0
  /\ position' = [position EXCEPT ![t] = 0]
  /\ arg' = [arg EXCEPT ![t] = NoValue]
  /\ UNCHANGED <<next, count, _push, buffer, mode>>

try_clear_begin_1 == _pop = 0 /\ _pop' = 1 /\ UNCHANGED <<next, count, _push>>

\* cellSyncQueueClear
ClearBegin(t) ==
  /\ Call(t, "out", "clear_2") /\ try_clear_begin_1
  /\ UNCHANGED <<buffer, position, arg, mode>>

ClearRetry(t) ==
  /\ Goto(t, "clear_1", "clear_2") /\ try_clear_begin_1
  /\ UNCHANGED <<buffer, position, arg, mode>>

ClearSpin(t) ==
  /\ Call(t, "out", "clear_1") /\ _pop # 0
  /\ UNCHANGED <<ctrl, buffer, position, arg, mode>>

\* try_clear_begin_2
Clear2(t) ==
  /\ Goto(t, "clear_2", "clear_store") \/ Goto(t, "clear_2_again", "clear_store")
  /\ _push = 0 /\ _push' = 1
  /\ UNCHANGED <<next, count, _pop, buffer, position, arg, mode>>

Clear2Spin(t) ==
  /\ Goto(t, "clear_2", "clear_2_again") /\ _push # 0
  /\ UNCHANGED <<ctrl, buffer, position, arg, mode>>

ClearStore(t) ==
  /\ Goto(t, "clear_store", "out")
  /\ next' = 0 /\ count' = 0 /\ _pop' = 0 /\ _push' = 0
  /\ UNCHANGED <<buffer, position, arg, mode>>

\* test_stopped, in any of the loops: the call returns 0, which is CELL_OK
QueueStopped(t) ==
  /\ mode = "stop" /\ \E from \in Spinning : Goto(t, from, "out")
  /\ arg' = [arg EXCEPT ![t] = NoValue]
  /\ UNCHANGED <<ctrl, buffer, position, mode>>

\* The host runs every thread; a call that is begun goes on.
QueueContinue(t) ==
  \/ PushRetry(t) \/ PushCopy(t) \/ PushEnd(t)
  \/ PopRetry(t) \/ PopCopy(t) \/ PopEnd(t)
  \/ ClearRetry(t) \/ Clear2(t) \/ Clear2Spin(t) \/ ClearStore(t)
  \/ QueueStopped(t)

QueueBegin(t) ==
  \/ \E v \in Value : PushBegin(t, v) \/ PushSpin(t, v)
  \/ PopBegin(t) \/ PopSpin(t)
  \/ ClearBegin(t) \/ ClearSpin(t)

QueueNext ==
  \/ (Stop \/ Load) /\ UNCHANGED <<ctrl, buffer, position, arg>>
  \/ \E t \in Thread : QueueBegin(t) \/ QueueContinue(t)

QueueSpec == QueueInit /\ [][QueueNext]_queueVars
-----------------------------------------------------------------------------
\* The elements that are in the queue and have been copied there
Elements ==
  LET pushing == IF \E t \in Thread : pc[t] \in Pushing THEN 1 ELSE 0
  IN [i \in 1..(count - pushing) |-> buffer[(next + depth - count + i - 1) % depth]]

FifoPromise == INSTANCE Fifo WITH
  queue <- Elements,
  putting <- [t \in Thread |-> IF pc[t] \in Pushing THEN arg[t] ELSE NoValue],
  got <- [t \in Thread |-> CASE pc[t] \in {"pop_copy", "peek_copy"}
                                  -> buffer[position[t] % depth]
                            [] pc[t] = "pop_end" -> arg[t]
                            [] OTHER -> NoValue]

\* The queue is a bounded FIFO whose pointers stay in range: an element is put when its
\* push ends, and taken when its pop begins, though it is copied later and the slots are
\* used again; whatever else goes on, and also when states are saved (cellSync.h:209, 230,
\* 245; cellSync.cpp:478-489, 549-560, 620-631, 705-721).
ImplementsFifo == FifoPromise!Spec /\ []QueueTypeOK
=============================================================================
