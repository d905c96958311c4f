---------------------------- MODULE CellSyncRwm ----------------------------
(***************************************************************************)
(* cellSync's buffer with many readers and one writer                      *)
(* (rpcs3/Emu/Cell/Modules/cellSync.h, cellSync.cpp): two 16-bit counters  *)
(* in guest memory, on which threads spin, and a buffer that is copied in  *)
(* or out between them.  A copy takes time: it is made of two halves.      *)
(***************************************************************************)
EXTENDS CellSyncThread

VARIABLES
  readers, writers,   \* ctrl
  data,               \* the buffer
  mem                 \* the buffer that each thread passes to the call

rwmVars == <<readers, writers, data, mem, pc, mode>>

Reading == {"r_1", "r_2", "r_end"}
Writing == {"w_1", "w_2", "w_end"}
Draining == {"w_drain", "w_wait"}
RwmPC == {"out", "r_spin", "w_spin"} \cup Reading \cup Draining \cup Writing

RwmTypeOK ==
  /\ readers \in Nat /\ writers \in 0..1
  /\ data \in [1..2 -> Value]
  /\ mem \in [Thread -> [1..2 -> Value]]
  /\ pc \in [Thread -> RwmPC]
  /\ mode \in {"steady", "run", "stop"}

\* cellSyncRwmInitialize
RwmInit ==
  /\ ThreadInit
  /\ readers = 0 /\ writers = 0
  /\ data = [h \in 1..2 |-> InitValue]
  /\ mem = [t \in Thread |-> [h \in 1..2 |-> InitValue]]
-----------------------------------------------------------------------------
try_read_begin == writers = 0 /\ readers' = readers + 1 /\ UNCHANGED writers

\* Mutant: the reader is not counted off.
try_read_endKeeps == UNCHANGED <<readers, writers>>

\* A reader that finds no readers returns CELL_SYNC_ERROR_ABORT.
try_read_end ==
  /\ readers' = IF readers = 0 THEN 0 ELSE readers - 1
  /\ UNCHANGED writers

try_write_begin == writers = 0 /\ writers' = 1 /\ UNCHANGED readers

\* cellSyncRwmRead and cellSyncRwmTryRead.  An attempt that succeeds at once, and one
\* that fails: cellSyncRwmTryRead returns CELL_SYNC_ERROR_BUSY, cellSyncRwmRead spins.
ReadBegin(t) ==
  /\ Call(t, "out", "r_1") /\ try_read_begin
  /\ UNCHANGED <<data, mem, mode>>

ReadSpin(t) ==
  /\ Call(t, "out", "r_spin") /\ writers # 0
  /\ UNCHANGED <<readers, writers, data, mem, mode>>

ReadRetry(t) ==
  /\ Goto(t, "r_spin", "r_1") /\ try_read_begin
  /\ UNCHANGED <<data, mem, mode>>

\* test_stopped: the call returns 0, which is CELL_OK, and has copied nothing
ReadStopped(t) ==
  /\ mode = "stop" /\ Goto(t, "r_spin", "out")
  /\ UNCHANGED <<readers, writers, data, mem, mode>>

ReadCopy(t, h, from, to) ==
  /\ Goto(t, from, to)
  /\ mem' = [mem EXCEPT ![t][h] = data[h]]
  /\ UNCHANGED <<readers, writers, data, mode>>

ReadEnd(t) ==
  /\ Goto(t, "r_end", "out") /\ try_read_end
  /\ UNCHANGED <<data, mem, mode>>

\* cellSyncRwmWrite, for a buffer filled with v
WriteBegin(t, v) ==
  /\ Call(t, "out", "w_drain") /\ try_write_begin
  /\ mem' = [mem EXCEPT ![t] = [h \in 1..2 |-> v]]
  /\ UNCHANGED <<data, mode>>

WriteSpin(t, v) ==
  /\ Call(t, "out", "w_spin") /\ writers # 0
  /\ mem' = [mem EXCEPT ![t] = [h \in 1..2 |-> v]]
  /\ UNCHANGED <<readers, writers, data, mode>>

WriteRetry(t) ==
  /\ Goto(t, "w_spin", "w_drain") /\ try_write_begin
  /\ UNCHANGED <<data, mem, mode>>

\* Mutant: the writer does not wait for the readers.
WriteDrainedEarly(t) ==
  /\ Goto(t, "w_drain", "w_1")
  /\ UNCHANGED <<readers, writers, data, mem, mode>>

\* "wait until `readers` is zero"
WriteDrained(t) ==
  /\ Goto(t, "w_drain", "w_1") \/ Goto(t, "w_wait", "w_1")
  /\ readers = 0
  /\ UNCHANGED <<readers, writers, data, mem, mode>>

WriteWait(t) ==
  /\ Goto(t, "w_drain", "w_wait") /\ readers # 0
  /\ UNCHANGED <<readers, writers, data, mem, mode>>

\* test_stopped, in either loop: the call returns 0, and writers is left as it is
WriteStopped(t) ==
  /\ mode = "stop"
  /\ Goto(t, "w_spin", "out") \/ Goto(t, "w_wait", "out")
  /\ UNCHANGED <<readers, writers, data, mem, mode>>

\* cellSyncRwmTryWrite: compare_and_swap_test({0, 0}, {0, 1})
TryWrite(t, v) ==
  /\ Call(t, "out", "w_1") /\ readers = 0 /\ writers = 0
  /\ writers' = 1
  /\ mem' = [mem EXCEPT ![t] = [h \in 1..2 |-> v]]
  /\ UNCHANGED <<readers, data, mode>>

WriteCopy(t, h, from, to) ==
  /\ Goto(t, from, to)
  /\ data' = [data EXCEPT ![h] = mem[t][h]]
  /\ UNCHANGED <<readers, writers, mem, mode>>

\* "sync and clear `readers` and `writers`"
WriteEnd(t) ==
  /\ Goto(t, "w_end", "out")
  /\ readers' = 0 /\ writers' = 0
  /\ UNCHANGED <<data, mem, mode>>

Read(t) ==
  \/ ReadBegin(t) \/ ReadSpin(t) \/ ReadRetry(t) \/ ReadStopped(t)
  \/ ReadCopy(t, 1, "r_1", "r_2") \/ ReadCopy(t, 2, "r_2", "r_end")
  \/ ReadEnd(t)

WriteRest(t) ==
  \/ WriteRetry(t) \/ WriteDrained(t) \/ WriteWait(t) \/ WriteStopped(t)
  \/ WriteCopy(t, 1, "w_1", "w_2") \/ WriteCopy(t, 2, "w_2", "w_end")
  \/ WriteEnd(t)

Write(t) ==
  \/ \E v \in Value : WriteBegin(t, v) \/ WriteSpin(t, v) \/ TryWrite(t, v)
  \/ WriteRest(t)

\* The host runs every thread; a call that is begun goes on.
RwmContinue(t) == (pc[t] # "out" /\ Read(t)) \/ WriteRest(t)

RwmNext ==
  \/ (Stop \/ Load) /\ UNCHANGED <<readers, writers, data, mem>>
  \/ \E t \in Thread : Read(t) \/ Write(t)

RwmSpec == RwmInit /\ [][RwmNext]_rwmVars
-----------------------------------------------------------------------------
\* What is read is what one writer has written: never the halves of two
\* (cellSync.cpp:309, 384, 415).
NoTornRead == \A t \in Thread : pc[t] = "r_end" => mem[t][1] = mem[t][2]

\* The readers are counted, and the one writer is known: nobody reads while it writes,
\* its last exchange forgets no reader, and no reader finds the count at zero and aborts
\* (cellSync.h:129-160, cellSync.cpp:312, 387).
Counted ==
  /\ readers = Cardinality({t \in Thread : pc[t] \in Reading})
  /\ \A t \in Thread : pc[t] \in Writing \cup Draining => writers = 1
  /\ \A t \in Thread : pc[t] \in Writing => readers = 0
  /\ \A t, u \in Thread :
       pc[t] \in Writing \cup Draining /\ pc[u] \in Writing \cup Draining => t = u

\* The two together, also when states are saved while threads spin.
BufferSound == Counted /\ NoTornRead

\* When no call is under way, the buffer is free for the next one.  Not so when a writer
\* has been stopped while it waited for the readers (cellSync.cpp:380, 387).
FreeAtRest == (\A t \in Thread : pc[t] = "out") => readers = 0 /\ writers = 0
=============================================================================
