--------------------------- MODULE CellSyncThread ---------------------------
(***************************************************************************)
(* The threads that call cellSync (rpcs3/Emu/Cell/Modules/cellSync.cpp).   *)
(* Its objects lie in guest memory and threads spin on them.  A thread     *)
(* that is told to stop, to save the state, leaves its spin loop with 0,   *)
(* which is CELL_OK, and goes on behind the call when the state is loaded. *)
(***************************************************************************)
EXTENDS Integers, FiniteSets

CONSTANTS
  Thread,
  Value,      \* what the threads put into buffers and queues
  InitValue

ASSUME ThreadAssumption == IsFiniteSet(Thread) /\ InitValue \in Value

VARIABLES
  pc,         \* where each thread is; every object has labels of its own
  mode        \* "steady" if no state is ever saved, else "stop" while the threads are
              \* told to stop and "run" between

ThreadInit ==
  /\ pc = [t \in Thread |-> "out"]
  /\ mode \in {"steady", "run"}

Goto(t, from, to) == pc[t] = from /\ pc' = [pc EXCEPT ![t] = to]

\* Outside of every call: with nothing, with a mutex, or between notify and wait.
Resting == {"out", "locked", "notified"}

\* A call begins.
Call(t, from, to) == mode # "stop" /\ Goto(t, from, to)

Stop == mode = "run" /\ mode' = "stop" /\ UNCHANGED pc

\* The state is saved when every thread has stopped, and loaded.
Load ==
  /\ mode = "stop" /\ \A t \in Thread : pc[t] \in Resting
  /\ mode' = "run" /\ UNCHANGED pc
=============================================================================
