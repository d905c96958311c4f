----------------------------- MODULE MCLv2Cond -----------------------------
(***************************************************************************)
(* Small instances of Lv2Cond, and with it of Lv2Mutex, for TLC.           *)
(***************************************************************************)
EXTENDS Lv2Cond

CONSTANTS t1, t2, t3

\* t1 is the most urgent; t2 and t3 share a priority.
MCPrio == [t \in Thread |-> IF t = t1 THEN 1 ELSE 2]

\* The run queue in priority order.
MCQueue == <<t1, t2, t3>>

\* Programs for three threads; those with an empty one do not take part.
Roles(r1, r2, r3) == [t \in Thread |-> CASE t = t1 -> r1 [] t = t2 -> r2 [] t = t3 -> r3]

Use == {"lock", "unlock"}

\* t1 and t2 wait, t1 also with a timeout, and t3 signals; all use the mutex.
TwoWaiters ==
  [protocol |-> "PRIORITY", recursive |-> FALSE, cond |-> TRUE, fair |-> FALSE,
   role |-> Roles(Use \cup {"cwait", "timed"}, Use \cup {"cwait"}, Use \cup {"signal"})]

\* t1 and t2 wait, t3 signals; t1 and t3 may be told to stop.
Stopping ==
  [protocol |-> "PRIORITY", recursive |-> FALSE, cond |-> TRUE, fair |-> FALSE,
   role |-> Roles(Use \cup {"cwait", "stop"}, Use \cup {"cwait"}, {"signal", "stop"})]

\* Two threads that do everything but stop.
Both ==
  [protocol |-> "PRIORITY", recursive |-> TRUE, cond |-> TRUE, fair |-> FALSE,
   role |-> Roles(Use \cup {"cwait", "timed", "signal", "destroy"},
                  Use \cup {"cwait", "timed", "signal", "destroy"}, {})]

\* t1 waits with and without a timeout, t2 signals.
OneWaiter ==
  [protocol |-> "PRIORITY", recursive |-> FALSE, cond |-> TRUE, fair |-> TRUE,
   role |-> Roles(Use \cup {"cwait", "timed"}, Use \cup {"signal"}, {})]

\* A mutex without a condition variable.
MutexOnly ==
  [protocol |-> "PRIORITY", recursive |-> TRUE, cond |-> FALSE, fair |-> FALSE,
   role |-> Roles(Use \cup {"timed", "usleep"}, Use \cup {"destroy"},
                  Use \cup {"trylock", "exit"})]

\* The same, while two threads are told to stop.
MutexStopping ==
  [protocol |-> "FIFO", recursive |-> FALSE, cond |-> FALSE, fair |-> FALSE,
   role |-> Roles(Use \cup {"stop"}, Use \cup {"usleep", "stop"}, Use)]

\* Two threads that use the mutex in all ways.
MutexPair ==
  [protocol |-> "FIFO", recursive |-> TRUE, cond |-> FALSE, fair |-> TRUE,
   role |-> Roles(Use \cup {"timed", "trylock"}, Use \cup {"timed", "trylock"}, {})]

MCSetups ==
  {TwoWaiters, Stopping, Both, OneWaiter, MutexOnly, MutexStopping, MutexPair}

\* Both wait, with and without a timeout; t2, the less urgent, may be told to stop.
StoppedWaiter ==
  [protocol |-> "PRIORITY", recursive |-> FALSE, cond |-> TRUE, fair |-> FALSE,
   role |-> Roles({"lock", "cwait", "timed"}, {"lock", "cwait", "timed", "stop"}, {})]

StoppedSetups == {StoppedWaiter}
=============================================================================
