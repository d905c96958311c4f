------------------------------ MODULE MCLwmutex -----------------------------
(***************************************************************************)
(* Small instances of Lwmutex for TLC.                                     *)
(***************************************************************************)
EXTENDS Lwmutex

CONSTANTS t1, t2, t3

\* t1 is the most urgent; t2 and t3 share a priority.
MCPrio == [t \in Thread |-> IF t = t1 THEN 1 ELSE 2]

\* The run queue in priority order.
MCQueue == <<t1, t2, t3>>

\* Every thread locks and unlocks; t1 and t3 may give up, t3 also tries and destroys.
AllCalls ==
  [protocol |-> "PRIORITY", recursive |-> FALSE, fair |-> FALSE,
   role |-> [t \in Thread |->
     CASE t = t1 -> {"lock", "timed", "unlock"}
       [] t = t2 -> {"lock", "unlock"}
       [] t = t3 -> {"lock", "timed", "trylock", "unlock", "destroy"}]]

\* Two threads lock and unlock, t1 may give up; t3 tries, unlocks and destroys.
Retrying ==
  [protocol |-> "RETRY", recursive |-> FALSE, fair |-> FALSE,
   role |-> [t \in Thread |->
     CASE t = t1 -> {"lock", "timed", "unlock"}
       [] t = t2 -> {"lock", "unlock"}
       [] t = t3 -> {"trylock", "unlock", "destroy"}]]

\* Every thread locks and unlocks, without a timeout.
RetryUntimed ==
  [protocol |-> "RETRY", recursive |-> FALSE, fair |-> FALSE,
   role |-> [t \in Thread |-> {"lock", "unlock"}]]

\* Every thread locks and unlocks; t1 and t2 may be told to stop.
Stopping ==
  [protocol |-> "PRIORITY", recursive |-> FALSE, fair |-> FALSE,
   role |-> [t \in Thread |-> {"lock", "unlock"} \cup (IF t = t3 THEN {} ELSE {"stop"})]]

\* Two threads use a recursive mutex in all ways.
Pair ==
  [protocol |-> "FIFO", recursive |-> TRUE, fair |-> TRUE,
   role |-> [t \in Thread |-> IF t = t3 THEN {}
                              ELSE {"lock", "timed", "trylock", "unlock", "destroy"}]]

\* t3 may give up and be told to stop.  Not among the setups of the run:
\* HeirFindsReserved and ImplementsLock fail in it.
TimedStopping ==
  [protocol |-> "PRIORITY", recursive |-> FALSE, fair |-> FALSE,
   role |-> [t \in Thread |->
     IF t = t3 THEN {"lock", "timed", "unlock", "stop"} ELSE {"lock", "unlock"}]]

MCSetups == {AllCalls, Retrying, RetryUntimed, Stopping, Pair}
=============================================================================
