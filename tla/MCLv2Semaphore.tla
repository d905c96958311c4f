--------------------------- MODULE MCLv2Semaphore ---------------------------
(***************************************************************************)
(* Small instances of Lv2Semaphore for TLC.                                *)
(***************************************************************************)
EXTENDS Lv2Semaphore

CONSTANTS t1, t2, t3

\* t1 is the most urgent; t2 and t3 share a priority.
MCPrio == [t \in Thread |-> IF t = t1 THEN 1 ELSE 2]

\* The run queue in priority order.
MCQueue == <<t1, t2, t3>>

\* Two threads wait, one with a timeout, the other also polls; the third posts and
\* destroys.
TwoWaiters ==
  [protocol |-> "FIFO", fair |-> FALSE,
   role |-> [t \in Thread |-> CASE t = t1 -> {"wait", "timed", "usleep"}
                                [] t = t2 -> {"wait", "timed", "trywait"}
                                [] t = t3 -> {"post", "destroy", "exit"}]]

\* Two threads wait, the third posts; a waiter and the third may be told to stop.
Stopping ==
  [protocol |-> "PRIORITY", fair |-> FALSE,
   role |-> [t \in Thread |-> CASE t = t1 -> {"wait", "timed", "stop"}
                                [] t = t2 -> {"wait"}
                                [] t = t3 -> {"post", "usleep", "stop"}]]

\* Two threads that call everything.
Pair ==
  [protocol |-> "PRIORITY", fair |-> TRUE,
   role |-> [t \in Thread |->
     CASE t = t1 -> {"wait", "timed", "trywait", "post", "destroy", "usleep", "exit"}
       [] t = t2 -> {"wait", "post", "usleep"}
       [] t = t3 -> {}]]

MCSetups == {TwoWaiters, Stopping, Pair}
=============================================================================
