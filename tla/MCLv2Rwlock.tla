---------------------------- MODULE MCLv2Rwlock ----------------------------
(***************************************************************************)
(* Small instances of Lv2Rwlock for TLC.                                   *)
(***************************************************************************)
EXTENDS Lv2Rwlock

CONSTANTS t1, t2, t3, t4

\* t2 is the most urgent; the others share a priority.
MCPrio == [t \in Thread |-> IF t = t2 THEN 1 ELSE 2]

MCId == [t \in Thread |-> CASE t = t1 -> 1 [] t = t2 -> 2 [] t = t3 -> 3 [] t = t4 -> 4]

\* The run queue in priority order.
MCQueue == <<t2, t1, t3, t4>>

\* A reader, a writer and a thread that is either, with timeouts.
Mixed ==
  [protocol |-> "PRIORITY", fair |-> FALSE,
   role |-> [t \in Thread |->
     CASE t = t1 -> {"rlock", "tryrlock", "destroy"}
       [] t = t2 -> {"wlock", "trywlock", "timed"}
       [] t = t3 -> {"rlock", "wlock", "timed"}
       [] t = t4 -> {}]]

\* Two readers and two writers; a writer and a reader may time out.
Four ==
  [protocol |-> "PRIORITY", fair |-> FALSE,
   role |-> [t \in Thread |->
     CASE t = t1 -> {"rlock"}
       [] t = t2 -> {"wlock", "timed"}
       [] t = t3 -> {"wlock"}
       [] t = t4 -> {"rlock", "timed"}]]

\* As Mixed, all may be told to stop, one of them also after a timeout.
Stopping ==
  [protocol |-> "FIFO", fair |-> FALSE,
   role |-> [t \in Thread |->
     CASE t = t1 -> {"rlock", "stop"}
       [] t = t2 -> {"wlock", "timed", "stop"}
       [] t = t3 -> {"rlock", "wlock", "stop"}
       [] t = t4 -> {}]]

\* A reader holds the lock, a writer times out, a second reader is told to stop.
LastToGiveUp ==
  [protocol |-> "FIFO", fair |-> FALSE,
   role |-> [t \in Thread |->
     CASE t = t1 -> {"tryrlock"}
       [] t = t2 -> {"wlock", "timed"}
       [] t = t3 -> {"rlock", "stop"}
       [] t = t4 -> {}]]

\* One thread waits, another too after its first call.
Served ==
  [protocol |-> "FIFO", fair |-> TRUE,
   role |-> [t \in Thread |->
     CASE t = t1 -> {"tryrlock", "trywlock"}
       [] t = t2 -> {"wlock", "timed"}
       [] t = t3 -> {"rlock"}
       [] t = t4 -> {}]]

MCSetups == {Mixed, Four, Stopping, LastToGiveUp, Served}
=============================================================================
