-------------------------- MODULE MCLv2EventQueue --------------------------
(***************************************************************************)
(* Small instances of Lv2EventQueue for TLC.                               *)
(***************************************************************************)
EXTENDS Lv2EventQueue

CONSTANTS t1, t2, t3

\* t1 is the most urgent.
MCPrio == [t \in Thread |-> IF t = t1 THEN 1 ELSE 2]

\* All alike: a send never waits for the receiver.
SamePrio == [t \in Thread |-> 1]

\* The run queue in priority order.
MCQueue == <<t1, t2, t3>>

\* t1 and t2 receive, t1 also with a timeout, t3 sends and connects; t2 also polls,
\* drains, disconnects and destroys; a host thread sends.
Receivers ==
  [protocol |-> "PRIORITY", size |-> 2, ipc |-> FALSE, host |-> TRUE, fair |-> FALSE,
   prio |-> MCPrio,
   role |-> [t \in Thread |->
     CASE t = t1 -> {"receive", "timed"}
       [] t = t2 -> {"receive", "tryreceive", "drain", "destroy", "disconnect"}
       [] t = t3 -> {"send", "connect"}]]

\* t1 receives, t2 and t3 send, all but t2 change the port, t3 destroys the queue
\* and the port, and t2 may be told to stop.
Ports ==
  [protocol |-> "FIFO", size |-> 2, ipc |-> TRUE, host |-> FALSE, fair |-> FALSE,
   prio |-> MCPrio,
   role |-> [t \in Thread |->
     CASE t = t1 -> {"receive", "disconnect", "connect"}
       [] t = t2 -> {"send", "stop"}
       [] t = t3 -> {"connect", "disconnect", "destroy", "send", "portdestroy"}]]

\* t1 and t2 receive, t3 sends and destroys; all may be told to stop, and the state is
\* loaded.
Stopping ==
  [protocol |-> "FIFO", size |-> 1, ipc |-> FALSE, host |-> FALSE, fair |-> FALSE,
   prio |-> SamePrio,
   role |-> [t \in Thread |->
     IF t = t3 THEN {"send", "destroy", "stop"} ELSE {"receive", "stop"}]]

\* t1 receives with and without a timeout, t2 sends, t3 destroys.
Served ==
  [protocol |-> "FIFO", size |-> 1, ipc |-> FALSE, host |-> FALSE, fair |-> TRUE,
   prio |-> MCPrio,
   role |-> [t \in Thread |->
     CASE t = t1 -> {"receive", "timed"}
       [] t = t2 -> {"send"}
       [] t = t3 -> {"destroy"}]]

MCSetups == {Receivers, Ports, Stopping, Served}
=============================================================================
