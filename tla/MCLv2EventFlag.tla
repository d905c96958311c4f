--------------------------- MODULE MCLv2EventFlag ---------------------------
(***************************************************************************)
(* Small instances of Lv2EventFlag for TLC.                                *)
(***************************************************************************)
EXTENDS Lv2EventFlag

CONSTANTS t1, t2, t3, t4, t5, A, B, C

\* t2 is the most urgent; the others share a priority.
MCPrio == [t \in Thread |-> IF t = t2 THEN 1 ELSE 2]

\* The run queue in priority order.
MCQueue == SelectSeq(<<t2, t1, t3, t4, t5>>, LAMBDA t : t \in Thread)

AllOf(bits, clear) == [bits |-> bits, and |-> TRUE, clear |-> clear]
AnyOf(bits, clear) == [bits |-> bits, and |-> FALSE, clear |-> clear]

\* t1 and t2 wait, t1 also with a timeout; t3 polls, sets, clears, cancels and destroys.
TwoWaiters ==
  [protocol |-> "PRIORITY", single |-> FALSE, fair |-> FALSE, init |-> {},
   role |-> [t \in Thread |->
     CASE t = t1 -> {"wait", "timed"}
       [] t = t2 -> {"wait"}
       [] t = t3 -> {"set", "trywait", "clear", "cancel", "destroy"}
       [] OTHER -> {}],
   requests |-> [t \in Thread |->
     CASE t = t1 -> {AllOf({A, B}, "bits"), AnyOf({A, B}, "no")}
       [] t = t2 -> {AllOf({A, B}, "bits"), AnyOf({B}, "all")}
       [] OTHER -> {AnyOf({A, B}, "bits")}],
   sets |-> {{A}, {B}, {A, B}}, masks |-> {{A}}]

\* t1 and t2 wait, t3 sets and cancels; all may be told to stop.
Stopping ==
  [protocol |-> "PRIORITY", single |-> FALSE, fair |-> FALSE, init |-> {},
   role |-> [t \in Thread |->
     CASE t \in {t1, t2} -> {"wait", "stop"}
       [] t = t3 -> {"set", "cancel", "stop"}
       [] OTHER -> {}],
   requests |-> [t \in Thread |-> {AnyOf({A}, "bits")}],
   sets |-> {{A}}, masks |-> {}]

\* t1 and t2 wait, t4 takes and clears bits while t3 sets them.
Racing ==
  [protocol |-> "FIFO", single |-> FALSE, fair |-> FALSE, init |-> {},
   role |-> [t \in Thread |->
     CASE t \in {t1, t2} -> {"wait"}
       [] t = t3 -> {"set"}
       [] t = t4 -> {"trywait", "clear"}
       [] OTHER -> {}],
   requests |-> [t \in Thread |->
     CASE t = t1 -> {AllOf({A, B}, "bits"), AnyOf({B, C}, "all")}
       [] t = t2 -> {AllOf({A, B}, "no"), AllOf({A, C}, "bits")}
       [] OTHER -> {AllOf({A}, "bits")}],
   sets |-> {{A}, {B, C}}, masks |-> {{B}}]

\* A flag for one waiter: t1 waits with and without a timeout, t2 waits, t3 sets and
\* cancels.
Single ==
  [protocol |-> "PRIORITY", single |-> TRUE, fair |-> TRUE, init |-> {},
   role |-> [t \in Thread |->
     CASE t = t1 -> {"wait", "timed"}
       [] t = t2 -> {"wait"}
       [] t = t3 -> {"set", "cancel"}
       [] OTHER -> {}],
   requests |-> [t \in Thread |-> {AnyOf({A}, "bits")}],
   sets |-> {{A}}, masks |-> {}]

\* Two waiters with one request whom only their age sets apart: the order is FIFO and
\* the younger may be the more urgent, or they share a priority.
InTurn(protocol_, first, second) ==
  [protocol |-> protocol_, single |-> FALSE, fair |-> FALSE, init |-> {},
   role |-> [t \in Thread |->
     CASE t \in {first, second} -> {"wait"}
       [] t = t4 -> {"set"}
       [] OTHER -> {}],
   requests |-> [t \in Thread |-> {AnyOf({A}, "bits")}],
   sets |-> {{A}}, masks |-> {}]

MCSetups == {TwoWaiters, Stopping, Racing, Single,
             InTurn("FIFO", t1, t2), InTurn("PRIORITY", t1, t3)}

\* Three waiters, a thread that sets B and C, and one that clears A.
ThreeWaiters ==
  [protocol |-> "FIFO", single |-> FALSE, fair |-> FALSE, init |-> {A},
   role |-> [t \in Thread |->
     CASE t = t4 -> {"set"} [] t = t5 -> {"clear"} [] OTHER -> {"wait"}],
   requests |-> [t \in Thread |->
     CASE t = t1 -> {AllOf({A, B}, "bits")}
       [] t = t2 -> {AllOf({B, C}, "bits")}
       [] t = t3 -> {AllOf({C}, "bits")}
       [] OTHER -> {}],
   sets |-> {{B, C}}, masks |-> {{B, C}}]

RestartSetups == {ThreeWaiters}
=============================================================================
