--------------------------- MODULE MCLv2Scheduler ---------------------------
(* An instance of the scheduler for TLC. *)
EXTENDS Lv2Scheduler

CONSTANTS t1, t2, t3

\* Three priorities; a change to 2 lowers t1 or raises t3.
MCPrio == [t \in Thread |-> CASE t = t1 -> 1 [] t = t2 -> 2 [] t = t3 -> 3]

\* Liveness is checked of the behaviours in which t3 is never started and no thread is
\* aborted in sys_timer_usleep, after which it acknowledges nothing; elsewhere no
\* fairness is assumed.
Small == pc[t3] = "new" /\ \A t \in Thread : pc[t] # "redo"

SmallFairness ==
  /\ WF_vars(Small /\ MakeReady)
  /\ \A t \in Thread : WF_vars(Small /\ ThreadStep(t))

SmallSpec == Init /\ [][Next]_vars /\ SmallFairness

\* Of two threads, one that stays among the first ppu_threads is eventually resumed
\* (EventuallyScheduled).
SmallScheduled == []Small => EventuallyScheduled
=============================================================================
