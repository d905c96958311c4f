----------------------------- MODULE MCLv2Timer -----------------------------
(***************************************************************************)
(* Small instances of Lv2Timer for TLC.                                    *)
(***************************************************************************)
EXTENDS Lv2Timer

CONSTANTS u1, u2, q1, q2, g1, g2

\* A guest makes all calls on a timer that is a one-shot one, a periodic one without a
\* base, or one with a base, and connect it to two queues.
AllCalls ==
  [timers |-> {u1}, queues |-> {q1, q2}, guests |-> {g1}, fair |-> FALSE,
   ops |-> {"create", "connect", "start", "restart", "stop", "info", "disconnect", "destroy",
            "destroyqueue", "pause"},
   starts |-> {<<2, 0>>, <<0, 1>>, <<1, 2>>}, time |-> 2, lag |-> 1, loads |-> 0]

\* Bases before and after the start, and periods that do not divide them.
ManyStarts ==
  [timers |-> {u1}, queues |-> {q1}, guests |-> {g1}, fair |-> FALSE,
   ops |-> {"create", "connect", "start"},
   starts |-> {<<b, p>> : b \in 0..2, p \in 0..3}, time |-> 5, lag |-> 0, loads |-> 0]

\* Two guests create and destroy two timers, and the state is saved and loaded.
TwoTimers ==
  [timers |-> {u1, u2}, queues |-> {q1}, guests |-> {g1, g2}, fair |-> FALSE,
   ops |-> {"create", "connect", "start", "destroy"},
   starts |-> {<<0, 1>>}, time |-> 2, lag |-> 0, loads |-> 1]

\* One timer, with the state saved and loaded.
OneTimer ==
  [timers |-> {u1}, queues |-> {q1}, guests |-> {g1}, fair |-> TRUE,
   ops |-> {"create", "connect", "start", "stop", "disconnect", "destroy", "pause"},
   starts |-> {<<2, 0>>, <<0, 1>>}, time |-> 3, lag |-> 0, loads |-> 1]

\* A timer whose queue is destroyed is saved, loaded without it and connected to another.
LostQueue ==
  [timers |-> {u1}, queues |-> {q1, q2}, guests |-> {g1}, fair |-> FALSE,
   ops |-> {"create", "connect", "start", "disconnect", "destroyqueue"},
   starts |-> {<<0, 1>>}, time |-> 3, lag |-> 0, loads |-> 1]

MCSetups == {AllCalls, ManyStarts, TwoTimers, LostQueue, OneTimer}
=============================================================================
