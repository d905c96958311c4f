------------------------------ MODULE Barrier ------------------------------
(***************************************************************************)
(* What a barrier promises: nobody leaves before everybody has arrived,    *)
(* and nobody arrives again before everybody has left.                     *)
(***************************************************************************)
CONSTANT Thread

VARIABLES
  arrived,    \* those who are at the barrier
  open        \* everybody has arrived

vars == <<arrived, open>>

Init == arrived = {} /\ open = FALSE

Arrive(t) ==
  /\ ~open /\ t \notin arrived
  /\ arrived' = arrived \cup {t}
  /\ open' = (arrived' = Thread)

Leave(t) ==
  /\ open /\ t \in arrived
  /\ arrived' = arrived \ {t}
  /\ open' = (arrived' # {})

Next == \E t \in Thread : Arrive(t) \/ Leave(t)

Spec == Init /\ [][Next]_vars
=============================================================================
