------------------------------- MODULE Monitor -------------------------------
(***************************************************************************)
(* What sys_cond promises: a lock that is handed over (module Lock) and a  *)
(* condition variable.  A thread that waits gives the lock up altogether,  *)
(* is moved from the condition variable to the lock, by a signal or by its *)
(* timeout, and stays there until it owns the lock: it cannot give up.     *)
(***************************************************************************)
EXTENDS Integers

CONSTANTS Thread, NoThread

VARIABLES
  holder, depth, waiting,   \* as in Lock
  cwait,     \* threads that wait for a signal
  inside,    \* threads that have not returned from wait
  aside      \* how often each of them had re-entered the lock

vars == <<holder, depth, waiting, cwait, inside, aside>>

Locked == INSTANCE Lock

Init ==
  /\ Locked!Init
  /\ cwait = {} /\ inside = {}
  /\ aside = [t \in Thread |-> 0]

\* Threads that are not in wait use the lock.
UseLock ==
  /\ \/ \E t \in Thread \ inside :
          Locked!Acquire(t) \/ Locked!Enqueue(t) \/ Locked!GiveUp(t)
     \/ holder \notin inside /\ (Locked!Reenter \/ Locked!Leave \/ Locked!Release)
  /\ UNCHANGED <<cwait, inside, aside>>

Wait ==
  /\ holder \in Thread \ inside
  /\ cwait' = cwait \cup {holder}
  /\ inside' = inside \cup {holder}
  /\ aside' = [aside EXCEPT ![holder] = depth]
  /\ depth' = 0
  /\ IF waiting = {} THEN holder' = NoThread ELSE holder' \in waiting
  /\ waiting' = waiting \ {holder'}

Move(t) ==
  /\ t \in cwait
  /\ cwait' = cwait \ {t}
  /\ IF holder = NoThread
     THEN holder' = t /\ UNCHANGED waiting
     ELSE waiting' = waiting \cup {t} /\ UNCHANGED holder
  /\ UNCHANGED <<depth, inside, aside>>

Return ==
  /\ holder \in inside
  /\ inside' = inside \ {holder}
  /\ depth' = aside[holder]
  /\ aside' = [aside EXCEPT ![holder] = 0]
  /\ UNCHANGED <<holder, waiting, cwait>>

Next == UseLock \/ Wait \/ Return \/ \E t \in Thread : Move(t)

Spec == Init /\ [][Next]_vars
=============================================================================
