-------------------------------- MODULE Lock --------------------------------
(***************************************************************************)
(* What a mutex promises: a lock with an owner, re-entered only by its     *)
(* owner, and handed over: while threads wait it is never free, so nobody  *)
(* can overtake them.                                                      *)
(***************************************************************************)
EXTENDS Integers

CONSTANTS Thread, NoThread

VARIABLES
  holder,    \* the owner, or NoThread
  depth,     \* how often the owner has re-entered
  waiting    \* threads that wait for it

vars == <<holder, depth, waiting>>

Init == holder = NoThread /\ depth = 0 /\ waiting = {}

Acquire(t) ==
  /\ holder = NoThread
  /\ holder' = t
  /\ UNCHANGED <<depth, waiting>>

Enqueue(t) ==
  /\ holder \notin {NoThread, t}
  /\ t \notin waiting
  /\ waiting' = waiting \cup {t}
  /\ UNCHANGED <<holder, depth>>

\* A waiter times out.
GiveUp(t) ==
  /\ t \in waiting
  /\ waiting' = waiting \ {t}
  /\ UNCHANGED <<holder, depth>>

Reenter ==
  /\ holder # NoThread
  /\ depth' = depth + 1
  /\ UNCHANGED <<holder, waiting>>

Leave ==
  /\ depth > 0
  /\ depth' = depth - 1
  /\ UNCHANGED <<holder, waiting>>

\* The last unlock: to a waiter if there is one.
Release ==
  /\ holder # NoThread
  /\ depth = 0
  /\ IF waiting = {} THEN holder' = NoThread ELSE holder' \in waiting
  /\ waiting' = waiting \ {holder'}
  /\ UNCHANGED depth

Next ==
  \/ \E t \in Thread : Acquire(t) \/ Enqueue(t) \/ GiveUp(t)
  \/ Reenter \/ Leave \/ Release

Spec == Init /\ [][Next]_vars
=============================================================================
