----------------------------- MODULE Semaphore -----------------------------
(***************************************************************************)
(* What sys_semaphore promises: a counting semaphore with hand-over.  A    *)
(* token posted while threads wait is owed to the waiters and can neither  *)
(* be taken by a thread that was not waiting nor be lost when a waiter     *)
(* gives up.                                                               *)
(***************************************************************************)
EXTENDS Integers, FiniteSets

CONSTANTS Thread, MaxVal, InitVal

VARIABLES
  tokens,    \* tokens free for anyone to take
  waiting,   \* threads that wait
  owed       \* tokens posted for the waiters and not handed over yet

vars == <<tokens, waiting, owed>>

Init == tokens = InitVal /\ waiting = {} /\ owed = 0

\* wait or trywait with a token available
Take ==
  /\ tokens > 0
  /\ tokens' = tokens - 1
  /\ UNCHANGED <<waiting, owed>>

\* wait with none
Enqueue(t) ==
  /\ tokens = 0
  /\ t \notin waiting
  /\ waiting' = waiting \cup {t}
  /\ UNCHANGED <<tokens, owed>>

\* post(n): waiters come first.  It fails if the value would exceed MaxVal, where
\* the value counts each waiter without an owed token as -1.
Post(n) ==
  LET open == Cardinality(waiting) - owed
      handed == IF n < open THEN n ELSE open
  IN  /\ tokens - open + n <= MaxVal
      /\ owed' = owed + handed
      /\ tokens' = tokens + n - handed
      /\ UNCHANGED waiting

\* One waiter gets a token.
Grant(t) ==
  /\ owed > 0
  /\ t \in waiting
  /\ waiting' = waiting \ {t}
  /\ owed' = owed - 1
  /\ UNCHANGED tokens

\* A waiter times out; it never takes an owed token with it.
GiveUp(t) ==
  /\ t \in waiting
  /\ owed < Cardinality(waiting)
  /\ waiting' = waiting \ {t}
  /\ UNCHANGED <<tokens, owed>>

Next ==
  \/ Take
  \/ \E n \in 1..(MaxVal + Cardinality(Thread)) : Post(n)
  \/ \E t \in Thread : Enqueue(t) \/ Grant(t) \/ GiveUp(t)

Spec == Init /\ [][Next]_vars
=============================================================================
