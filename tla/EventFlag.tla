----------------------------- MODULE EventFlag -----------------------------
(***************************************************************************)
(* What sys_event_flag promises: a set of bits and threads that wait for   *)
(* some of them.  Setting bits is one atomic operation: the waiters are    *)
(* served one after the other, each from the bits the ones before it have  *)
(* left, until no waiter is satisfied.                                     *)
(***************************************************************************)
EXTENDS Integers, Sequences, FiniteSets

CONSTANTS
  Thread,
  Bit,
  Request       \* what a thread may wait for: records [bits, and, clear]

VARIABLES
  pattern,      \* the bits that are set
  waiting       \* the request of each thread that waits

vars == <<pattern, waiting>>

\* The request is satisfied by the bits p, and what it leaves of them.
Satisfied(p, a) == IF a.and THEN a.bits \subseteq p ELSE a.bits \cap p # {}
Cleared(p, a) == IF a.clear = "all" THEN {} ELSE IF a.clear = "bits" THEN p \ a.bits ELSE p

\* The flag is created with any bits set.
Init == pattern \in SUBSET Bit /\ waiting = [t \in {} |-> {}]

\* wait or trywait with the request satisfied
Take(a) ==
  /\ Satisfied(pattern, a)
  /\ pattern' = Cleared(pattern, a)
  /\ UNCHANGED waiting

\* wait otherwise
Enqueue(t, a) ==
  /\ ~Satisfied(pattern, a)
  /\ t \notin DOMAIN waiting
  /\ waiting' = [u \in DOMAIN waiting \cup {t} |-> IF u = t THEN a ELSE waiting[u]]
  /\ UNCHANGED pattern

\* The threads of granted are served in this order from the bits p.
Serves(granted, p) ==
  LET left[i \in 0..Len(granted)] ==
        IF i = 0 THEN p ELSE Cleared(left[i - 1], waiting[granted[i]])
  IN  /\ \A i \in 1..Len(granted) : Satisfied(left[i - 1], waiting[granted[i]])
      /\ pattern' = left[Len(granted)]

Set(b) ==
  \E n \in 0..Cardinality(DOMAIN waiting) :
    \E granted \in [1..n -> DOMAIN waiting] :
      LET rest == DOMAIN waiting \ {granted[i] : i \in 1..n}
      IN  /\ \A i, j \in 1..n : granted[i] = granted[j] => i = j
          /\ Serves(granted, pattern \cup b)
          /\ waiting' = [t \in rest |-> waiting[t]]
          /\ \A t \in rest : ~Satisfied(pattern', waiting[t])

Clear(b) == pattern' = pattern \cap b /\ UNCHANGED waiting

\* A waiter times out; all are cancelled.
GiveUp(t) ==
  /\ t \in DOMAIN waiting
  /\ waiting' = [u \in DOMAIN waiting \ {t} |-> waiting[u]]
  /\ UNCHANGED pattern

Cancel == waiting' = [t \in {} |-> {}] /\ UNCHANGED pattern

Next ==
  \/ \E a \in Request : Take(a)
  \/ \E t \in Thread : GiveUp(t) \/ \E a \in Request : Enqueue(t, a)
  \/ \E b \in SUBSET Bit : Set(b) \/ Clear(b)
  \/ Cancel

Spec == Init /\ [][Next]_vars
=============================================================================
