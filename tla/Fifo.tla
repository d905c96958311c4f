-------------------------------- MODULE Fifo --------------------------------
(***************************************************************************)
(* What a bounded queue promises: values are taken in the order in which   *)
(* they were put, each once, and there are never more of them than fit,    *)
(* those included that are about to be put.                                *)
(***************************************************************************)
EXTENDS Naturals, Sequences, FiniteSets

CONSTANTS Thread, Value, NoValue, depth

VARIABLES
  queue,
  putting,    \* what each thread is about to put, or NoValue
  got         \* what each thread has taken and not seen yet, or NoValue

vars == <<queue, putting, got>>

Init ==
  /\ queue = <<>>
  /\ putting = [t \in Thread |-> NoValue]
  /\ got = [t \in Thread |-> NoValue]

\* There is room for one more.
Reserve(t, v) ==
  /\ putting[t] = NoValue
  /\ Len(queue) + Cardinality({u \in Thread : putting[u] # NoValue}) < depth
  /\ putting' = [putting EXCEPT ![t] = v]
  /\ UNCHANGED <<queue, got>>

Put(t) ==
  /\ putting[t] # NoValue
  /\ queue' = Append(queue, putting[t])
  /\ putting' = [putting EXCEPT ![t] = NoValue]
  /\ UNCHANGED got

Take(t) ==
  /\ queue # <<>> /\ got[t] = NoValue
  /\ got' = [got EXCEPT ![t] = Head(queue)]
  /\ queue' = Tail(queue)
  /\ UNCHANGED putting

Peek(t) ==
  /\ queue # <<>> /\ got[t] = NoValue
  /\ got' = [got EXCEPT ![t] = Head(queue)]
  /\ UNCHANGED <<queue, putting>>

See(t) ==
  /\ got[t] # NoValue
  /\ got' = [got EXCEPT ![t] = NoValue]
  /\ UNCHANGED <<queue, putting>>

Clear ==
  /\ queue' = <<>>
  /\ UNCHANGED <<putting, got>>

Next ==
  \/ Clear
  \/ \E t \in Thread : Put(t) \/ Take(t) \/ Peek(t) \/ See(t) \/ \E v \in Value : Reserve(t, v)

Spec == Init /\ [][Next]_vars
=============================================================================
