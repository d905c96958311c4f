---------------------------- MODULE SharedMutex ----------------------------
(***************************************************************************)
(* shared_mutex (Utilities/mutex.h, mutex.cpp): the reader-writer lock in  *)
(* one 32-bit word that guards the emulator's data, also every object of   *)
(* the LV2 kernel.                                                         *)
(*                                                                         *)
(* m_value counts the readers in its low bits, the writers, waiting ones   *)
(* included, in units of c_one, and holds a notification in c_sig.  Each   *)
(* step makes one atomic access to it.  A load followed by a compare-and-  *)
(* swap of the loaded value is one step, since it has no effect unless     *)
(* nothing changed in between; a loop that retries such a pair a bounded   *)
(* number of times may succeed at any state or go on to its last resort.   *)
(***************************************************************************)
EXTENDS Integers, FiniteSets

CONSTANTS
  Thread,   \* the host threads that use it
  c_one,    \* 1 << 14 in the code: one writer, max_readers = c_one - 1
  c_sig     \* 1 << 30 in the code: one notification; c_err is 2 * c_sig

ASSUME SharedMutexAssumption ==
  /\ IsFiniteSet(Thread)
  /\ c_one \in Nat /\ c_one > 1
  /\ c_sig \in Nat /\ c_sig % c_one = 0
  /\ c_one * (Cardinality(Thread) + 1) <= c_sig

VARIABLES
  m_value,
  pc,       \* where each thread is
  op,       \* the operation it is in
  old,      \* the value it is to wait for a change of
  seen,     \* lock_unlock's _max
  before    \* lock_unlock: threads that held the lock when it began and have not
            \* released it since (not in the code)

local == <<op, old, seen, before>>
vars == <<m_value, pc, local>>

\* pc is
\*   "idle"    not using the lock
\*   "read"    a reader
\*   "uspin"   a reader in lock_upgrade
\*   "own"     the writer
\*   "down"    the writer, about to become a reader
\*   "spin"    in the busy loop of lock, lock_shared or lock_unlock
\*   "wait"    counted as a writer, about to look for a notification
\*   "block"   it has found none
\*   "asleep"  it waits for m_value to change
\*   "sig"     has released the lock, about to leave a notification
\*   "wake"    about to wake a thread
\*   "synced"  lock_unlock is about to return
PC == {"idle", "read", "uspin", "own", "down", "spin", "wait", "block", "asleep",
       "sig", "wake", "synced"}

Op == {"none", "lock", "shared", "upgrade", "sync"}

\* The threads counted as writers, the readers, and the holders of the lock.
Writers == {t \in Thread : pc[t] \in {"own", "down", "wait", "block", "asleep"}}
Readers == {t \in Thread : pc[t] \in {"read", "uspin"}}
Holders == {t \in Thread : pc[t] \in {"own", "down", "read", "uspin"}}

TypeOK ==
  /\ m_value \in 0..(2 * c_sig - 1)
  /\ pc \in [Thread -> PC]
  /\ op \in [Thread -> Op]
  /\ old \in [Thread -> 0..(2 * c_sig - 1)]
  /\ seen \in [Thread -> 0..(2 * c_sig - 1)]
  /\ before \in [Thread -> SUBSET Thread]

Init ==
  /\ m_value = 0
  /\ pc = [t \in Thread |-> "idle"]
  /\ op = [t \in Thread |-> "none"]
  /\ old = [t \in Thread |-> 0]
  /\ seen = [t \in Thread |-> 0]
  /\ before = [t \in Thread |-> {}]

Goto(t, from, to) == pc[t] = from /\ pc' = [pc EXCEPT ![t] = to]

\* t no longer holds what it held.
Released(t) == before' = [u \in Thread |-> before[u] \ {t}]

-----------------------------------------------------------------------------
(***************************************************************************)
(* lock, try_lock                                                          *)
(***************************************************************************)
\* The attempt succeeds, at once or in imp_lock.
TryLock(t, from) ==
  /\ m_value = 0
  /\ Goto(t, from, "own")
  /\ m_value' = c_one

Lock(t) ==
  /\ op' = [op EXCEPT ![t] = "lock"]
  /\ \/ TryLock(t, "idle")
     \/ m_value # 0 /\ Goto(t, "idle", "spin") /\ UNCHANGED m_value
  /\ UNCHANGED <<old, seen, before>>

\* "Try to steal the notification bit"
Steal(t) ==
  /\ op[t] = "lock"
  /\ m_value >= c_sig
  /\ Goto(t, "spin", "own")
  /\ m_value' = m_value - c_sig + c_one
  /\ UNCHANGED local

SpinLock(t) == op[t] = "lock" /\ TryLock(t, "spin") /\ UNCHANGED local

\* fetch_add(c_one): the writer, or one more waiting for the lock
Queue(t) ==
  /\ Goto(t, "spin", IF m_value # 0 THEN "wait"
                     ELSE IF op[t] = "shared" THEN "down" ELSE "own")
  /\ m_value' = m_value + c_one
  /\ UNCHANGED local

\* imp_wait: take the notification, or wait for the value to change
Wait(t) ==
  /\ IF m_value >= c_sig
     THEN /\ Goto(t, "wait", IF op[t] = "shared" THEN "down" ELSE "own")
          /\ m_value' = m_value - c_sig
          /\ UNCHANGED old
     ELSE /\ Goto(t, "wait", "block")
          /\ old' = [old EXCEPT ![t] = m_value]
          /\ UNCHANGED m_value
  /\ UNCHANGED <<op, seen, before>>

\* m_value.wait(old) returns at once if the value is another.
Block(t) ==
  /\ Goto(t, "block", IF m_value = old[t] THEN "asleep" ELSE "wait")
  /\ old' = [old EXCEPT ![t] = 0]
  /\ UNCHANGED <<m_value, op, seen, before>>

(***************************************************************************)
(* unlock                                                                  *)
(***************************************************************************)
\* Mutant: unlock does not look for waiting writers.
UnlockSilently(t) ==
  /\ op[t] # "none"
  /\ Goto(t, "own", IF op[t] = "sync" THEN "synced" ELSE "idle")
  /\ m_value' = m_value - c_one
  /\ op' = [op EXCEPT ![t] = IF @ = "sync" THEN @ ELSE "none"]
  /\ Released(t)
  /\ UNCHANGED <<old, seen>>

\* fetch_sub(c_one); lock_unlock unlocks as soon as it has the lock
Unlock(t) ==
  /\ Goto(t, "own", IF m_value # c_one THEN "sig"
                    ELSE IF op[t] = "sync" THEN "synced" ELSE "idle")
  /\ m_value' = m_value - c_one
  /\ op' = [op EXCEPT ![t] = IF @ = "sync" THEN @ ELSE "none"]
  /\ Released(t)
  /\ UNCHANGED <<old, seen>>

\* imp_signal: m_value += c_sig, then notify_one
Signal(t) ==
  /\ Goto(t, "sig", "wake")
  /\ m_value' = m_value + c_sig
  /\ UNCHANGED local

Notify(t) ==
  LET next == IF op[t] = "sync" THEN "synced" ELSE "idle"
      asleep == {u \in Thread : pc[u] = "asleep"}
  IN  /\ pc[t] = "wake"
      /\ IF asleep = {}
         THEN pc' = [pc EXCEPT ![t] = next]
         ELSE \E u \in asleep : pc' = [pc EXCEPT ![t] = next, ![u] = "wait"]
      /\ UNCHANGED <<m_value, local>>

(***************************************************************************)
(* lock_shared, try_lock_shared, unlock_shared                             *)
(***************************************************************************)
\* Mutant: the limit is off by one.
TryLockSharedFull(t, from) ==
  /\ m_value < c_one
  /\ Goto(t, from, "read")
  /\ m_value' = m_value + 1

\* "Conditional increment"
TryLockShared(t, from) ==
  /\ m_value < c_one - 1
  /\ Goto(t, from, "read")
  /\ m_value' = m_value + 1

LockShared(t) ==
  /\ op' = [op EXCEPT ![t] = "shared"]
  /\ \/ TryLockShared(t, "idle")
     \/ m_value >= c_one - 1 /\ Goto(t, "idle", "spin") /\ UNCHANGED m_value
  /\ UNCHANGED <<old, seen, before>>

SpinShared(t) == op[t] = "shared" /\ TryLockShared(t, "spin") /\ UNCHANGED local

StealShared(t) ==
  /\ op[t] = "shared"
  /\ m_value >= c_sig
  /\ Goto(t, "spin", "read")
  /\ m_value' = m_value - c_sig + 1
  /\ UNCHANGED local

\* lock_downgrade, after imp_lock_shared has got the lock as a writer
Downgrade(t) ==
  /\ Goto(t, "down", "read")
  /\ m_value' = m_value - (c_one - 1)
  /\ UNCHANGED local

\* lock_downgrade by a writer
LockDowngrade(t) ==
  /\ op[t] # "sync"
  /\ Goto(t, "own", "read")
  /\ m_value' = m_value - (c_one - 1)
  /\ op' = [op EXCEPT ![t] = "shared"]
  /\ UNCHANGED <<old, seen, before>>

\* Mutant: any reader that leaves notifies.
UnlockSharedEager(t) ==
  /\ Goto(t, "read", IF m_value >= c_one THEN "sig" ELSE "idle")
  /\ m_value' = m_value - 1
  /\ op' = [op EXCEPT ![t] = "none"]
  /\ Released(t)
  /\ UNCHANGED <<old, seen>>

\* fetch_sub(1); "Check reader count, notify the writer if necessary"
UnlockShared(t) ==
  /\ Goto(t, "read", IF m_value >= c_one /\ (m_value - 1) % c_one = 0
                     THEN "sig" ELSE "idle")
  /\ m_value' = m_value - 1
  /\ op' = [op EXCEPT ![t] = "none"]
  /\ Released(t)
  /\ UNCHANGED <<old, seen>>

(***************************************************************************)
(* lock_upgrade                                                            *)
(***************************************************************************)
\* "try to convert a single reader into a writer, ignoring other writers"
TryLockUpgrade(t, from) ==
  /\ (m_value + c_one - 1) % c_one = 0
  /\ Goto(t, from, "own")
  /\ m_value' = m_value + c_one - 1
  /\ op' = [op EXCEPT ![t] = "upgrade"]
  /\ UNCHANGED <<old, seen, before>>

LockUpgrade(t) ==
  \/ TryLockUpgrade(t, "read")
  \/ /\ (m_value + c_one - 1) % c_one # 0
     /\ Goto(t, "read", "uspin")
     /\ UNCHANGED <<m_value, local>>

SpinUpgrade(t) == TryLockUpgrade(t, "uspin")

\* Mutant: the last reader to convert waits for a notification as well.
UpgradeWaits(t) ==
  /\ Goto(t, "uspin", "wait")
  /\ m_value' = m_value + c_one - 1
  /\ op' = [op EXCEPT ![t] = "upgrade"]
  /\ Released(t)
  /\ UNCHANGED <<old, seen>>

\* fetch_add(c_one - 1): the last reader is the writer; others wait, no longer readers
Upgrade(t) ==
  /\ IF m_value % c_one = 1
     THEN Goto(t, "uspin", "own") /\ UNCHANGED before
     ELSE Goto(t, "uspin", "wait") /\ Released(t)
  /\ m_value' = m_value + c_one - 1
  /\ op' = [op EXCEPT ![t] = "upgrade"]
  /\ UNCHANGED <<old, seen>>

(***************************************************************************)
(* lock_unlock                                                             *)
(***************************************************************************)
LockUnlock(t) ==
  /\ Goto(t, "idle", IF m_value = 0 THEN "synced" ELSE "spin")
  /\ op' = [op EXCEPT ![t] = "sync"]
  /\ seen' = [seen EXCEPT ![t] = 1]
  /\ before' = [before EXCEPT ![t] = Holders]
  /\ UNCHANGED <<m_value, old>>

\* Mutant: the current reading of the count is compared, not the last.
SyncSpinLoose(t) ==
  /\ op[t] = "sync"
  /\ IF m_value % c_one = 0 /\ (m_value \div c_one <= seen[t] \/ m_value >= c_sig)
     THEN Goto(t, "spin", "synced") /\ UNCHANGED seen
     ELSE /\ pc[t] = "spin" /\ UNCHANGED pc
          /\ seen' = [seen EXCEPT ![t] = m_value \div c_one]
  /\ UNCHANGED <<m_value, op, old, before>>

\* One round: "Mutex is free", "number of waiters decreased" or "Signal bit is set"
SyncSpin(t) ==
  /\ op[t] = "sync"
  /\ IF m_value % c_one = 0 /\ (m_value \div c_one < seen[t] \/ m_value >= c_sig)
     THEN Goto(t, "spin", "synced") /\ UNCHANGED seen
     ELSE /\ pc[t] = "spin" /\ UNCHANGED pc
          /\ seen' = [seen EXCEPT ![t] = m_value \div c_one]
  /\ UNCHANGED <<m_value, op, old, before>>

SyncReturn(t) ==
  /\ Goto(t, "synced", "idle")
  /\ op' = [op EXCEPT ![t] = "none"]
  /\ seen' = [seen EXCEPT ![t] = 0]
  /\ before' = [before EXCEPT ![t] = {}]
  /\ UNCHANGED <<m_value, old>>

-----------------------------------------------------------------------------
\* Steps towards getting or passing on the lock.
Step(t) ==
  \/ Steal(t) \/ SpinLock(t) \/ Queue(t) \/ Wait(t) \/ Block(t)
  \/ Signal(t) \/ Notify(t)
  \/ SpinShared(t) \/ StealShared(t) \/ Downgrade(t)
  \/ SpinUpgrade(t) \/ Upgrade(t)
  \/ SyncSpin(t) \/ SyncReturn(t)
  \/ op[t] = "sync" /\ Unlock(t)

\* Calls made by the threads.
Call(t) ==
  \/ Lock(t) \/ LockShared(t) \/ LockUnlock(t)
  \/ op[t] # "sync" /\ Unlock(t)
  \/ UnlockShared(t) \/ LockUpgrade(t) \/ LockDowngrade(t)

Next == \E t \in Thread : Step(t) \/ Call(t)

\* Every thread runs, and leaves its critical section in the end.  The busy loops
\* are bounded, so a thread in one goes on to its last resort.
Fairness ==
  \A t \in Thread :
    /\ WF_vars(Step(t))
    /\ WF_vars(Queue(t)) /\ WF_vars(Upgrade(t))
    /\ WF_vars(UnlockShared(t) \/ Unlock(t))

Spec == Init /\ [][Next]_vars /\ Fairness
-----------------------------------------------------------------------------
\* No thread holds the lock beside a writer (lock, lock_shared, lock_upgrade and
\* stolen notifications, mutex.cpp:5, 87, 137).
MutualExclusion ==
  \A t, u \in Thread : pc[t] \in {"own", "down"} /\ u \in Holders => u = t

\* The word counts the readers, the writers with those that wait, and at most one
\* notification; no sum carries into the next field and no difference borrows, so
\* the ensures against overflow and underflow hold (mutex.cpp:7, 41, 48, 89, 121, 127, 152).
Counted ==
  \E sig \in 0..1 :
    /\ m_value = sig * c_sig + c_one * Cardinality(Writers) + Cardinality(Readers)
    /\ Cardinality(Readers) < c_one

\* The lock is passed on: with writers waiting there is always a holder, a
\* notification in the word, or a thread about to leave one (mutex.cpp:51, 131).
PassedOn ==
  Writers # {} =>
    \/ Holders # {}
    \/ m_value >= c_sig
    \/ \E t \in Thread : pc[t] = "sig"

\* lock_unlock returns only after every thread that held the lock when it was called
\* has released it: the calls that use it to wait for the end of a critical section
\* are right to (sys_mutex.cpp:262, sys_cond.cpp:209; mutex.cpp:170).
LockUnlockWaits == \A t \in Thread : pc[t] = "synced" => before[t] = {}

\* A free lock with threads that wait for it is taken: the notification left for them
\* is not slept through (mutex.cpp:77, 84).
WaitersServed ==
  (Writers # {} /\ Holders = {}) ~> (Holders # {} \/ Writers = {})
=============================================================================
