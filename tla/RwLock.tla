------------------------------- MODULE RwLock -------------------------------
(***************************************************************************)
(* What sys_rwlock promises: many readers or one writer, handed over.      *)
(* Waiting writers come before waiting readers: no reader is let in while  *)
(* a writer waits, the last reader makes way for a writer, and the readers *)
(* that waited are let in together when no writer is left.                 *)
(***************************************************************************)
CONSTANTS Thread, NoThread

VARIABLES
  writer,           \* the thread that holds the lock for writing, or NoThread
  readers,          \* the threads that hold it for reading
  waitR, waitW      \* the threads that wait for it

vars == <<writer, readers, waitR, waitW>>

Init == writer = NoThread /\ readers = {} /\ waitR = {} /\ waitW = {}

Read(t) ==
  /\ writer = NoThread /\ waitW = {} /\ t \notin readers
  /\ readers' = readers \cup {t}
  /\ UNCHANGED <<writer, waitR, waitW>>

Write(t) ==
  /\ writer = NoThread /\ readers = {} /\ waitW = {}
  /\ writer' = t
  /\ UNCHANGED <<readers, waitR, waitW>>

WaitRead(t) ==
  /\ writer # NoThread \/ waitW # {}
  /\ t \notin waitR
  /\ waitR' = waitR \cup {t}
  /\ UNCHANGED <<writer, readers, waitW>>

WaitWrite(t) ==
  /\ writer # NoThread \/ readers # {}
  /\ t \notin waitW
  /\ waitW' = waitW \cup {t}
  /\ UNCHANGED <<writer, readers, waitR>>

\* The lock passes to a waiting writer.
ToWriter ==
  /\ writer' \in waitW
  /\ waitW' = waitW \ {writer'}
  /\ readers' = {}
  /\ UNCHANGED waitR

\* The waiting readers are let in beside those of r.
ToReaders(r) ==
  /\ writer' = NoThread
  /\ readers' = r \cup waitR
  /\ waitR' = {}

EndRead(t) ==
  /\ t \in readers
  /\ IF readers = {t} /\ waitW # {} THEN ToWriter
     ELSE readers' = readers \ {t} /\ UNCHANGED <<writer, waitR, waitW>>

EndWrite ==
  /\ writer # NoThread
  /\ IF waitW # {} THEN ToWriter ELSE ToReaders({}) /\ UNCHANGED waitW

\* A waiter times out.  The last writer to give up lets the readers in, if they did
\* not wait for the holder.
GiveUpRead(t) ==
  /\ t \in waitR
  /\ waitR' = waitR \ {t}
  /\ UNCHANGED <<writer, readers, waitW>>

GiveUpWrite(t) ==
  /\ t \in waitW
  /\ waitW' = waitW \ {t}
  /\ IF waitW = {t} /\ writer = NoThread THEN ToReaders(readers)
     ELSE UNCHANGED <<writer, readers, waitR>>

Next ==
  \/ \E t \in Thread : Read(t) \/ Write(t) \/ WaitRead(t) \/ WaitWrite(t)
  \/ \E t \in Thread : EndRead(t) \/ GiveUpRead(t) \/ GiveUpWrite(t)
  \/ EndWrite

Spec == Init /\ [][Next]_vars
=============================================================================
