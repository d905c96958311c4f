------------------------- MODULE CellSyncRwmProofs -------------------------
(***************************************************************************)
(* Proofs about CellSyncRwm, for any number of threads and any contents,   *)
(* whether or not states are saved.                                        *)
(***************************************************************************)
EXTENDS CellSyncRwm, FiniteSetTheorems, TLAPS

\* The halves of a copy belong together.
Whole ==
  /\ \A t \in Thread :
       pc[t] \in {"w_spin"} \cup Draining \cup Writing => mem[t][1] = mem[t][2]
  /\ (\A t \in Thread : pc[t] # "w_2") => data[1] = data[2]
  /\ \A t \in Thread : pc[t] = "w_2" => data[1] = mem[t][1]
  /\ \A t \in Thread : pc[t] = "r_2" => mem[t][1] = data[1]
  /\ NoTornRead

Inv == RwmTypeOK /\ Counted /\ Whole

Readers == {t \in Thread : pc[t] \in Reading}

\* What a step from one place of the code to the next changes.
LEMMA Moved ==
  ASSUME RwmTypeOK, NEW t \in Thread, NEW from, NEW to \in RwmPC, Goto(t, from, to)
  PROVE  /\ pc[t] = from /\ pc'[t] = to /\ pc' \in [Thread -> RwmPC]
         /\ \A u \in Thread : u # t => pc'[u] = pc[u]
BY DEF RwmTypeOK, Goto

\* The readers are finitely many.
LEMMA ReadersFinite ==
  /\ IsFiniteSet(Readers) /\ Cardinality(Readers) \in Nat
  /\ Cardinality(Readers) = 0 <=> Readers = {}
<1>1. IsFiniteSet(Readers)
  <2>1. Readers \subseteq Thread
    BY DEF Readers
  <2> QED BY <2>1, ThreadAssumption, FS_Subset
<1> QED BY <1>1, FS_CardinalityType, FS_EmptySet

\* How a step changes the number of the readers.
LEMMA ReadersMoved ==
  ASSUME RwmTypeOK, NEW t \in Thread, NEW from, NEW to \in RwmPC, Goto(t, from, to)
  PROVE  /\ (from \in Reading <=> to \in Reading)
              => Cardinality(Readers') = Cardinality(Readers)
         /\ (from \notin Reading /\ to \in Reading)
              => Cardinality(Readers') = Cardinality(Readers) + 1
         /\ (from \in Reading /\ to \notin Reading)
              => /\ Cardinality(Readers') = Cardinality(Readers) - 1
                 /\ Cardinality(Readers) > 0
<1>0. /\ pc[t] = from /\ pc'[t] = to
      /\ \A u \in Thread : u # t => pc'[u] = pc[u]
  BY Moved
<1>1. CASE from \in Reading <=> to \in Reading
  <2>1. Readers' = Readers
    BY <1>0, <1>1 DEF Readers
  <2> QED BY <2>1, <1>1
<1>2. CASE from \notin Reading /\ to \in Reading
  <2>1. Readers' = Readers \cup {t} /\ t \notin Readers
    BY <1>0, <1>2 DEF Readers
  <2>2. Cardinality(Readers') = Cardinality(Readers) + 1
    BY SMTT(30), <2>1, ReadersFinite, FS_AddElement
  <2> QED BY <2>2, <1>2
<1>3. CASE from \in Reading /\ to \notin Reading
  <2>1. Readers' = Readers \ {t} /\ t \in Readers
    BY <1>0, <1>3 DEF Readers
  <2>2. Cardinality(Readers') = Cardinality(Readers) - 1
    BY SMTT(30), <2>1, ReadersFinite, FS_RemoveElement
  <2>3. Cardinality(Readers) > 0
    BY <2>1, ReadersFinite
  <2> QED BY <2>2, <2>3, <1>3
<1> QED BY <1>1, <1>2, <1>3

\* Who writes is alone.
LEMMA Alone ==
  ASSUME RwmTypeOK, Counted
  PROVE  /\ readers = Cardinality(Readers) /\ readers \in Nat
         /\ \A t, u \in Thread : pc[t] \in Writing => pc[u] \notin Reading
         /\ readers = 0 => \A u \in Thread : pc[u] \notin Reading
<1>1. readers = Cardinality(Readers) /\ readers \in Nat
  BY ReadersFinite DEF Counted, Readers
<1>2. readers = 0 => \A u \in Thread : pc[u] \notin Reading
  BY <1>1, ReadersFinite DEF Readers
<1> QED BY ZenonT(30), <1>1, <1>2 DEF Counted
\* A step that leaves the counters and comes no nearer to the buffer keeps the count.
LEMMA CountedKept ==
  ASSUME RwmTypeOK, Counted, NEW t \in Thread, NEW from, NEW to \in RwmPC, Goto(t, from, to),
         from \in Reading <=> to \in Reading,
         to \in Writing \cup Draining => from \in Writing \cup Draining,
         to \in Writing => from \in Writing,
         readers' = readers, writers' = writers
  PROVE  Counted'
<1>0. /\ pc[t] = from /\ pc'[t] = to
      /\ \A u \in Thread : u # t => pc'[u] = pc[u]
  BY Moved
<1>1. readers' = Cardinality(Readers')
  BY Alone, ReadersMoved
<1> QED BY <1>0, <1>1 DEF Counted, Readers

\* A step that copies nothing keeps the copies whole.
LEMMA WholeKept ==
  ASSUME RwmTypeOK, Whole, NEW t \in Thread, NEW from, NEW to \in RwmPC, Goto(t, from, to),
         to \notin {"w_2", "r_2", "r_end"}, from # "w_2",
         to \in {"w_spin"} \cup Draining \cup Writing
           => from \in {"w_spin"} \cup Draining \cup Writing,
         mem' = mem, data' = data
  PROVE  Whole'
<1>0. /\ pc[t] = from /\ pc'[t] = to
      /\ \A u \in Thread : u # t => pc'[u] = pc[u]
  BY Moved
<1>1. \A u \in Thread : pc'[u] \in {"w_2", "r_2", "r_end"} => pc'[u] = pc[u]
  BY <1>0
<1>2. (\A u \in Thread : pc'[u] # "w_2") => \A u \in Thread : pc[u] # "w_2"
  BY <1>0
<1>3. \A u \in Thread : pc'[u] \in {"w_spin"} \cup Draining \cup Writing
                          => pc[u] \in {"w_spin"} \cup Draining \cup Writing
  BY <1>0
<1> QED BY <1>1, <1>2, <1>3 DEF Whole, NoTornRead

\* A writer that begins has one value in its buffer.
LEMMA WholeFilled ==
  ASSUME RwmTypeOK, Whole, NEW t \in Thread, NEW to \in RwmPC, Goto(t, "out", to),
         to \in {"w_spin", "w_drain", "w_1"}, NEW v \in Value,
         mem' = [mem EXCEPT ![t] = [h \in 1..2 |-> v]], data' = data
  PROVE  Whole' /\ mem' \in [Thread -> [1..2 -> Value]]
<1>0. /\ pc[t] = "out" /\ pc'[t] = to
      /\ \A u \in Thread : u # t => pc'[u] = pc[u]
  BY Moved
<1>1. /\ mem'[t][1] = v /\ mem'[t][2] = v
      /\ \A u \in Thread : u # t => mem'[u] = mem[u]
      /\ mem' \in [Thread -> [1..2 -> Value]]
  BY DEF RwmTypeOK
<1>2. (\A u \in Thread : pc'[u] # "w_2") => \A u \in Thread : pc[u] # "w_2"
  BY <1>0
<1>3. \A u \in Thread : pc'[u] \in {"w_2", "r_2", "r_end"} => u # t
  BY <1>0
<1>4. \A u \in Thread :
        pc'[u] \in {"w_spin"} \cup Draining \cup Writing => mem'[u][1] = mem'[u][2]
  BY <1>0, <1>1 DEF Whole
<1> QED BY <1>0, <1>1, <1>2, <1>3, <1>4 DEF Whole, NoTornRead

\* A reader begins when there is no writer.
LEMMA ReadBegins ==
  ASSUME Inv, NEW t \in Thread, NEW from \in {"out", "r_spin"},
         Goto(t, from, "r_1"), try_read_begin, UNCHANGED <<data, mem, mode>>
  PROVE  Inv'
<1>0. RwmTypeOK /\ Counted /\ Whole
  BY DEF Inv
<1>1. "r_1" \in RwmPC /\ "r_1" \in Reading /\ from \notin Reading
  BY DEF RwmPC, Reading
<1>2. /\ pc[t] = from /\ pc'[t] = "r_1" /\ pc' \in [Thread -> RwmPC]
      /\ \A u \in Thread : u # t => pc'[u] = pc[u]
  BY <1>0, <1>1, Moved
<1>3. readers' = Cardinality(Readers')
  BY <1>0, <1>1, Alone, ReadersMoved DEF try_read_begin
<1>4. writers = 0 /\ writers' = 0 /\ readers' \in Nat
  BY <1>0 DEF try_read_begin, RwmTypeOK
<1>5. \A u \in Thread : pc'[u] \notin Writing \cup Draining
  BY <1>0, <1>2, <1>4 DEF Counted, Writing, Draining
<1>6. Counted'
  BY <1>3, <1>5 DEF Counted, Readers
<1>7. Whole'
  BY <1>0, <1>1, WholeKept DEF Writing, Draining
<1>8. RwmTypeOK'
  BY <1>0, <1>2, <1>4 DEF RwmTypeOK
<1> QED BY <1>6, <1>7, <1>8 DEF Inv

\* A reader copies one half and then the other, of a buffer that nobody writes.
LEMMA ReadCopies ==
  ASSUME Inv, NEW t \in Thread, NEW h \in 1..2, NEW from, NEW to,
         ReadCopy(t, h, from, to),
         \/ h = 1 /\ from = "r_1" /\ to = "r_2"
         \/ h = 2 /\ from = "r_2" /\ to = "r_end"
  PROVE  Inv'
<1>0. RwmTypeOK /\ Counted /\ Whole /\ Goto(t, from, to)
  BY DEF Inv, ReadCopy
<1>1. to \in RwmPC /\ to \in Reading /\ from \in Reading
  BY DEF RwmPC, Reading
<1>2. /\ pc[t] = from /\ pc'[t] = to /\ pc' \in [Thread -> RwmPC]
      /\ \A u \in Thread : u # t => pc'[u] = pc[u]
  BY <1>0, <1>1, Moved
<1>3. UNCHANGED <<readers, writers, data, mode>> /\ mem' = [mem EXCEPT ![t][h] = data[h]]
  BY DEF ReadCopy
<1>4. Counted'
  BY <1>0, <1>1, <1>3, CountedKept DEF Reading, Writing, Draining
<1>5. \A u \in Thread : pc[u] \notin Writing /\ pc'[u] \notin Writing
  BY <1>0, <1>1, <1>2, Alone DEF Writing
<1>6. data[1] = data[2]
  BY <1>0, <1>5 DEF Whole, Writing
<1>7. /\ mem' \in [Thread -> [1..2 -> Value]] /\ mem'[t][h] = data[h]
      /\ h = 2 => mem'[t][1] = mem[t][1]
      /\ \A u \in Thread : u # t => mem'[u] = mem[u]
  BY <1>0, <1>3 DEF RwmTypeOK
<1>8. Whole'
  <2>1. \A u \in Thread : pc'[u] = "r_2" => mem'[u][1] = data[1]
    BY <1>0, <1>1, <1>2, <1>7 DEF Whole
  <2>2. \A u \in Thread : pc'[u] = "r_end" => mem'[u][1] = mem'[u][2]
    BY <1>0, <1>1, <1>2, <1>6, <1>7 DEF Whole, NoTornRead
  <2>3. \A u \in Thread :
          pc'[u] \in {"w_spin"} \cup Draining \cup Writing => mem'[u][1] = mem'[u][2]
    BY <1>0, <1>1, <1>2, <1>7 DEF Whole, Draining, Writing
  <2>4. \A u \in Thread : pc'[u] # "w_2"
    BY <1>5 DEF Writing
  <2> QED BY SMTT(30), <1>3, <1>6, <2>1, <2>2, <2>3, <2>4 DEF Whole, NoTornRead
<1>9. RwmTypeOK'
  BY <1>0, <1>2, <1>3, <1>7 DEF RwmTypeOK
<1> QED BY <1>4, <1>8, <1>9 DEF Inv

\* A reader that ends is counted off.
LEMMA ReadEnds ==
  ASSUME Inv, NEW t \in Thread, ReadEnd(t)
  PROVE  Inv'
<1>0. RwmTypeOK /\ Counted /\ Whole /\ Goto(t, "r_end", "out")
  BY DEF Inv, ReadEnd
<1>1. "out" \in RwmPC /\ "out" \notin Reading /\ "r_end" \in Reading
  BY DEF RwmPC, Reading, Draining, Writing
<1>2. /\ pc[t] = "r_end" /\ pc'[t] = "out" /\ pc' \in [Thread -> RwmPC]
      /\ \A u \in Thread : u # t => pc'[u] = pc[u]
  BY <1>0, <1>1, Moved
<1>3. UNCHANGED <<writers, data, mem, mode>> /\ try_read_end
  BY DEF ReadEnd, try_read_end
<1>4. readers' = Cardinality(Readers') /\ readers' \in Nat
  BY <1>0, <1>1, <1>3, Alone, ReadersMoved DEF try_read_end
<1>5. \A u \in Thread : pc[u] \notin Writing
  BY <1>0, <1>1, <1>2, Alone
<1>6. Counted'
  BY <1>0, <1>2, <1>3, <1>4, <1>5 DEF Counted, Readers, Writing, Draining
<1>7. Whole'
  BY <1>0, <1>1, <1>3, WholeKept DEF Writing, Draining
<1>8. RwmTypeOK'
  BY <1>0, <1>2, <1>3, <1>4 DEF RwmTypeOK
<1> QED BY <1>6, <1>7, <1>8 DEF Inv

\* A writer that has found no other shuts the others out.
LEMMA Shuts ==
  ASSUME RwmTypeOK, Counted, NEW t \in Thread, NEW from \in {"out", "w_spin"},
         NEW to \in {"w_drain", "w_1"}, Goto(t, from, to),
         writers = 0, writers' = 1, readers' = readers, to = "w_1" => readers = 0
  PROVE  Counted'
<1>1. to \in RwmPC /\ to \notin Reading /\ from \notin Reading
  BY DEF RwmPC, Reading, Draining, Writing
<1>2. /\ pc[t] = from /\ pc'[t] = to
      /\ \A u \in Thread : u # t => pc'[u] = pc[u]
  BY <1>1, Moved
<1>3. readers' = Cardinality(Readers')
  BY <1>1, Alone, ReadersMoved
<1>4. \A u \in Thread : pc[u] \notin Writing \cup Draining
  BY DEF Counted
<1>5. \A u \in Thread : pc'[u] \in Writing \cup Draining => u = t
  BY <1>2, <1>4
<1>6. \A u \in Thread : pc'[u] \in Writing => readers' = 0
  BY <1>2, <1>4, <1>5 DEF Writing
<1> QED BY <1>3, <1>5, <1>6 DEF Counted, Readers

\* A writer copies one half and then the other, of a buffer that nobody reads.
LEMMA WriteCopies ==
  ASSUME Inv, NEW t \in Thread, NEW h \in 1..2, NEW from, NEW to,
         WriteCopy(t, h, from, to),
         \/ h = 1 /\ from = "w_1" /\ to = "w_2"
         \/ h = 2 /\ from = "w_2" /\ to = "w_end"
  PROVE  Inv'
<1>0. RwmTypeOK /\ Counted /\ Whole /\ Goto(t, from, to)
  BY DEF Inv, WriteCopy
<1>1. to \in RwmPC /\ to \in Writing /\ from \in Writing
  BY DEF RwmPC, Writing
<1>2. /\ pc[t] = from /\ pc'[t] = to /\ pc' \in [Thread -> RwmPC]
      /\ \A u \in Thread : u # t => pc'[u] = pc[u]
  BY <1>0, <1>1, Moved
<1>3. UNCHANGED <<readers, writers, mem, mode>> /\ data' = [data EXCEPT ![h] = mem[t][h]]
  BY DEF WriteCopy
<1>4. Counted'
  BY <1>0, <1>1, <1>3, CountedKept DEF Reading, Writing, Draining
<1>5. \A u \in Thread : /\ pc[u] \notin Reading /\ pc'[u] \notin Reading
                        /\ u # t => pc[u] \notin Writing /\ pc'[u] \notin Writing
  BY <1>0, <1>1, <1>2, Alone DEF Counted, Reading, Writing
<1>6. mem[t][1] = mem[t][2]
  BY <1>0, <1>1, <1>2 DEF Whole
<1>7. /\ data' \in [1..2 -> Value] /\ data'[h] = mem[t][h]
      /\ h = 2 => data'[1] = data[1]
  BY <1>0, <1>3 DEF RwmTypeOK
<1>8. Whole'
  <2>1. \A u \in Thread :
          pc'[u] \in {"w_spin"} \cup Draining \cup Writing => mem[u][1] = mem[u][2]
    BY <1>0, <1>2, <1>6 DEF Whole
  <2>2. (\A u \in Thread : pc'[u] # "w_2") => data'[1] = data'[2]
    BY <1>0, <1>2, <1>6, <1>7 DEF Whole
  <2>3. \A u \in Thread : pc'[u] = "w_2" => data'[1] = mem[u][1]
    BY <1>2, <1>5, <1>7 DEF Writing
  <2>4. \A u \in Thread : pc'[u] # "r_2" /\ pc'[u] # "r_end"
    BY <1>5 DEF Reading
  <2> QED BY <1>3, <2>1, <2>2, <2>3, <2>4 DEF Whole, NoTornRead
<1>9. RwmTypeOK'
  BY <1>0, <1>2, <1>3, <1>7 DEF RwmTypeOK
<1> QED BY <1>4, <1>8, <1>9 DEF Inv

\* A writer that ends finds no readers to forget.
LEMMA WriteEnds ==
  ASSUME Inv, NEW t \in Thread, WriteEnd(t)
  PROVE  Inv'
<1>0. RwmTypeOK /\ Counted /\ Whole /\ Goto(t, "w_end", "out")
  BY DEF Inv, WriteEnd
<1>1. /\ "out" \in RwmPC /\ "out" \notin Reading /\ "w_end" \notin Reading
      /\ "w_end" \in Writing
  BY DEF RwmPC, Reading, Draining, Writing
<1>2. /\ pc[t] = "w_end" /\ pc'[t] = "out" /\ pc' \in [Thread -> RwmPC]
      /\ \A u \in Thread : u # t => pc'[u] = pc[u]
  BY <1>0, <1>1, Moved
<1>3. UNCHANGED <<data, mem, mode>> /\ readers' = 0 /\ writers' = 0
  BY DEF WriteEnd
<1>4. readers = 0
  BY <1>0, <1>1, <1>2 DEF Counted
<1>5. readers' = Cardinality(Readers')
  BY <1>0, <1>1, <1>3, <1>4, Alone, ReadersMoved
<1>6. \A u \in Thread : pc'[u] \notin Writing \cup Draining
  BY <1>0, <1>1, <1>2 DEF Counted, Writing, Draining
<1>7. Counted'
  BY <1>5, <1>6 DEF Counted, Readers
<1>8. Whole'
  BY <1>0, <1>1, <1>3, WholeKept DEF Writing, Draining
<1>9. RwmTypeOK'
  BY <1>0, <1>2, <1>3 DEF RwmTypeOK
<1> QED BY <1>7, <1>8, <1>9 DEF Inv

\* A step that changes neither the counters nor the buffers.
LEMMA Idles ==
  ASSUME Inv, NEW t \in Thread, NEW from, NEW to, Goto(t, from, to),
         UNCHANGED <<readers, writers, data, mem, mode>>,
         \/ from = "out" /\ to = "r_spin"
         \/ from = "r_spin" /\ to = "out"
         \/ from = "w_drain" /\ to = "w_wait"
         \/ from = "w_spin" /\ to = "out"
         \/ from = "w_wait" /\ to = "out"
  PROVE  Inv'
<1>0. RwmTypeOK /\ Counted /\ Whole
  BY DEF Inv
<1>1. to \in RwmPC /\ pc' \in [Thread -> RwmPC]
  BY <1>0, Moved DEF RwmPC, Draining
<1>2. Counted'
  BY <1>0, <1>1, CountedKept DEF Reading, Writing, Draining
<1>3. Whole'
  BY <1>0, <1>1, WholeKept DEF Reading, Writing, Draining
<1> QED BY <1>0, <1>1, <1>2, <1>3 DEF Inv, RwmTypeOK

\* A writer begins, or waits for another.
LEMMA WriteBegins ==
  ASSUME Inv, NEW t \in Thread, NEW v \in Value,
         WriteBegin(t, v) \/ WriteSpin(t, v) \/ TryWrite(t, v)
  PROVE  Inv'
<1>0. RwmTypeOK /\ Counted /\ Whole
  BY DEF Inv
<1>1. {"w_spin", "w_drain", "w_1"} \subseteq RwmPC
  BY DEF RwmPC, Draining, Writing
<1>2. CASE WriteBegin(t, v)
  <2>1. /\ Goto(t, "out", "w_drain") /\ UNCHANGED <<readers, data, mode>>
        /\ writers = 0 /\ writers' = 1 /\ mem' = [mem EXCEPT ![t] = [h \in 1..2 |-> v]]
    BY <1>2 DEF WriteBegin, Call, try_write_begin
  <2>2. Counted'
    BY <1>0, <2>1, Shuts
  <2>3. Whole' /\ mem' \in [Thread -> [1..2 -> Value]] /\ pc' \in [Thread -> RwmPC]
    BY ZenonT(30), <1>0, <1>1, <2>1, WholeFilled, Moved
  <2> QED BY <1>0, <2>1, <2>2, <2>3 DEF Inv, RwmTypeOK
<1>3. CASE WriteSpin(t, v)
  <2>1. /\ Goto(t, "out", "w_spin") /\ UNCHANGED <<readers, writers, data, mode>>
        /\ mem' = [mem EXCEPT ![t] = [h \in 1..2 |-> v]]
    BY <1>3 DEF WriteSpin, Call
  <2>2. Counted'
    BY <1>0, <1>1, <2>1, CountedKept DEF Reading, Writing, Draining
  <2>3. Whole' /\ mem' \in [Thread -> [1..2 -> Value]] /\ pc' \in [Thread -> RwmPC]
    BY ZenonT(30), <1>0, <1>1, <2>1, WholeFilled, Moved
  <2> QED BY <1>0, <2>1, <2>2, <2>3 DEF Inv, RwmTypeOK
<1>4. CASE TryWrite(t, v)
  <2>1. /\ Goto(t, "out", "w_1") /\ UNCHANGED <<readers, data, mode>> /\ readers = 0
        /\ writers = 0 /\ writers' = 1 /\ mem' = [mem EXCEPT ![t] = [h \in 1..2 |-> v]]
    BY <1>4 DEF TryWrite, Call
  <2>2. Counted'
    BY <1>0, <2>1, Shuts
  <2>3. Whole' /\ mem' \in [Thread -> [1..2 -> Value]] /\ pc' \in [Thread -> RwmPC]
    BY ZenonT(30), <1>0, <1>1, <2>1, WholeFilled, Moved
  <2> QED BY <1>0, <2>1, <2>2, <2>3 DEF Inv, RwmTypeOK
<1> QED BY <1>2, <1>3, <1>4

\* A waiting writer shuts the others out, and waits until the readers have ended.
LEMMA WriteWaits ==
  ASSUME Inv, NEW t \in Thread, WriteRetry(t) \/ WriteDrained(t)
  PROVE  Inv'
<1>0. RwmTypeOK /\ Counted /\ Whole
  BY DEF Inv
<1>1. {"w_drain", "w_1"} \subseteq RwmPC
  BY DEF RwmPC, Draining, Writing
<1>2. CASE WriteRetry(t)
  <2>1. /\ Goto(t, "w_spin", "w_drain") /\ UNCHANGED <<readers, data, mem, mode>>
        /\ writers = 0 /\ writers' = 1
    BY <1>2 DEF WriteRetry, try_write_begin
  <2>2. Counted'
    BY <1>0, <2>1, Shuts
  <2>3. Whole' /\ pc' \in [Thread -> RwmPC]
    BY <1>0, <1>1, <2>1, WholeKept, Moved DEF Writing, Draining
  <2> QED BY <1>0, <2>1, <2>2, <2>3 DEF Inv, RwmTypeOK
<1>3. CASE WriteDrained(t)
  <2>1. PICK from \in {"w_drain", "w_wait"} : Goto(t, from, "w_1")
    BY <1>3 DEF WriteDrained
  <2>2. UNCHANGED <<readers, writers, data, mem, mode>> /\ readers = 0
    BY <1>3 DEF WriteDrained
  <2>3. /\ pc[t] = from /\ pc'[t] = "w_1" /\ pc' \in [Thread -> RwmPC]
        /\ \A u \in Thread : u # t => pc'[u] = pc[u]
    BY <1>0, <1>1, <2>1, Moved
  <2>4. readers' = Cardinality(Readers')
    BY <1>0, <1>1, <2>1, <2>2, Alone, ReadersMoved DEF Reading
  <2>5. \A u \in Thread : pc'[u] \in Writing \cup Draining => pc[u] \in Writing \cup Draining
    BY <2>1, <2>3 DEF Draining
  <2>6. Counted'
    BY ZenonT(30), <1>0, <2>2, <2>4, <2>5 DEF Counted, Readers
  <2>7. Whole'
    BY <1>0, <1>1, <2>1, <2>2, WholeKept DEF Writing, Draining
  <2> QED BY <1>0, <2>2, <2>3, <2>6, <2>7 DEF Inv, RwmTypeOK
<1> QED BY <1>2, <1>3

\* Nobody has begun.
LEMMA InitInv == RwmInit => Inv
<1> SUFFICES ASSUME RwmInit PROVE Inv
  OBVIOUS
<1>1. RwmTypeOK
  BY ThreadAssumption DEF RwmInit, ThreadInit, RwmTypeOK, RwmPC
<1>2. Readers = {}
  BY DEF RwmInit, ThreadInit, Readers, Reading
<1>3. readers = Cardinality(Readers)
  BY <1>2, FS_EmptySet DEF RwmInit
<1>4. \A t \in Thread : pc[t] \notin {"w_spin"} \cup Draining \cup Writing \cup Reading
  BY DEF RwmInit, ThreadInit, Draining, Writing, Reading
<1>5. Counted
  BY <1>3, <1>4 DEF Counted, Readers
<1>6. Whole
  BY <1>4 DEF Whole, NoTornRead, RwmInit, Reading, Writing
<1> QED BY <1>1, <1>5, <1>6 DEF Inv

\* The readers are counted and the writer is alone, and the copies are whole, in every
\* state, also when states are saved while threads spin (cellSyncRwmRead,
\* cellSyncRwmTryRead, cellSyncRwmWrite, cellSyncRwmTryWrite).
THEOREM Inductive == RwmSpec => []Inv
<1>1. Inv /\ [RwmNext]_rwmVars => Inv'
  <2> SUFFICES ASSUME Inv, [RwmNext]_rwmVars PROVE Inv'
    BY SMTT(30)
  <2>1. CASE UNCHANGED rwmVars
    BY SMTT(30), <2>1 DEF rwmVars, Inv, RwmTypeOK, Counted, Whole, NoTornRead
  <2>2. CASE (Stop \/ Load) /\ UNCHANGED <<readers, writers, data, mem>>
    BY ZenonT(30), <2>2 DEF Stop, Load, Inv, RwmTypeOK, Counted, Whole, NoTornRead
  <2>3. ASSUME NEW t \in Thread, Read(t) PROVE Inv'
    <3>1. CASE ReadBegin(t)
      BY <3>1, ReadBegins DEF ReadBegin, Call
    <3>2. CASE ReadSpin(t)
      BY <3>2, Idles DEF ReadSpin, Call
    <3>3. CASE ReadRetry(t)
      BY <3>3, ReadBegins DEF ReadRetry
    <3>4. CASE ReadStopped(t)
      BY <3>4, Idles DEF ReadStopped
    <3>5. CASE ReadCopy(t, 1, "r_1", "r_2") \/ ReadCopy(t, 2, "r_2", "r_end")
      BY <3>5, ReadCopies
    <3>6. CASE ReadEnd(t)
      BY <3>6, ReadEnds
    <3> QED BY <2>3, <3>1, <3>2, <3>3, <3>4, <3>5, <3>6 DEF Read
  <2>4. ASSUME NEW t \in Thread, Write(t) PROVE Inv'
    <3>1. CASE \E v \in Value : WriteBegin(t, v) \/ WriteSpin(t, v) \/ TryWrite(t, v)
      BY <3>1, WriteBegins
    <3>2. CASE WriteRetry(t) \/ WriteDrained(t)
      BY <3>2, WriteWaits
    <3>3. CASE WriteWait(t) \/ WriteStopped(t)
      BY <3>3, Idles DEF WriteWait, WriteStopped
    <3>4. CASE WriteCopy(t, 1, "w_1", "w_2") \/ WriteCopy(t, 2, "w_2", "w_end")
      BY <3>4, WriteCopies
    <3>5. CASE WriteEnd(t)
      BY <3>5, WriteEnds
    <3> QED BY <2>4, <3>1, <3>2, <3>3, <3>4, <3>5 DEF Write, WriteRest
  <2> QED BY <2>1, <2>2, <2>3, <2>4 DEF RwmNext
<1> QED BY <1>1, InitInv, PTL DEF RwmSpec

\* No reader gets the halves of two writes, the readers are counted, and the writer is
\* alone (CellSyncRwm::try_read_begin, try_read_end, try_write_begin; cellSyncRwmRead,
\* cellSyncRwmWrite).
THEOREM BufferAlwaysSound == RwmSpec => []BufferSound
<1>1. Inv => BufferSound
  BY DEF Inv, Whole, BufferSound
<1> QED BY <1>1, Inductive, PTL
=============================================================================
