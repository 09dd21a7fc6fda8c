--------------------------- MODULE SharedMutexProofs ---------------------------
(***************************************************************************)
(* The reader-writer lock excludes, for every number of threads: the       *)
(* counters and the semaphores are tied to the number of threads at each   *)
(* place of the code, and the numbers leave a writer alone.                *)
(***************************************************************************)
EXTENDS SharedMutex, FiniteSetTheorems, TLAPS

(* How many threads are at a place.                                        *)
At(l)    == {t \in Threads : pc[t] = l}
Count(l) == Cardinality(At(l))

(* reader_count_ has been lowered and not yet raised again.                *)
LoweredPcs == {"announced", "draining", "writing"}
Lowered    == \E t \in Threads : pc[t] \in LoweredPcs

(* The readers a writer has still to wait for: those that read, those that *)
(* have a token and will, and those that have not yet said they are gone.  *)
Awaited == readerSem + Count("reading") + Count("leaving")

(* Nobody but the thread that has writer_mu_ is on the writer's path.      *)
MutexInv ==
    /\ writerMu = {t \in Threads : pc[t] \in WriterPcs}
    /\ \A t, u \in writerMu : t = u

(* reader_count_ counts the readers that read or wait to, and its sign     *)
(* shows whether a writer has lowered it.                                  *)
CountInv ==
    readerCount = Count("queued") + Count("reading") - (IF Lowered THEN MaxReaders ELSE 0)

(* Without a writer that is waiting or writing nothing is outstanding, and *)
(* every queued reader has its token.                                      *)
QuietInv ==
    ~Lowered =>
        /\ Count("leaving") = 0 /\ Count("posting") = 0
        /\ writerSem = 0 /\ readerWait = 0
        /\ (\A t \in Threads : pc[t] # "releasing") => readerSem = Count("queued")

ReleasingInv ==
    \A t \in Threads : pc[t] = "releasing" => readerSem = 0 /\ found = Count("queued")

(* reader_wait_ counts down from zero until the writer adds what it found. *)
AnnouncedInv ==
    \A t \in Threads : pc[t] = "announced" =>
        /\ found + readerWait = Awaited /\ readerWait <= 0
        /\ Count("posting") = 0 /\ writerSem = 0

(* The token for the writer is posted, or about to be, exactly when the    *)
(* last of the readers it awaits is gone.                                  *)
DrainingInv ==
    \A t \in Threads : pc[t] = "draining" =>
        /\ readerWait = Awaited
        /\ Count("posting") + writerSem = IF readerWait = 0 THEN 1 ELSE 0

WritingInv ==
    \A t \in Threads : pc[t] = "writing" =>
        Awaited = 0 /\ Count("posting") = 0 /\ writerSem = 0 /\ readerWait = 0

IInv == /\ TypeOK /\ MutexInv /\ CountInv /\ QuietInv
        /\ ReleasingInv /\ AnnouncedInv /\ DrainingInv /\ WritingInv

---------------------------------------------------------------------------
(* Counting.                                                               *)

LEMMA CountType ==
    ASSUME NEW l
    PROVE  /\ IsFiniteSet(At(l)) /\ Count(l) \in Nat
           /\ Count(l) = 0 <=> At(l) = {}
<1>1. IsFiniteSet(At(l))
  BY SharedMutexAssumption, FS_Subset DEF At
<1> QED
  BY <1>1, FS_CardinalityType, FS_EmptySet DEF Count

(* The readers that read or wait are fewer than kMaxReaders.               *)
LEMMA CountBound == Count("queued") + Count("reading") < MaxReaders
<1>1. At("queued") \cap At("reading") = {}
  BY DEF At
<1>2. At("queued") \cup At("reading") \subseteq Threads
  BY DEF At
<1>3. Cardinality(At("queued") \cup At("reading")) = Count("queued") + Count("reading")
  <2>1. /\ IsFiniteSet(At("queued")) /\ IsFiniteSet(At("reading"))
        /\ Count("queued") \in Nat /\ Count("reading") \in Nat
    BY CountType
  <2>2. Cardinality(At("queued") \cup At("reading")) =
          Cardinality(At("queued")) + Cardinality(At("reading")) - Cardinality({})
    BY <1>1, <2>1, FS_Union
  <2>3. Cardinality({}) = 0
    BY FS_EmptySet
  <2> QED
    BY <2>1, <2>2, <2>3 DEF Count
<1>4. Cardinality(At("queued") \cup At("reading")) <= Cardinality(Threads)
  BY <1>2, SharedMutexAssumption, FS_Subset
<1>5. Cardinality(Threads) \in Nat
  BY SharedMutexAssumption, FS_CardinalityType
<1> QED
  BY <1>3, <1>4, <1>5, CountType, SharedMutexAssumption

(* One thread goes from one place to another.                              *)
Gain(m, l, k) == (IF k = m THEN 1 ELSE 0) - (IF k = l THEN 1 ELSE 0)

LEMMA Shift ==
    ASSUME NEW t \in Threads, pc[t] # pc'[t], \A u \in Threads \ {t} : pc'[u] = pc[u],
           NEW k
    PROVE  Count(k)' = Count(k) + Gain(pc'[t], pc[t], k)
<1>1. IsFiniteSet(At(k)) /\ Count(k) \in Nat
  BY CountType
<1>2. CASE k = pc[t]
  <2>1. At(k)' = At(k) \ {t} /\ t \in At(k)
    BY <1>2 DEF At
  <2>2. Count(k)' = Count(k) - 1
    BY <1>1, <2>1, FS_RemoveElement DEF Count
  <2> QED
    BY <1>1, <1>2, <2>2 DEF Gain
<1>3. CASE k = pc'[t]
  <2>1. At(k)' = At(k) \cup {t} /\ t \notin At(k)
    BY <1>3 DEF At
  <2>2. Count(k)' = Count(k) + 1
    BY <1>1, <2>1, FS_AddElement DEF Count
  <2> QED
    BY <1>1, <1>3, <2>2 DEF Gain
<1>4. CASE k # pc[t] /\ k # pc'[t]
  <2>1. At(k)' = At(k)
    BY <1>4 DEF At
  <2>2. Count(k)' = Count(k)
    BY <2>1 DEF Count
  <2> QED
    BY <1>1, <1>4, <2>2 DEF Gain
<1> QED
  BY <1>2, <1>3, <1>4

LEMMA Moves ==
    ASSUME pc \in [Threads -> Pcs], NEW t \in Threads, NEW m \in Pcs, pc[t] # m, Goto(t, m)
    PROVE  /\ pc' \in [Threads -> Pcs]
           /\ pc'[t] = m /\ \A u \in Threads \ {t} : pc'[u] = pc[u]
           /\ Count("queued")'  = Count("queued")  + Gain(m, pc[t], "queued")
           /\ Count("reading")' = Count("reading") + Gain(m, pc[t], "reading")
           /\ Count("leaving")' = Count("leaving") + Gain(m, pc[t], "leaving")
           /\ Count("posting")' = Count("posting") + Gain(m, pc[t], "posting")
<1>1. pc' \in [Threads -> Pcs] /\ pc'[t] = m /\ \A u \in Threads \ {t} : pc'[u] = pc[u]
  BY DEF Goto
<1> QED
  BY <1>1, Shift

(* A reader's step leaves the writer where it is.                          *)
LEMMA ReaderMoves ==
    ASSUME IInv, NEW t \in Threads, NEW m \in Pcs \ WriterPcs, pc[t] # m, pc[t] \notin WriterPcs,
           Goto(t, m), UNCHANGED muVars
    PROVE  /\ MutexInv' /\ (Lowered' <=> Lowered)
           /\ \A u \in Threads : pc[u] \in WriterPcs \/ pc'[u] \in WriterPcs => pc'[u] = pc[u]
<1>1. pc'[t] = m /\ \A u \in Threads \ {t} : pc'[u] = pc[u]
  BY Moves DEF IInv, TypeOK
<1>2. \A u \in Threads : pc[u] \in WriterPcs \/ pc'[u] \in WriterPcs => pc'[u] = pc[u]
  BY <1>1
<1>3. MutexInv'
  BY <1>2 DEF IInv, MutexInv, muVars
<1>4. Lowered' <=> Lowered
  BY <1>2 DEF Lowered, LoweredPcs, WriterPcs
<1> QED
  BY <1>2, <1>3, <1>4

(* The numbers of an invariant state.                                      *)
LEMMA Numbers ==
    ASSUME IInv
    PROVE  /\ Count("queued") \in Nat /\ Count("reading") \in Nat
           /\ Count("leaving") \in Nat /\ Count("posting") \in Nat
           /\ readerCount \in Int /\ readerWait \in Int /\ found \in Nat
           /\ readerSem \in Nat /\ writerSem \in {0, 1}
           /\ MaxReaders \in Nat /\ Count("queued") + Count("reading") < MaxReaders
           /\ (readerCount < 0 <=> Lowered)
           /\ \A t \in Threads : /\ pc[t] = "queued"  => Count("queued") > 0
                                 /\ pc[t] = "reading" => Count("reading") > 0
                                 /\ pc[t] = "leaving" => Count("leaving") > 0
                                 /\ pc[t] = "posting" => Count("posting") > 0
<1>1. /\ Count("queued") \in Nat /\ Count("reading") \in Nat
      /\ Count("leaving") \in Nat /\ Count("posting") \in Nat
  BY CountType
<1>2. \A t \in Threads : t \in At(pc[t])
  BY DEF At
<1>3. \A t \in Threads : /\ pc[t] = "queued"  => Count("queued") > 0
                         /\ pc[t] = "reading" => Count("reading") > 0
                         /\ pc[t] = "leaving" => Count("leaving") > 0
                         /\ pc[t] = "posting" => Count("posting") > 0
  BY <1>1, <1>2, CountType
<1>4. MaxReaders \in Nat /\ Count("queued") + Count("reading") < MaxReaders
  BY CountBound, SharedMutexAssumption
<1>5. readerCount < 0 <=> Lowered
  BY <1>1, <1>4 DEF IInv, CountInv
<1> QED
  BY <1>1, <1>3, <1>4, <1>5 DEF IInv, TypeOK

---------------------------------------------------------------------------
LEMMA InitIInv == Init => IInv
<1> SUFFICES ASSUME Init
             PROVE  IInv
  OBVIOUS
<1>1. \A l \in Pcs \ {"idle"} : Count(l) = 0
  BY CountType DEF Init, At
<1>2. /\ Count("queued") = 0 /\ Count("reading") = 0
      /\ Count("leaving") = 0 /\ Count("posting") = 0
  BY <1>1 DEF Pcs, ReaderPcs
<1>3. TypeOK /\ MutexInv /\ ~Lowered
  BY DEF Init, TypeOK, MutexInv, Lowered, LoweredPcs, Pcs, WriterPcs
<1> QED
  BY <1>2, <1>3 DEF IInv, Init, CountInv, QuietInv, ReleasingInv, AnnouncedInv, DrainingInv,
                    WritingInv, Awaited

---------------------------------------------------------------------------
(* The readers.                                                            *)

(* What is left to show when a reader has moved: the numbers.              *)
LEMMA ReaderKeeps ==
    ASSUME IInv, NEW t \in Threads, NEW m \in Pcs \ WriterPcs, pc[t] # m, pc[t] \notin WriterPcs,
           Goto(t, m), UNCHANGED muVars,
           readerCount' \in Int, readerWait' \in Int, readerSem' \in Nat, writerSem' \in {0, 1},
           CountInv',
           ~Lowered => /\ Count("leaving")' = 0 /\ Count("posting")' = 0
                       /\ writerSem' = 0 /\ readerWait' = 0
                       /\ readerSem = Count("queued") => readerSem' = Count("queued")',
           (readerSem = 0 /\ ~Lowered => readerSem' = 0 /\ Count("queued")' = Count("queued")),
           (\A u \in Threads : pc[u] = "announced" =>
                /\ found + readerWait' = Awaited' /\ readerWait' <= 0
                /\ Count("posting")' = 0 /\ writerSem' = 0),
           (\A u \in Threads : pc[u] = "draining" =>
                /\ readerWait' = Awaited'
                /\ Count("posting")' + writerSem' = IF readerWait' = 0 THEN 1 ELSE 0),
           (\A u \in Threads : pc[u] = "writing" =>
                Awaited' = 0 /\ Count("posting")' = 0 /\ writerSem' = 0 /\ readerWait' = 0)
    PROVE  IInv'
<1>1. /\ MutexInv' /\ (Lowered' <=> Lowered)
      /\ \A u \in Threads : pc[u] \in WriterPcs \/ pc'[u] \in WriterPcs => pc'[u] = pc[u]
  BY ReaderMoves
<1>2. TypeOK'
  BY Moves DEF IInv, TypeOK, muVars
<1>3. \A u \in Threads : pc'[u] \in {"announced", "draining", "writing", "releasing"} => pc'[u] = pc[u]
  BY <1>1 DEF WriterPcs
<1>4. \A u \in Threads : pc[u] = "releasing" => pc'[u] = "releasing"
  BY <1>1 DEF WriterPcs
<1>5. \A u \in Threads : pc[u] = "releasing" => ~Lowered
  <2>1. ASSUME NEW u \in Threads, pc[u] = "releasing", NEW w \in Threads, pc[w] \in LoweredPcs
        PROVE  FALSE
    BY <2>1 DEF IInv, MutexInv, WriterPcs, LoweredPcs
  <2> QED
    BY <2>1 DEF Lowered
<1>6. QuietInv'
  BY <1>1, <1>4 DEF IInv, QuietInv
<1>7. ReleasingInv'
  BY <1>3, <1>5 DEF IInv, ReleasingInv, muVars
<1>8. AnnouncedInv' /\ DrainingInv' /\ WritingInv'
  BY <1>3 DEF AnnouncedInv, DrainingInv, WritingInv, muVars
<1> QED
  BY <1>1, <1>2, <1>6, <1>7, <1>8 DEF IInv

LEMMA LockSharedIInv == ASSUME IInv, NEW t \in Threads, LockShared(t) PROVE IInv'
<1> DEFINE m == IF readerCount < 0 THEN "queued" ELSE "reading"
<1>1. /\ pc[t] = "idle" /\ m \in Pcs \ WriterPcs /\ pc[t] # m /\ pc[t] \notin WriterPcs
      /\ Goto(t, m) /\ UNCHANGED muVars
  BY DEF LockShared, Pcs, ReaderPcs, WriterPcs
<1>2. /\ Count("queued")'  = Count("queued")  + Gain(m, "idle", "queued")
      /\ Count("reading")' = Count("reading") + Gain(m, "idle", "reading")
      /\ Count("leaving")' = Count("leaving") + Gain(m, "idle", "leaving")
      /\ Count("posting")' = Count("posting") + Gain(m, "idle", "posting")
  BY <1>1, Moves DEF IInv, TypeOK
<1>3. Lowered' <=> Lowered
  BY <1>1, ReaderMoves
<1>4. /\ AnnouncedInv /\ DrainingInv /\ WritingInv /\ QuietInv /\ CountInv
      /\ \A u \in Threads : pc[u] \in LoweredPcs => Lowered
  BY DEF IInv, Lowered
<1>5. \A u \in Threads : pc[u] \in {"announced", "draining", "writing"} => Lowered
  BY <1>4 DEF LoweredPcs
<1>6. CountInv' /\ readerCount' \in Int /\ readerWait' \in Int /\ readerSem' \in Nat
  BY <1>1, <1>2, <1>3, <1>4, Numbers DEF LockShared, CountInv, Gain, countVars, semVars
<1>7. ~Lowered => /\ Count("leaving")' = 0 /\ Count("posting")' = 0
                  /\ writerSem' = 0 /\ readerWait' = 0
                  /\ readerSem = Count("queued") => readerSem' = Count("queued")'
  BY <1>1, <1>2, <1>4, Numbers DEF LockShared, QuietInv, Gain, countVars, semVars
<1>8. readerSem = 0 /\ ~Lowered => readerSem' = 0 /\ Count("queued")' = Count("queued")
  BY <1>1, <1>2, <1>4, Numbers DEF LockShared, QuietInv, Gain, countVars, semVars
<1>9. ASSUME NEW u \in Threads, pc[u] = "announced"
      PROVE  /\ found + readerWait' = Awaited' /\ readerWait' <= 0
             /\ Count("posting")' = 0 /\ writerSem' = 0
  BY <1>1, <1>2, <1>4, <1>5, <1>9, Numbers DEF LockShared, AnnouncedInv, Awaited, Gain, countVars, semVars
<1>10. ASSUME NEW u \in Threads, pc[u] = "draining"
       PROVE  /\ readerWait' = Awaited'
              /\ Count("posting")' + writerSem' = IF readerWait' = 0 THEN 1 ELSE 0
  BY <1>1, <1>2, <1>4, <1>5, <1>10, Numbers DEF LockShared, DrainingInv, Awaited, Gain, countVars, semVars
<1>11. ASSUME NEW u \in Threads, pc[u] = "writing"
       PROVE  Awaited' = 0 /\ Count("posting")' = 0 /\ writerSem' = 0 /\ readerWait' = 0
  BY <1>1, <1>2, <1>4, <1>5, <1>11, Numbers DEF LockShared, WritingInv, Awaited, Gain, countVars, semVars
<1>12. writerSem' \in {0, 1}
  BY <1>1, <1>4, Numbers DEF LockShared, countVars, semVars
<1> QED
  BY <1>1, <1>6, <1>7, <1>8, <1>9, <1>10, <1>11, <1>12, ReaderKeeps

LEMMA AcquireReaderSemIInv == ASSUME IInv, NEW t \in Threads, AcquireReaderSem(t) PROVE IInv'
<1> DEFINE m == "reading"
<1>1. /\ pc[t] = "queued" /\ m \in Pcs \ WriterPcs /\ pc[t] # m /\ pc[t] \notin WriterPcs
      /\ Goto(t, m) /\ UNCHANGED muVars
  BY DEF AcquireReaderSem, Pcs, ReaderPcs, WriterPcs
<1>2. /\ Count("queued")'  = Count("queued")  + Gain(m, "queued", "queued")
      /\ Count("reading")' = Count("reading") + Gain(m, "queued", "reading")
      /\ Count("leaving")' = Count("leaving") + Gain(m, "queued", "leaving")
      /\ Count("posting")' = Count("posting") + Gain(m, "queued", "posting")
  BY <1>1, Moves DEF IInv, TypeOK
<1>3. Lowered' <=> Lowered
  BY <1>1, ReaderMoves
<1>4. /\ AnnouncedInv /\ DrainingInv /\ WritingInv /\ QuietInv /\ CountInv
      /\ \A u \in Threads : pc[u] \in LoweredPcs => Lowered
  BY DEF IInv, Lowered
<1>5. \A u \in Threads : pc[u] \in {"announced", "draining", "writing"} => Lowered
  BY <1>4 DEF LoweredPcs
<1>6. CountInv' /\ readerCount' \in Int /\ readerWait' \in Int /\ readerSem' \in Nat
  BY <1>1, <1>2, <1>3, <1>4, Numbers DEF AcquireReaderSem, CountInv, Gain, countVars, semVars
<1>7. ~Lowered => /\ Count("leaving")' = 0 /\ Count("posting")' = 0
                  /\ writerSem' = 0 /\ readerWait' = 0
                  /\ readerSem = Count("queued") => readerSem' = Count("queued")'
  BY <1>1, <1>2, <1>4, Numbers DEF AcquireReaderSem, QuietInv, Gain, countVars, semVars
<1>8. readerSem = 0 /\ ~Lowered => readerSem' = 0 /\ Count("queued")' = Count("queued")
  BY <1>1, <1>2, <1>4, Numbers DEF AcquireReaderSem, QuietInv, Gain, countVars, semVars
<1>9. ASSUME NEW u \in Threads, pc[u] = "announced"
      PROVE  /\ found + readerWait' = Awaited' /\ readerWait' <= 0
             /\ Count("posting")' = 0 /\ writerSem' = 0
  BY <1>1, <1>2, <1>4, <1>5, <1>9, Numbers DEF AcquireReaderSem, AnnouncedInv, Awaited, Gain, countVars, semVars
<1>10. ASSUME NEW u \in Threads, pc[u] = "draining"
       PROVE  /\ readerWait' = Awaited'
              /\ Count("posting")' + writerSem' = IF readerWait' = 0 THEN 1 ELSE 0
  BY <1>1, <1>2, <1>4, <1>5, <1>10, Numbers DEF AcquireReaderSem, DrainingInv, Awaited, Gain, countVars, semVars
<1>11. ASSUME NEW u \in Threads, pc[u] = "writing"
       PROVE  Awaited' = 0 /\ Count("posting")' = 0 /\ writerSem' = 0 /\ readerWait' = 0
  BY <1>1, <1>2, <1>4, <1>5, <1>11, Numbers DEF AcquireReaderSem, WritingInv, Awaited, Gain, countVars, semVars
<1>12. writerSem' \in {0, 1}
  BY <1>1, <1>4, Numbers DEF AcquireReaderSem, countVars, semVars
<1> QED
  BY <1>1, <1>6, <1>7, <1>8, <1>9, <1>10, <1>11, <1>12, ReaderKeeps

LEMMA TryLockSharedIInv == ASSUME IInv, NEW t \in Threads, TryLockShared(t) PROVE IInv'
<1> DEFINE m == "reading"
<1>1. /\ pc[t] = "idle" /\ m \in Pcs \ WriterPcs /\ pc[t] # m /\ pc[t] \notin WriterPcs
      /\ Goto(t, m) /\ UNCHANGED muVars
  BY DEF TryLockShared, Pcs, ReaderPcs, WriterPcs
<1>2. /\ Count("queued")'  = Count("queued")  + Gain(m, "idle", "queued")
      /\ Count("reading")' = Count("reading") + Gain(m, "idle", "reading")
      /\ Count("leaving")' = Count("leaving") + Gain(m, "idle", "leaving")
      /\ Count("posting")' = Count("posting") + Gain(m, "idle", "posting")
  BY <1>1, Moves DEF IInv, TypeOK
<1>3. Lowered' <=> Lowered
  BY <1>1, ReaderMoves
<1>4. /\ AnnouncedInv /\ DrainingInv /\ WritingInv /\ QuietInv /\ CountInv
      /\ \A u \in Threads : pc[u] \in LoweredPcs => Lowered
  BY DEF IInv, Lowered
<1>5. \A u \in Threads : pc[u] \in {"announced", "draining", "writing"} => Lowered
  BY <1>4 DEF LoweredPcs
<1>6. CountInv' /\ readerCount' \in Int /\ readerWait' \in Int /\ readerSem' \in Nat
  BY <1>1, <1>2, <1>3, <1>4, Numbers DEF TryLockShared, CountInv, Gain, countVars, semVars
<1>7. ~Lowered => /\ Count("leaving")' = 0 /\ Count("posting")' = 0
                  /\ writerSem' = 0 /\ readerWait' = 0
                  /\ readerSem = Count("queued") => readerSem' = Count("queued")'
  BY <1>1, <1>2, <1>4, Numbers DEF TryLockShared, QuietInv, Gain, countVars, semVars
<1>8. readerSem = 0 /\ ~Lowered => readerSem' = 0 /\ Count("queued")' = Count("queued")
  BY <1>1, <1>2, <1>4, Numbers DEF TryLockShared, QuietInv, Gain, countVars, semVars
<1>9. ASSUME NEW u \in Threads, pc[u] = "announced"
      PROVE  /\ found + readerWait' = Awaited' /\ readerWait' <= 0
             /\ Count("posting")' = 0 /\ writerSem' = 0
  BY <1>1, <1>2, <1>4, <1>5, <1>9, Numbers DEF TryLockShared, AnnouncedInv, Awaited, Gain, countVars, semVars
<1>10. ASSUME NEW u \in Threads, pc[u] = "draining"
       PROVE  /\ readerWait' = Awaited'
              /\ Count("posting")' + writerSem' = IF readerWait' = 0 THEN 1 ELSE 0
  BY <1>1, <1>2, <1>4, <1>5, <1>10, Numbers DEF TryLockShared, DrainingInv, Awaited, Gain, countVars, semVars
<1>11. ASSUME NEW u \in Threads, pc[u] = "writing"
       PROVE  Awaited' = 0 /\ Count("posting")' = 0 /\ writerSem' = 0 /\ readerWait' = 0
  BY <1>1, <1>2, <1>4, <1>5, <1>11, Numbers DEF TryLockShared, WritingInv, Awaited, Gain, countVars, semVars
<1>12. writerSem' \in {0, 1}
  BY <1>1, <1>4, Numbers DEF TryLockShared, countVars, semVars
<1> QED
  BY <1>1, <1>6, <1>7, <1>8, <1>9, <1>10, <1>11, <1>12, ReaderKeeps

LEMMA UnlockSharedIInv == ASSUME IInv, NEW t \in Threads, UnlockShared(t) PROVE IInv'
<1> DEFINE m == IF readerCount < 0 THEN "leaving" ELSE "idle"
<1>1. /\ pc[t] = "reading" /\ m \in Pcs \ WriterPcs /\ pc[t] # m /\ pc[t] \notin WriterPcs
      /\ Goto(t, m) /\ UNCHANGED muVars
  BY DEF UnlockShared, Pcs, ReaderPcs, WriterPcs
<1>2. /\ Count("queued")'  = Count("queued")  + Gain(m, "reading", "queued")
      /\ Count("reading")' = Count("reading") + Gain(m, "reading", "reading")
      /\ Count("leaving")' = Count("leaving") + Gain(m, "reading", "leaving")
      /\ Count("posting")' = Count("posting") + Gain(m, "reading", "posting")
  BY <1>1, Moves DEF IInv, TypeOK
<1>3. Lowered' <=> Lowered
  BY <1>1, ReaderMoves
<1>4. /\ AnnouncedInv /\ DrainingInv /\ WritingInv /\ QuietInv /\ CountInv
      /\ \A u \in Threads : pc[u] \in LoweredPcs => Lowered
  BY DEF IInv, Lowered
<1>5. \A u \in Threads : pc[u] \in {"announced", "draining", "writing"} => Lowered
  BY <1>4 DEF LoweredPcs
<1>6. CountInv' /\ readerCount' \in Int /\ readerWait' \in Int /\ readerSem' \in Nat
  BY <1>1, <1>2, <1>3, <1>4, Numbers DEF UnlockShared, CountInv, Gain, countVars, semVars
<1>7. ~Lowered => /\ Count("leaving")' = 0 /\ Count("posting")' = 0
                  /\ writerSem' = 0 /\ readerWait' = 0
                  /\ readerSem = Count("queued") => readerSem' = Count("queued")'
  BY <1>1, <1>2, <1>4, Numbers DEF UnlockShared, QuietInv, Gain, countVars, semVars
<1>8. readerSem = 0 /\ ~Lowered => readerSem' = 0 /\ Count("queued")' = Count("queued")
  BY <1>1, <1>2, <1>4, Numbers DEF UnlockShared, QuietInv, Gain, countVars, semVars
<1>9. ASSUME NEW u \in Threads, pc[u] = "announced"
      PROVE  /\ found + readerWait' = Awaited' /\ readerWait' <= 0
             /\ Count("posting")' = 0 /\ writerSem' = 0
  BY <1>1, <1>2, <1>4, <1>5, <1>9, Numbers DEF UnlockShared, AnnouncedInv, Awaited, Gain, countVars, semVars
<1>10. ASSUME NEW u \in Threads, pc[u] = "draining"
       PROVE  /\ readerWait' = Awaited'
              /\ Count("posting")' + writerSem' = IF readerWait' = 0 THEN 1 ELSE 0
  BY <1>1, <1>2, <1>4, <1>5, <1>10, Numbers DEF UnlockShared, DrainingInv, Awaited, Gain, countVars, semVars
<1>11. ASSUME NEW u \in Threads, pc[u] = "writing"
       PROVE  Awaited' = 0 /\ Count("posting")' = 0 /\ writerSem' = 0 /\ readerWait' = 0
  BY <1>1, <1>2, <1>4, <1>5, <1>11, Numbers DEF UnlockShared, WritingInv, Awaited, Gain, countVars, semVars
<1>12. writerSem' \in {0, 1}
  BY <1>1, <1>4, Numbers DEF UnlockShared, countVars, semVars
<1> QED
  BY <1>1, <1>6, <1>7, <1>8, <1>9, <1>10, <1>11, <1>12, ReaderKeeps

LEMMA LeaveWriterIInv == ASSUME IInv, NEW t \in Threads, LeaveWriter(t) PROVE IInv'
<1> DEFINE m == IF readerWait = 1 THEN "posting" ELSE "idle"
<1>1. /\ pc[t] = "leaving" /\ m \in Pcs \ WriterPcs /\ pc[t] # m /\ pc[t] \notin WriterPcs
      /\ Goto(t, m) /\ UNCHANGED muVars
  BY DEF LeaveWriter, Pcs, ReaderPcs, WriterPcs
<1>2. /\ Count("queued")'  = Count("queued")  + Gain(m, "leaving", "queued")
      /\ Count("reading")' = Count("reading") + Gain(m, "leaving", "reading")
      /\ Count("leaving")' = Count("leaving") + Gain(m, "leaving", "leaving")
      /\ Count("posting")' = Count("posting") + Gain(m, "leaving", "posting")
  BY <1>1, Moves DEF IInv, TypeOK
<1>3. Lowered' <=> Lowered
  BY <1>1, ReaderMoves
<1>4. /\ AnnouncedInv /\ DrainingInv /\ WritingInv /\ QuietInv /\ CountInv
      /\ \A u \in Threads : pc[u] \in LoweredPcs => Lowered
  BY DEF IInv, Lowered
<1>5. \A u \in Threads : pc[u] \in {"announced", "draining", "writing"} => Lowered
  BY <1>4 DEF LoweredPcs
<1>6. CountInv' /\ readerCount' \in Int /\ readerWait' \in Int /\ readerSem' \in Nat
  BY <1>1, <1>2, <1>3, <1>4, Numbers DEF LeaveWriter, CountInv, Gain, countVars, semVars
<1>7. ~Lowered => /\ Count("leaving")' = 0 /\ Count("posting")' = 0
                  /\ writerSem' = 0 /\ readerWait' = 0
                  /\ readerSem = Count("queued") => readerSem' = Count("queued")'
  BY <1>1, <1>2, <1>4, Numbers DEF LeaveWriter, QuietInv, Gain, countVars, semVars
<1>8. readerSem = 0 /\ ~Lowered => readerSem' = 0 /\ Count("queued")' = Count("queued")
  BY <1>1, <1>2, <1>4, Numbers DEF LeaveWriter, QuietInv, Gain, countVars, semVars
<1>9. ASSUME NEW u \in Threads, pc[u] = "announced"
      PROVE  /\ found + readerWait' = Awaited' /\ readerWait' <= 0
             /\ Count("posting")' = 0 /\ writerSem' = 0
  BY <1>1, <1>2, <1>4, <1>5, <1>9, Numbers DEF LeaveWriter, AnnouncedInv, Awaited, Gain, countVars, semVars
<1>10. ASSUME NEW u \in Threads, pc[u] = "draining"
       PROVE  /\ readerWait' = Awaited'
              /\ Count("posting")' + writerSem' = IF readerWait' = 0 THEN 1 ELSE 0
  <2>1. readerWait = Awaited /\ readerWait >= 1 /\ Count("posting") = 0 /\ writerSem = 0
    BY <1>1, <1>4, <1>10, Numbers DEF DrainingInv, Awaited
  <2>2. readerWait' = readerWait - 1 /\ UNCHANGED semVars
    BY DEF LeaveWriter
  <2>3. Awaited' = Awaited - 1
    BY <1>1, <1>2, <2>2, Numbers DEF Awaited, Gain, semVars
  <2>4. Count("posting")' = IF readerWait = 1 THEN 1 ELSE 0
    BY <1>2, <2>1 DEF Gain
  <2> QED
    BY <2>1, <2>2, <2>3, <2>4, Numbers DEF semVars
<1>11. ASSUME NEW u \in Threads, pc[u] = "writing"
       PROVE  Awaited' = 0 /\ Count("posting")' = 0 /\ writerSem' = 0 /\ readerWait' = 0
  BY <1>1, <1>2, <1>4, <1>5, <1>11, Numbers DEF LeaveWriter, WritingInv, Awaited, Gain, countVars, semVars
<1>12. writerSem' \in {0, 1}
  BY <1>1, <1>4, Numbers DEF LeaveWriter, countVars, semVars
<1> QED
  BY <1>1, <1>6, <1>7, <1>8, <1>9, <1>10, <1>11, <1>12, ReaderKeeps

LEMMA PostWriterSemIInv == ASSUME IInv, NEW t \in Threads, PostWriterSem(t) PROVE IInv'
<1> DEFINE m == "idle"
<1>1. /\ pc[t] = "posting" /\ m \in Pcs \ WriterPcs /\ pc[t] # m /\ pc[t] \notin WriterPcs
      /\ Goto(t, m) /\ UNCHANGED muVars
  BY DEF PostWriterSem, Pcs, ReaderPcs, WriterPcs
<1>2. /\ Count("queued")'  = Count("queued")  + Gain(m, "posting", "queued")
      /\ Count("reading")' = Count("reading") + Gain(m, "posting", "reading")
      /\ Count("leaving")' = Count("leaving") + Gain(m, "posting", "leaving")
      /\ Count("posting")' = Count("posting") + Gain(m, "posting", "posting")
  BY <1>1, Moves DEF IInv, TypeOK
<1>3. Lowered' <=> Lowered
  BY <1>1, ReaderMoves
<1>4. /\ AnnouncedInv /\ DrainingInv /\ WritingInv /\ QuietInv /\ CountInv
      /\ \A u \in Threads : pc[u] \in LoweredPcs => Lowered
  BY DEF IInv, Lowered
<1>5. \A u \in Threads : pc[u] \in {"announced", "draining", "writing"} => Lowered
  BY <1>4 DEF LoweredPcs
<1>6. CountInv' /\ readerCount' \in Int /\ readerWait' \in Int /\ readerSem' \in Nat
  BY <1>1, <1>2, <1>3, <1>4, Numbers DEF PostWriterSem, CountInv, Gain, countVars, semVars
<1>7. ~Lowered => /\ Count("leaving")' = 0 /\ Count("posting")' = 0
                  /\ writerSem' = 0 /\ readerWait' = 0
                  /\ readerSem = Count("queued") => readerSem' = Count("queued")'
  BY <1>1, <1>2, <1>4, Numbers DEF PostWriterSem, QuietInv, Gain, countVars, semVars
<1>8. readerSem = 0 /\ ~Lowered => readerSem' = 0 /\ Count("queued")' = Count("queued")
  BY <1>1, <1>2, <1>4, Numbers DEF PostWriterSem, QuietInv, Gain, countVars, semVars
<1>9. ASSUME NEW u \in Threads, pc[u] = "announced"
      PROVE  /\ found + readerWait' = Awaited' /\ readerWait' <= 0
             /\ Count("posting")' = 0 /\ writerSem' = 0
  BY <1>1, <1>2, <1>4, <1>5, <1>9, Numbers DEF PostWriterSem, AnnouncedInv, Awaited, Gain, countVars, semVars
<1>10. ASSUME NEW u \in Threads, pc[u] = "draining"
       PROVE  /\ readerWait' = Awaited'
              /\ Count("posting")' + writerSem' = IF readerWait' = 0 THEN 1 ELSE 0
  BY <1>1, <1>2, <1>4, <1>5, <1>10, Numbers DEF PostWriterSem, DrainingInv, Awaited, Gain, countVars, semVars
<1>11. ASSUME NEW u \in Threads, pc[u] = "writing"
       PROVE  Awaited' = 0 /\ Count("posting")' = 0 /\ writerSem' = 0 /\ readerWait' = 0
  BY <1>1, <1>2, <1>4, <1>5, <1>11, Numbers DEF PostWriterSem, WritingInv, Awaited, Gain, countVars, semVars
<1>12. writerSem' \in {0, 1}
  <2>1. Count("posting") > 0
    BY <1>1, Numbers
  <2>2. PICK w \in Threads : pc[w] \in LoweredPcs
    BY <1>4, <2>1 DEF QuietInv, Lowered
  <2>3. pc[w] = "draining"
    BY <1>4, <2>1, <2>2 DEF LoweredPcs, AnnouncedInv, WritingInv
  <2>4. writerSem = 0
    BY <1>4, <2>1, <2>3, Numbers DEF DrainingInv
  <2> QED
    BY <2>4 DEF PostWriterSem
<1> QED
  BY <1>1, <1>6, <1>7, <1>8, <1>9, <1>10, <1>11, <1>12, ReaderKeeps

---------------------------------------------------------------------------
(* The writers.                                                            *)

(* Whoever has writer_mu_, or takes it, is alone on the writer's path.     *)
LEMMA WriterMoves ==
    ASSUME IInv, NEW t \in Threads, NEW m \in WriterPcs \cup {"idle"}, pc[t] # m, Goto(t, m),
           pc[t] \in WriterPcs \/ (pc[t] = "idle" /\ writerMu = {})
    PROVE  /\ pc' \in [Threads -> Pcs]
           /\ pc'[t] = m /\ \A u \in Threads \ {t} : pc'[u] = pc[u] /\ pc[u] \notin WriterPcs
           /\ Count("queued")' = Count("queued") /\ Count("reading")' = Count("reading")
           /\ Count("leaving")' = Count("leaving") /\ Count("posting")' = Count("posting")
           /\ (Lowered <=> pc[t] \in LoweredPcs) /\ (Lowered' <=> m \in LoweredPcs)
           /\ writerMu = (IF pc[t] = "idle" THEN {} ELSE {t})
<1>1. m \in Pcs
  BY DEF Pcs
<1>2. pc' \in [Threads -> Pcs] /\ pc'[t] = m /\ \A u \in Threads \ {t} : pc'[u] = pc[u]
  BY <1>1, Moves DEF IInv, TypeOK
<1>3. \A u \in Threads \ {t} : pc[u] \notin WriterPcs
  BY DEF IInv, MutexInv
<1>4. /\ Count("queued")' = Count("queued") /\ Count("reading")' = Count("reading")
      /\ Count("leaving")' = Count("leaving") /\ Count("posting")' = Count("posting")
  <2>1. /\ Count("queued")'  = Count("queued")  + Gain(m, pc[t], "queued")
        /\ Count("reading")' = Count("reading") + Gain(m, pc[t], "reading")
        /\ Count("leaving")' = Count("leaving") + Gain(m, pc[t], "leaving")
        /\ Count("posting")' = Count("posting") + Gain(m, pc[t], "posting")
    BY <1>1, Moves DEF IInv, TypeOK
  <2>2. \A k \in ReaderPcs : Gain(m, pc[t], k) = 0
    BY DEF Gain, ReaderPcs, WriterPcs
  <2> QED
    BY <2>1, <2>2, Numbers DEF ReaderPcs
<1>5. LoweredPcs \subseteq WriterPcs
  BY DEF LoweredPcs, WriterPcs
<1>6. (Lowered <=> pc[t] \in LoweredPcs) /\ (Lowered' <=> m \in LoweredPcs)
  BY <1>2, <1>3, <1>5 DEF Lowered
<1>7. writerMu = (IF pc[t] = "idle" THEN {} ELSE {t})
  BY <1>3 DEF IInv, MutexInv, WriterPcs
<1> QED
  BY <1>2, <1>3, <1>4, <1>6, <1>7

(* What is left to show when a writer has moved: what holds at its place.  *)
LEMMA WriterKeeps ==
    ASSUME IInv, NEW t \in Threads, NEW m \in WriterPcs \cup {"idle"}, pc[t] # m, Goto(t, m),
           pc[t] \in WriterPcs \/ (pc[t] = "idle" /\ writerMu = {}),
           writerMu' = IF m = "idle" THEN {} ELSE {t},
           readerCount' \in Int, readerWait' \in Int, found' \in Nat,
           readerSem' \in Nat, writerSem' \in {0, 1},
           readerCount' = Count("queued") + Count("reading")
                            - (IF m \in LoweredPcs THEN MaxReaders ELSE 0),
           m \notin LoweredPcs =>
               /\ Count("leaving") = 0 /\ Count("posting") = 0
               /\ writerSem' = 0 /\ readerWait' = 0
               /\ m # "releasing" => readerSem' = Count("queued"),
           m = "releasing" => readerSem' = 0 /\ found' = Count("queued"),
           m = "announced" =>
               /\ found' + readerWait' = readerSem' + Count("reading") + Count("leaving")
               /\ readerWait' <= 0 /\ Count("posting") = 0 /\ writerSem' = 0,
           m = "draining" =>
               /\ readerWait' = readerSem' + Count("reading") + Count("leaving")
               /\ Count("posting") + writerSem' = IF readerWait' = 0 THEN 1 ELSE 0,
           m = "writing" =>
               /\ readerSem' + Count("reading") + Count("leaving") = 0
               /\ Count("posting") = 0 /\ writerSem' = 0 /\ readerWait' = 0
    PROVE  IInv'
<1>1. /\ pc' \in [Threads -> Pcs]
      /\ pc'[t] = m /\ \A u \in Threads \ {t} : pc'[u] = pc[u] /\ pc[u] \notin WriterPcs
      /\ Count("queued")' = Count("queued") /\ Count("reading")' = Count("reading")
      /\ Count("leaving")' = Count("leaving") /\ Count("posting")' = Count("posting")
      /\ (Lowered' <=> m \in LoweredPcs)
  BY WriterMoves
<1>2. TypeOK'
  BY <1>1 DEF TypeOK
<1>3. MutexInv'
  BY <1>1 DEF MutexInv, WriterPcs
<1>4. CountInv'
  BY <1>1 DEF CountInv
<1>5. QuietInv'
  BY <1>1 DEF QuietInv
<1>6. \A u \in Threads : pc'[u] \in WriterPcs => u = t
  BY <1>1
<1>7. ReleasingInv' /\ AnnouncedInv' /\ DrainingInv' /\ WritingInv'
  BY <1>1, <1>6 DEF ReleasingInv, AnnouncedInv, DrainingInv, WritingInv, WriterPcs, Awaited
<1> QED
  BY <1>2, <1>3, <1>4, <1>5, <1>7 DEF IInv

LEMMA LockWriterMuIInv == ASSUME IInv, NEW t \in Threads, LockWriterMu(t) PROVE IInv'
<1> DEFINE m == "chosen"
<1>1. /\ pc[t] = "idle" /\ m \in WriterPcs \cup {"idle"} /\ pc[t] # m /\ Goto(t, m)
      /\ pc[t] \in WriterPcs \/ (pc[t] = "idle" /\ writerMu = {})
  BY DEF LockWriterMu, WriterPcs
<1>2. /\ (Lowered <=> "idle" \in LoweredPcs)
      /\ writerMu = (IF "idle" = "idle" THEN {} ELSE {t})
      /\ \A u \in Threads \ {t} : pc[u] \notin WriterPcs
  BY <1>1, WriterMoves
<1>3. /\ CountInv /\ QuietInv /\ ReleasingInv /\ AnnouncedInv /\ DrainingInv /\ WritingInv
      /\ \A u \in Threads \ {t} : pc[u] # "releasing"
  BY <1>2 DEF IInv, WriterPcs
<1>4. /\ writerMu' = (IF m = "idle" THEN {} ELSE {t})
      /\ readerCount' \in Int /\ readerWait' \in Int
      /\ readerSem' \in Nat /\ writerSem' \in {0, 1}
  BY <1>1, <1>2, Numbers DEF LockWriterMu, countVars, semVars, muVars
<1>5. readerCount' = Count("queued") + Count("reading")
                       - (IF m \in LoweredPcs THEN MaxReaders ELSE 0)
  BY <1>1, <1>2, <1>3, Numbers DEF LockWriterMu, CountInv, LoweredPcs, countVars
<1>6. found' \in Nat
  BY <1>1, <1>2, <1>3, Numbers DEF LockWriterMu, CountInv, LoweredPcs, muVars
<1>7. m \notin LoweredPcs =>
        /\ Count("leaving") = 0 /\ Count("posting") = 0
        /\ writerSem' = 0 /\ readerWait' = 0
        /\ m # "releasing" => readerSem' = Count("queued")
  BY <1>1, <1>2, <1>3, Numbers
     DEF LockWriterMu, CountInv, QuietInv, WritingInv, ReleasingInv, Awaited, LoweredPcs, countVars, semVars
<1> QED
  BY <1>1, <1>4, <1>5, <1>6, <1>7, WriterKeeps DEF LoweredPcs

LEMMA TryLockIInv == ASSUME IInv, NEW t \in Threads, TryLock(t) PROVE IInv'
<1> DEFINE m == "trying"
<1>1. /\ pc[t] = "idle" /\ m \in WriterPcs \cup {"idle"} /\ pc[t] # m /\ Goto(t, m)
      /\ pc[t] \in WriterPcs \/ (pc[t] = "idle" /\ writerMu = {})
  BY DEF TryLock, WriterPcs
<1>2. /\ (Lowered <=> "idle" \in LoweredPcs)
      /\ writerMu = (IF "idle" = "idle" THEN {} ELSE {t})
      /\ \A u \in Threads \ {t} : pc[u] \notin WriterPcs
  BY <1>1, WriterMoves
<1>3. /\ CountInv /\ QuietInv /\ ReleasingInv /\ AnnouncedInv /\ DrainingInv /\ WritingInv
      /\ \A u \in Threads \ {t} : pc[u] # "releasing"
  BY <1>2 DEF IInv, WriterPcs
<1>4. /\ writerMu' = (IF m = "idle" THEN {} ELSE {t})
      /\ readerCount' \in Int /\ readerWait' \in Int
      /\ readerSem' \in Nat /\ writerSem' \in {0, 1}
  BY <1>1, <1>2, Numbers DEF TryLock, countVars, semVars, muVars
<1>5. readerCount' = Count("queued") + Count("reading")
                       - (IF m \in LoweredPcs THEN MaxReaders ELSE 0)
  BY <1>1, <1>2, <1>3, Numbers DEF TryLock, CountInv, LoweredPcs, countVars
<1>6. found' \in Nat
  BY <1>1, <1>2, <1>3, Numbers DEF TryLock, CountInv, LoweredPcs, muVars
<1>7. m \notin LoweredPcs =>
        /\ Count("leaving") = 0 /\ Count("posting") = 0
        /\ writerSem' = 0 /\ readerWait' = 0
        /\ m # "releasing" => readerSem' = Count("queued")
  BY <1>1, <1>2, <1>3, Numbers
     DEF TryLock, CountInv, QuietInv, WritingInv, ReleasingInv, Awaited, LoweredPcs, countVars, semVars
<1> QED
  BY <1>1, <1>4, <1>5, <1>6, <1>7, WriterKeeps DEF LoweredPcs

LEMMA AnnounceIInv == ASSUME IInv, NEW t \in Threads, Announce(t) PROVE IInv'
<1> DEFINE m == IF readerCount # 0 THEN "announced" ELSE "writing"
<1>1. /\ pc[t] = "chosen" /\ m \in WriterPcs \cup {"idle"} /\ pc[t] # m /\ Goto(t, m)
      /\ pc[t] \in WriterPcs \/ (pc[t] = "idle" /\ writerMu = {})
  BY DEF Announce, WriterPcs
<1>2. /\ (Lowered <=> "chosen" \in LoweredPcs)
      /\ writerMu = (IF "chosen" = "idle" THEN {} ELSE {t})
      /\ \A u \in Threads \ {t} : pc[u] \notin WriterPcs
  BY <1>1, WriterMoves
<1>3. /\ CountInv /\ QuietInv /\ ReleasingInv /\ AnnouncedInv /\ DrainingInv /\ WritingInv
      /\ \A u \in Threads \ {t} : pc[u] # "releasing"
  BY <1>2 DEF IInv, WriterPcs
<1>4. /\ writerMu' = (IF m = "idle" THEN {} ELSE {t})
      /\ readerCount' \in Int /\ readerWait' \in Int
      /\ readerSem' \in Nat /\ writerSem' \in {0, 1}
  BY <1>1, <1>2, Numbers DEF Announce, countVars, semVars, muVars
<1>5. readerCount' = Count("queued") + Count("reading")
                       - (IF m \in LoweredPcs THEN MaxReaders ELSE 0)
  BY <1>1, <1>2, <1>3, Numbers DEF Announce, CountInv, LoweredPcs, countVars
<1>6. found' \in Nat
  BY <1>1, <1>2, <1>3, Numbers DEF Announce, CountInv, LoweredPcs, muVars
<1>7. m = "announced" =>
        /\ found' + readerWait' = readerSem' + Count("reading") + Count("leaving")
        /\ readerWait' <= 0 /\ Count("posting") = 0 /\ writerSem' = 0
  BY <1>1, <1>2, <1>3, Numbers DEF Announce, CountInv, QuietInv, LoweredPcs, countVars, semVars
<1>8. m = "writing" =>
        /\ readerSem' + Count("reading") + Count("leaving") = 0
        /\ Count("posting") = 0 /\ writerSem' = 0 /\ readerWait' = 0
  <2>1. CASE readerCount = 0
    <3>1. ~Lowered /\ \A u \in Threads : pc[u] # "releasing"
      BY <1>1, <1>2, <1>3 DEF LoweredPcs
    <3>2. Count("queued") = 0 /\ Count("reading") = 0
      BY <2>1, <3>1, <1>3, Numbers DEF CountInv
    <3> QED
      BY <1>3, <3>1, <3>2, Numbers DEF Announce, QuietInv, countVars, semVars
  <2>2. CASE readerCount # 0
    BY <2>2
  <2> QED
    BY <2>1, <2>2
<1> QED
  BY <1>1, <1>4, <1>5, <1>6, <1>7, <1>8, WriterKeeps DEF LoweredPcs

LEMMA DrainIInv == ASSUME IInv, NEW t \in Threads, Drain(t) PROVE IInv'
<1> DEFINE m == IF readerWait + found # 0 THEN "draining" ELSE "writing"
<1>1. /\ pc[t] = "announced" /\ m \in WriterPcs \cup {"idle"} /\ pc[t] # m /\ Goto(t, m)
      /\ pc[t] \in WriterPcs \/ (pc[t] = "idle" /\ writerMu = {})
  BY DEF Drain, WriterPcs
<1>2. /\ (Lowered <=> "announced" \in LoweredPcs)
      /\ writerMu = (IF "announced" = "idle" THEN {} ELSE {t})
      /\ \A u \in Threads \ {t} : pc[u] \notin WriterPcs
  BY <1>1, WriterMoves
<1>3. /\ CountInv /\ QuietInv /\ ReleasingInv /\ AnnouncedInv /\ DrainingInv /\ WritingInv
      /\ \A u \in Threads \ {t} : pc[u] # "releasing"
  BY <1>2 DEF IInv, WriterPcs
<1>4. /\ writerMu' = (IF m = "idle" THEN {} ELSE {t})
      /\ readerCount' \in Int /\ readerWait' \in Int
      /\ readerSem' \in Nat /\ writerSem' \in {0, 1}
  BY <1>1, <1>2, Numbers DEF Drain, countVars, semVars, muVars
<1>5. readerCount' = Count("queued") + Count("reading")
                       - (IF m \in LoweredPcs THEN MaxReaders ELSE 0)
  BY <1>1, <1>2, <1>3, Numbers DEF Drain, CountInv, LoweredPcs, countVars
<1>6. found' \in Nat
  BY <1>1, <1>2, <1>3, Numbers DEF Drain, CountInv, LoweredPcs, muVars
<1>7. m = "draining" =>
        /\ readerWait' = readerSem' + Count("reading") + Count("leaving")
        /\ Count("posting") + writerSem' = IF readerWait' = 0 THEN 1 ELSE 0
  BY <1>1, <1>2, <1>3, Numbers DEF Drain, AnnouncedInv, Awaited, semVars, muVars
<1>8. m = "writing" =>
        /\ readerSem' + Count("reading") + Count("leaving") = 0
        /\ Count("posting") = 0 /\ writerSem' = 0 /\ readerWait' = 0
  BY <1>1, <1>2, <1>3, Numbers
     DEF Drain, CountInv, QuietInv, AnnouncedInv, DrainingInv, Awaited, LoweredPcs, countVars, semVars, muVars
<1> QED
  BY <1>1, <1>4, <1>5, <1>6, <1>7, <1>8, WriterKeeps DEF LoweredPcs

LEMMA AcquireWriterSemIInv == ASSUME IInv, NEW t \in Threads, AcquireWriterSem(t) PROVE IInv'
<1> DEFINE m == "writing"
<1>1. /\ pc[t] = "draining" /\ m \in WriterPcs \cup {"idle"} /\ pc[t] # m /\ Goto(t, m)
      /\ pc[t] \in WriterPcs \/ (pc[t] = "idle" /\ writerMu = {})
  BY DEF AcquireWriterSem, WriterPcs
<1>2. /\ (Lowered <=> "draining" \in LoweredPcs)
      /\ writerMu = (IF "draining" = "idle" THEN {} ELSE {t})
      /\ \A u \in Threads \ {t} : pc[u] \notin WriterPcs
  BY <1>1, WriterMoves
<1>3. /\ CountInv /\ QuietInv /\ ReleasingInv /\ AnnouncedInv /\ DrainingInv /\ WritingInv
      /\ \A u \in Threads \ {t} : pc[u] # "releasing"
  BY <1>2 DEF IInv, WriterPcs
<1>4. /\ writerMu' = (IF m = "idle" THEN {} ELSE {t})
      /\ readerCount' \in Int /\ readerWait' \in Int
      /\ readerSem' \in Nat /\ writerSem' \in {0, 1}
  BY <1>1, <1>2, Numbers DEF AcquireWriterSem, countVars, semVars, muVars
<1>5. readerCount' = Count("queued") + Count("reading")
                       - (IF m \in LoweredPcs THEN MaxReaders ELSE 0)
  BY <1>1, <1>2, <1>3, Numbers DEF AcquireWriterSem, CountInv, LoweredPcs, countVars
<1>6. found' \in Nat
  BY <1>1, <1>2, <1>3, Numbers DEF AcquireWriterSem, CountInv, LoweredPcs, muVars
<1>7. m = "writing" =>
        /\ readerSem' + Count("reading") + Count("leaving") = 0
        /\ Count("posting") = 0 /\ writerSem' = 0 /\ readerWait' = 0
  BY <1>1, <1>2, <1>3, Numbers
     DEF AcquireWriterSem, CountInv, QuietInv, AnnouncedInv, DrainingInv, Awaited, LoweredPcs, countVars, semVars, muVars
<1> QED
  BY <1>1, <1>4, <1>5, <1>6, <1>7, WriterKeeps DEF LoweredPcs

LEMMA TryAnnounceIInv == ASSUME IInv, NEW t \in Threads, TryAnnounce(t) PROVE IInv'
<1> DEFINE m == IF readerCount = 0 THEN "writing" ELSE "unlocking"
<1>1. /\ pc[t] = "trying" /\ m \in WriterPcs \cup {"idle"} /\ pc[t] # m /\ Goto(t, m)
      /\ pc[t] \in WriterPcs \/ (pc[t] = "idle" /\ writerMu = {})
  BY DEF TryAnnounce, WriterPcs
<1>2. /\ (Lowered <=> "trying" \in LoweredPcs)
      /\ writerMu = (IF "trying" = "idle" THEN {} ELSE {t})
      /\ \A u \in Threads \ {t} : pc[u] \notin WriterPcs
  BY <1>1, WriterMoves
<1>3. /\ CountInv /\ QuietInv /\ ReleasingInv /\ AnnouncedInv /\ DrainingInv /\ WritingInv
      /\ \A u \in Threads \ {t} : pc[u] # "releasing"
  BY <1>2 DEF IInv, WriterPcs
<1>4. /\ writerMu' = (IF m = "idle" THEN {} ELSE {t})
      /\ readerCount' \in Int /\ readerWait' \in Int
      /\ readerSem' \in Nat /\ writerSem' \in {0, 1}
  BY <1>1, <1>2, Numbers DEF TryAnnounce, countVars, semVars, muVars
<1>5. readerCount' = Count("queued") + Count("reading")
                       - (IF m \in LoweredPcs THEN MaxReaders ELSE 0)
  BY <1>1, <1>2, <1>3, Numbers DEF TryAnnounce, CountInv, LoweredPcs, countVars
<1>6. found' \in Nat
  BY <1>1, <1>2, <1>3, Numbers DEF TryAnnounce, CountInv, LoweredPcs, muVars
<1>7. m \notin LoweredPcs =>
        /\ Count("leaving") = 0 /\ Count("posting") = 0
        /\ writerSem' = 0 /\ readerWait' = 0
        /\ m # "releasing" => readerSem' = Count("queued")
  BY <1>1, <1>2, <1>3, Numbers
     DEF TryAnnounce, CountInv, QuietInv, WritingInv, ReleasingInv, Awaited, LoweredPcs, countVars, semVars
<1>8. m = "writing" =>
        /\ readerSem' + Count("reading") + Count("leaving") = 0
        /\ Count("posting") = 0 /\ writerSem' = 0 /\ readerWait' = 0
  <2>1. CASE readerCount = 0
    <3>1. ~Lowered /\ \A u \in Threads : pc[u] # "releasing"
      BY <1>1, <1>2, <1>3 DEF LoweredPcs
    <3>2. Count("queued") = 0 /\ Count("reading") = 0
      BY <2>1, <3>1, <1>3, Numbers DEF CountInv
    <3> QED
      BY <1>3, <3>1, <3>2, Numbers DEF TryAnnounce, QuietInv, countVars, semVars
  <2>2. CASE readerCount # 0
    BY <2>2
  <2> QED
    BY <2>1, <2>2
<1> QED
  BY <1>1, <1>4, <1>5, <1>6, <1>7, <1>8, WriterKeeps DEF LoweredPcs

LEMMA UnlockIInv == ASSUME IInv, NEW t \in Threads, Unlock(t) PROVE IInv'
<1> DEFINE m == IF readerCount + MaxReaders > 0 THEN "releasing" ELSE "unlocking"
<1>1. /\ pc[t] = "writing" /\ m \in WriterPcs \cup {"idle"} /\ pc[t] # m /\ Goto(t, m)
      /\ pc[t] \in WriterPcs \/ (pc[t] = "idle" /\ writerMu = {})
  BY DEF Unlock, WriterPcs
<1>2. /\ (Lowered <=> "writing" \in LoweredPcs)
      /\ writerMu = (IF "writing" = "idle" THEN {} ELSE {t})
      /\ \A u \in Threads \ {t} : pc[u] \notin WriterPcs
  BY <1>1, WriterMoves
<1>3. /\ CountInv /\ QuietInv /\ ReleasingInv /\ AnnouncedInv /\ DrainingInv /\ WritingInv
      /\ \A u \in Threads \ {t} : pc[u] # "releasing"
  BY <1>2 DEF IInv, WriterPcs
<1>4. /\ writerMu' = (IF m = "idle" THEN {} ELSE {t})
      /\ readerCount' \in Int /\ readerWait' \in Int
      /\ readerSem' \in Nat /\ writerSem' \in {0, 1}
  BY <1>1, <1>2, Numbers DEF Unlock, countVars, semVars, muVars
<1>5. readerCount' = Count("queued") + Count("reading")
                       - (IF m \in LoweredPcs THEN MaxReaders ELSE 0)
  BY <1>1, <1>2, <1>3, Numbers DEF Unlock, CountInv, LoweredPcs, countVars
<1>6. found' \in Nat
  BY <1>1, <1>2, <1>3, Numbers DEF Unlock, CountInv, LoweredPcs, muVars
<1>7. m \notin LoweredPcs =>
        /\ Count("leaving") = 0 /\ Count("posting") = 0
        /\ writerSem' = 0 /\ readerWait' = 0
        /\ m # "releasing" => readerSem' = Count("queued")
  BY <1>1, <1>2, <1>3, Numbers
     DEF Unlock, CountInv, QuietInv, WritingInv, ReleasingInv, Awaited, LoweredPcs, countVars, semVars
<1>8. m = "releasing" => readerSem' = 0 /\ found' = Count("queued")
  BY <1>1, <1>2, <1>3, Numbers DEF Unlock, CountInv, WritingInv, Awaited, LoweredPcs, semVars
<1> QED
  BY <1>1, <1>4, <1>5, <1>6, <1>7, <1>8, WriterKeeps DEF LoweredPcs

LEMMA PostReaderSemIInv == ASSUME IInv, NEW t \in Threads, PostReaderSem(t) PROVE IInv'
<1> DEFINE m == "unlocking"
<1>1. /\ pc[t] = "releasing" /\ m \in WriterPcs \cup {"idle"} /\ pc[t] # m /\ Goto(t, m)
      /\ pc[t] \in WriterPcs \/ (pc[t] = "idle" /\ writerMu = {})
  BY DEF PostReaderSem, WriterPcs
<1>2. /\ (Lowered <=> "releasing" \in LoweredPcs)
      /\ writerMu = (IF "releasing" = "idle" THEN {} ELSE {t})
      /\ \A u \in Threads \ {t} : pc[u] \notin WriterPcs
  BY <1>1, WriterMoves
<1>3. /\ CountInv /\ QuietInv /\ ReleasingInv /\ AnnouncedInv /\ DrainingInv /\ WritingInv
      /\ \A u \in Threads \ {t} : pc[u] # "releasing"
  BY <1>2 DEF IInv, WriterPcs
<1>4. /\ writerMu' = (IF m = "idle" THEN {} ELSE {t})
      /\ readerCount' \in Int /\ readerWait' \in Int
      /\ readerSem' \in Nat /\ writerSem' \in {0, 1}
  BY <1>1, <1>2, Numbers DEF PostReaderSem, countVars, semVars, muVars
<1>5. readerCount' = Count("queued") + Count("reading")
                       - (IF m \in LoweredPcs THEN MaxReaders ELSE 0)
  BY <1>1, <1>2, <1>3, Numbers DEF PostReaderSem, CountInv, LoweredPcs, countVars
<1>6. found' \in Nat
  BY <1>1, <1>2, <1>3, Numbers DEF PostReaderSem, CountInv, LoweredPcs, muVars
<1>7. m \notin LoweredPcs =>
        /\ Count("leaving") = 0 /\ Count("posting") = 0
        /\ writerSem' = 0 /\ readerWait' = 0
        /\ m # "releasing" => readerSem' = Count("queued")
  BY <1>1, <1>2, <1>3, Numbers
     DEF PostReaderSem, CountInv, QuietInv, WritingInv, ReleasingInv, Awaited, LoweredPcs, countVars, semVars
<1> QED
  BY <1>1, <1>4, <1>5, <1>6, <1>7, WriterKeeps DEF LoweredPcs

LEMMA UnlockWriterMuIInv == ASSUME IInv, NEW t \in Threads, UnlockWriterMu(t) PROVE IInv'
<1> DEFINE m == "idle"
<1>1. /\ pc[t] = "unlocking" /\ m \in WriterPcs \cup {"idle"} /\ pc[t] # m /\ Goto(t, m)
      /\ pc[t] \in WriterPcs \/ (pc[t] = "idle" /\ writerMu = {})
  BY DEF UnlockWriterMu, WriterPcs
<1>2. /\ (Lowered <=> "unlocking" \in LoweredPcs)
      /\ writerMu = (IF "unlocking" = "idle" THEN {} ELSE {t})
      /\ \A u \in Threads \ {t} : pc[u] \notin WriterPcs
  BY <1>1, WriterMoves
<1>3. /\ CountInv /\ QuietInv /\ ReleasingInv /\ AnnouncedInv /\ DrainingInv /\ WritingInv
      /\ \A u \in Threads \ {t} : pc[u] # "releasing"
  BY <1>2 DEF IInv, WriterPcs
<1>4. /\ writerMu' = (IF m = "idle" THEN {} ELSE {t})
      /\ readerCount' \in Int /\ readerWait' \in Int
      /\ readerSem' \in Nat /\ writerSem' \in {0, 1}
  BY <1>1, <1>2, Numbers DEF UnlockWriterMu, countVars, semVars, muVars
<1>5. readerCount' = Count("queued") + Count("reading")
                       - (IF m \in LoweredPcs THEN MaxReaders ELSE 0)
  BY <1>1, <1>2, <1>3, Numbers DEF UnlockWriterMu, CountInv, LoweredPcs, countVars
<1>6. found' \in Nat
  BY <1>1, <1>2, <1>3, Numbers DEF UnlockWriterMu, CountInv, LoweredPcs, muVars
<1>7. m \notin LoweredPcs =>
        /\ Count("leaving") = 0 /\ Count("posting") = 0
        /\ writerSem' = 0 /\ readerWait' = 0
        /\ m # "releasing" => readerSem' = Count("queued")
  BY <1>1, <1>2, <1>3, Numbers
     DEF UnlockWriterMu, CountInv, QuietInv, WritingInv, ReleasingInv, Awaited, LoweredPcs, countVars, semVars
<1> QED
  BY <1>1, <1>4, <1>5, <1>6, <1>7, WriterKeeps DEF LoweredPcs

---------------------------------------------------------------------------
LEMMA NextIInv == IInv /\ [Next]_vars => IInv'
<1> SUFFICES ASSUME IInv, [Next]_vars
             PROVE  IInv'
  OBVIOUS
<1>1. ASSUME NEW t \in Threads, Arrive(t)
      PROVE  IInv'
  BY <1>1, LockSharedIInv, TryLockSharedIInv, LockWriterMuIInv, TryLockIInv DEF Arrive
<1>2. ASSUME NEW t \in Threads, ReaderStep(t)
      PROVE  IInv'
  BY <1>2, AcquireReaderSemIInv, UnlockSharedIInv, LeaveWriterIInv, PostWriterSemIInv
     DEF ReaderStep
<1>3. ASSUME NEW t \in Threads, WriterStep(t)
      PROVE  IInv'
  BY <1>3, AnnounceIInv, DrainIInv, AcquireWriterSemIInv, TryAnnounceIInv, UnlockIInv,
     PostReaderSemIInv, UnlockWriterMuIInv DEF WriterStep
<1>4. ASSUME UNCHANGED vars
      PROVE  IInv'
  <2>1. /\ Count("queued")' = Count("queued") /\ Count("reading")' = Count("reading")
        /\ Count("leaving")' = Count("leaving") /\ Count("posting")' = Count("posting")
    BY <1>4 DEF vars, Count, At
  <2> QED
    BY <1>4, <2>1 DEF vars, countVars, semVars, muVars, IInv, TypeOK, MutexInv, CountInv, QuietInv,
       ReleasingInv, AnnouncedInv, DrainingInv, WritingInv, Awaited, Lowered
<1> QED
  BY <1>1, <1>2, <1>3, <1>4 DEF Next

LEMMA IInvHolds == Spec => []IInv
BY InitIInv, NextIInv, PTL DEF Spec

(* Every variable has its type; writer_sem_ never gets a second token,     *)
(* which std::counting_semaphore<1> could not hold.                        *)
THEOREM MutexTypes == Spec => []TypeOK
<1>1. IInv => TypeOK
  BY DEF IInv
<1> QED
  BY <1>1, IInvHolds, PTL

(* Mutual exclusion (lock, lock_shared and their try forms): while a       *)
(* thread writes, nobody else reads or writes.                             *)
THEOREM MutexExclusive == Spec => []Exclusive
<1>1. ASSUME IInv, NEW t \in Threads, pc[t] = "writing", NEW u \in Threads \ {t}
      PROVE  pc[u] \notin {"reading", "writing"}
  <2>1. Count("reading") = 0
    BY <1>1, Numbers DEF IInv, WritingInv, Awaited
  <2>2. pc[u] # "reading"
    BY <1>1, <2>1, Numbers
  <2>3. pc[u] # "writing"
    BY <1>1 DEF IInv, MutexInv, WriterPcs
  <2> QED
    BY <2>2, <2>3
<1>2. IInv => Exclusive
  BY <1>1 DEF Exclusive
<1> QED
  BY <1>2, IInvHolds, PTL

(* The semaphores keep no token and the counters no count when nobody      *)
(* holds the lock or is on the way to (unlock, unlock_shared).             *)
THEOREM MutexQuietMeansClean == Spec => []QuietMeansClean
<1>1. ASSUME IInv, \A t \in Threads : pc[t] = "idle"
      PROVE  readerCount = 0 /\ readerWait = 0 /\ readerSem = 0 /\ writerSem = 0
  <2>1. ~Lowered /\ \A t \in Threads : pc[t] # "releasing"
    BY <1>1 DEF Lowered, LoweredPcs
  <2>2. At("queued") = {} /\ At("reading") = {}
    BY <1>1 DEF At
  <2>3. Count("queued") = 0 /\ Count("reading") = 0
    BY <2>2, CountType
  <2> QED
    BY <1>1, <2>1, <2>3 DEF IInv, CountInv, QuietInv
<1>2. IInv => QuietMeansClean
  BY <1>1 DEF QuietMeansClean
<1> QED
  BY <1>2, IInvHolds, PTL

(* The assertions in unlock_shared, lock and unlock never fire.            *)
THEOREM MutexAssertionsHold == Spec => []AssertionsHold
<1>1. ASSUME IInv, NEW t \in Threads
      PROVE  /\ pc[t] = "reading" => readerCount \notin {0, -MaxReaders}
             /\ pc[t] = "chosen" => readerCount \in 0 .. MaxReaders - 1
             /\ pc[t] = "writing" => readerCount + MaxReaders < MaxReaders
  <2>1. CountInv
    BY <1>1 DEF IInv
  <2>2. pc[t] = "reading" => readerCount \notin {0, -MaxReaders}
    BY <1>1, <2>1, Numbers DEF CountInv
  <2>3. pc[t] = "chosen" => ~Lowered
    BY <1>1 DEF IInv, MutexInv, Lowered, LoweredPcs, WriterPcs
  <2>4. pc[t] = "chosen" => readerCount \in 0 .. MaxReaders - 1
    BY <1>1, <2>1, <2>3, Numbers DEF CountInv
  <2>5. pc[t] = "writing" => Lowered
    BY DEF Lowered, LoweredPcs
  <2>6. pc[t] = "writing" => readerCount + MaxReaders < MaxReaders
    BY <1>1, <2>1, <2>5, Numbers DEF CountInv
  <2> QED
    BY <2>2, <2>4, <2>6
<1>2. IInv => AssertionsHold
  BY <1>1 DEF AssertionsHold
<1> QED
  BY <1>2, IInvHolds, PTL
===============================================================================
