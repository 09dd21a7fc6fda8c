----------------------------- MODULE SharedMutex -----------------------------
(***************************************************************************)
(* The reader-writer lock pine-cpp offers in place of std::shared_mutex    *)
(* (pine-cpp/include/pine/shared_mutex.hpp).                               *)
(*                                                                         *)
(* One word counts the readers; a writer announces itself by lowering that *)
(* word by MaxReaders, waits for the readers it found, and on leaving      *)
(* posts a token for every reader that came in the meantime.  Each atomic  *)
(* operation and each semaphore operation is a step of its own.            *)
(***************************************************************************)
EXTENDS Integers, FiniteSets

CONSTANTS
    Threads,      \* the threads that use the lock
    MaxReaders    \* kMaxReaders

ASSUME SharedMutexAssumption ==
    /\ IsFiniteSet(Threads)
    /\ MaxReaders \in Nat
    /\ Cardinality(Threads) < MaxReaders

VARIABLES
    pc,           \* where each thread is
    readerCount,  \* reader_count_
    readerWait,   \* reader_wait_
    found,        \* the local r of the thread that has the writer mutex
    writerMu,     \* who holds writer_mu_: {} or {t}
    readerSem,    \* reader_sem_
    writerSem     \* writer_sem_

countVars == <<readerCount, readerWait>>
semVars   == <<readerSem, writerSem>>
muVars    == <<found, writerMu>>
vars == <<pc, countVars, muVars, semVars>>

(* queued: blocked on reader_sem_.  leaving: has given reader_count_ back, *)
(* not yet reader_wait_.  posting: about to post writer_sem_.  announced:  *)
(* has lowered reader_count_.  draining: blocked on writer_sem_.           *)
ReaderPcs == {"queued", "reading", "leaving", "posting"}
WriterPcs == {"trying", "chosen", "announced", "draining", "writing", "releasing", "unlocking"}
Pcs == {"idle"} \cup ReaderPcs \cup WriterPcs

Goto(t, l) == pc' = [pc EXCEPT ![t] = l]

Init ==
    /\ pc = [t \in Threads |-> "idle"]
    /\ readerCount = 0
    /\ readerWait = 0
    /\ found = 0
    /\ writerMu = {}
    /\ readerSem = 0
    /\ writerSem = 0

---------------------------------------------------------------------------
(* Readers.                                                                *)

(* Mutated form: a reader does not heed the sign of the count.             *)
LockSharedUnchecked(t) ==
    /\ pc[t] = "idle"
    /\ readerCount' = readerCount + 1
    /\ Goto(t, "reading")
    /\ UNCHANGED <<readerWait, muVars, semVars>>

LockShared(t) ==
    /\ pc[t] = "idle"
    /\ readerCount' = readerCount + 1
    /\ Goto(t, IF readerCount < 0 THEN "queued" ELSE "reading")
    /\ UNCHANGED <<readerWait, muVars, semVars>>

(* reader_sem_.acquire() returns.                                          *)
AcquireReaderSem(t) ==
    /\ pc[t] = "queued"
    /\ readerSem > 0
    /\ readerSem' = readerSem - 1
    /\ Goto(t, "reading")
    /\ UNCHANGED <<countVars, muVars, writerSem>>

(* Mutated form: counted like a waiting reader, then turned away.          *)
TryLockSharedBlind(t) ==
    /\ pc[t] = "idle"
    /\ readerCount' = readerCount + 1
    /\ Goto(t, IF readerCount < 0 THEN "idle" ELSE "reading")
    /\ UNCHANGED <<readerWait, muVars, semVars>>

(* The loop ends with a successful exchange or with a negative count.      *)
TryLockShared(t) ==
    /\ pc[t] = "idle"
    /\ readerCount >= 0
    /\ readerCount' = readerCount + 1
    /\ Goto(t, "reading")
    /\ UNCHANGED <<readerWait, muVars, semVars>>

UnlockShared(t) ==
    /\ pc[t] = "reading"
    /\ readerCount' = readerCount - 1
    /\ Goto(t, IF readerCount < 0 THEN "leaving" ELSE "idle")
    /\ UNCHANGED <<readerWait, muVars, semVars>>

LeaveWriter(t) ==
    /\ pc[t] = "leaving"
    /\ readerWait' = readerWait - 1
    /\ Goto(t, IF readerWait = 1 THEN "posting" ELSE "idle")
    /\ UNCHANGED <<readerCount, muVars, semVars>>

PostWriterSem(t) ==
    /\ pc[t] = "posting"
    /\ writerSem' = writerSem + 1
    /\ Goto(t, "idle")
    /\ UNCHANGED <<countVars, muVars, readerSem>>

---------------------------------------------------------------------------
(* Writers.                                                                *)

LockWriterMu(t) ==
    /\ pc[t] = "idle"
    /\ writerMu = {}
    /\ writerMu' = {t}
    /\ Goto(t, "chosen")
    /\ UNCHANGED <<countVars, found, semVars>>

Announce(t) ==
    /\ pc[t] = "chosen"
    /\ found' = readerCount
    /\ readerCount' = readerCount - MaxReaders
    /\ Goto(t, IF readerCount # 0 THEN "announced" ELSE "writing")
    /\ UNCHANGED <<readerWait, writerMu, semVars>>

(* Mutated form: the writer always waits for the readers it found, also    *)
(* for those that have left since.                                         *)
DrainAlways(t) ==
    /\ pc[t] = "announced"
    /\ readerWait' = readerWait + found
    /\ Goto(t, "draining")
    /\ UNCHANGED <<readerCount, muVars, semVars>>

Drain(t) ==
    /\ pc[t] = "announced"
    /\ readerWait' = readerWait + found
    /\ \/ /\ readerWait + found # 0
          /\ Goto(t, "draining")
       \/ /\ readerWait + found = 0
          /\ Goto(t, "writing")
    /\ UNCHANGED <<readerCount, muVars, semVars>>

(* writer_sem_.acquire() returns.                                          *)
AcquireWriterSem(t) ==
    /\ pc[t] = "draining"
    /\ writerSem > 0
    /\ writerSem' = writerSem - 1
    /\ Goto(t, "writing")
    /\ UNCHANGED <<countVars, muVars, readerSem>>

TryLock(t) ==
    /\ pc[t] = "idle"
    /\ writerMu = {}
    /\ writerMu' = {t}
    /\ Goto(t, "trying")
    /\ UNCHANGED <<countVars, found, semVars>>

(* The exchange of try_lock; if it fails writer_mu_ is given back.         *)
TryAnnounce(t) ==
    /\ pc[t] = "trying"
    /\ IF readerCount = 0
       THEN readerCount' = -MaxReaders /\ Goto(t, "writing")
       ELSE Goto(t, "unlocking") /\ UNCHANGED readerCount
    /\ UNCHANGED <<readerWait, muVars, semVars>>

Unlock(t) ==
    /\ pc[t] = "writing"
    /\ found' = readerCount + MaxReaders
    /\ readerCount' = readerCount + MaxReaders
    /\ Goto(t, IF readerCount + MaxReaders > 0 THEN "releasing" ELSE "unlocking")
    /\ UNCHANGED <<readerWait, writerMu, semVars>>

(* Mutated form: one token, whatever the number of queued readers.         *)
PostReaderSemOnce(t) ==
    /\ pc[t] = "releasing"
    /\ readerSem' = readerSem + 1
    /\ Goto(t, "unlocking")
    /\ UNCHANGED <<countVars, muVars, writerSem>>

PostReaderSem(t) ==
    /\ pc[t] = "releasing"
    /\ readerSem' = readerSem + found
    /\ Goto(t, "unlocking")
    /\ UNCHANGED <<countVars, muVars, writerSem>>

UnlockWriterMu(t) ==
    /\ pc[t] = "unlocking"
    /\ writerMu' = {}
    /\ Goto(t, "idle")
    /\ UNCHANGED <<countVars, found, semVars>>

---------------------------------------------------------------------------
ReaderStep(t) ==
    \/ AcquireReaderSem(t)
    \/ UnlockShared(t)
    \/ LeaveWriter(t)
    \/ PostWriterSem(t)

WriterStep(t) ==
    \/ Announce(t)
    \/ Drain(t)
    \/ AcquireWriterSem(t)
    \/ TryAnnounce(t)
    \/ Unlock(t)
    \/ PostReaderSem(t)
    \/ UnlockWriterMu(t)

Arrive(t) == LockShared(t) \/ TryLockShared(t) \/ LockWriterMu(t) \/ TryLock(t)

Next == \E t \in Threads : Arrive(t) \/ ReaderStep(t) \/ WriterStep(t)

Spec == Init /\ [][Next]_vars

(* Whoever holds the lock gives it back, and a semaphore that is posted    *)
(* again and again eventually lets a given waiter through.  Nobody is      *)
(* obliged to arrive.                                                      *)
Fairness ==
    \A t \in Threads : SF_vars(AcquireReaderSem(t)) /\ WF_vars(ReaderStep(t)) /\ WF_vars(WriterStep(t))

FairSpec == Spec /\ Fairness

---------------------------------------------------------------------------
(* Every variable has its type.  writer_sem_ is a counting_semaphore<1>:   *)
(* a second token in it is undefined behaviour.                            *)
TypeOK ==
    /\ pc \in [Threads -> Pcs]
    /\ readerCount \in Int
    /\ readerWait \in Int
    /\ found \in Nat
    /\ writerMu \in SUBSET Threads
    /\ readerSem \in Nat
    /\ writerSem \in {0, 1}

(* A writer is alone: the counters and the two semaphores add up to mutual *)
(* exclusion although none of the steps looks at who holds the lock.       *)
Exclusive ==
    \A t \in Threads : pc[t] = "writing" =>
        \A u \in Threads \ {t} : pc[u] \notin {"reading", "writing"}

(* The assertions of unlock_shared, lock and unlock never fire: what a     *)
(* correct user of the lock finds in reader_count_ shows that it holds it. *)
AssertionsHold ==
    \A t \in Threads :
        /\ pc[t] = "reading" => readerCount \notin {0, -MaxReaders}
        /\ pc[t] = "chosen" => readerCount \in 0 .. MaxReaders - 1
        /\ pc[t] = "writing" => readerCount + MaxReaders < MaxReaders

(* No token is lost or left over: when nobody holds the lock or is about   *)
(* to, the semaphores are empty and the counters at zero.                  *)
QuietMeansClean ==
    (\A t \in Threads : pc[t] = "idle") =>
        readerCount = 0 /\ readerWait = 0 /\ readerSem = 0 /\ writerSem = 0

(* A writer that has announced itself gets in, whatever readers arrive.    *)
WriterGetsIn == \A t \in Threads : pc[t] = "announced" ~> pc[t] = "writing"

(* A queued reader gets in, whatever writers arrive.                       *)
ReaderGetsIn == \A t \in Threads : pc[t] = "queued" ~> pc[t] = "reading"
=============================================================================
