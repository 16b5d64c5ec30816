---------------------------- MODULE AccessControl ----------------------------
(***************************************************************************)
(* The readers/writer access control of the bulletin board file            *)
(* (file-operations.cpp): the counters of AccessData, the mutex mut and    *)
(* the condition variable cond, as used by acquireWriteLock,               *)
(* releaseWriteLock and the two critical regions of readMessageFromFile.   *)
(*                                                                         *)
(* Every access to AccessData is made with mut held, so a region between   *)
(* pthread_mutex_lock and the next unlock or wait is one action, and mut   *)
(* itself needs no variable.  What stays visible is the waiting: a thread  *)
(* in pthread_cond_wait is in the set asleep, pthread_cond_broadcast       *)
(* empties it, POSIX may also wake a thread for no reason, and a woken     *)
(* thread tests its loop condition again in a region of its own.           *)
(***************************************************************************)
EXTENDS Naturals, FiniteSets

CONSTANT Threads   \* the threads of the process that use the board file

ASSUME ThreadsAssumption == IsFiniteSet(Threads)

VARIABLES
    num_readers_active,    \* AccessData
    num_writers_waiting,   \* AccessData
    writer_active,         \* AccessData
    asleep,                \* the threads blocked in pthread_cond_wait(&cond, &mut)
    pc                     \* what each thread is doing

vars == <<num_readers_active, num_writers_waiting, writer_active, asleep, pc>>

\* "readWait" and "writeWait": inside the while loop around pthread_cond_wait.
PCs == {"idle", "readWait", "reading", "writeWait", "writing"}

Init ==
    /\ num_readers_active = 0
    /\ num_writers_waiting = 0
    /\ writer_active = FALSE
    /\ asleep = {}
    /\ pc = [th \in Threads |-> "idle"]

-----------------------------------------------------------------------------
(* The loop conditions: a thread sleeps while its own condition holds.     *)
(* (Here and below, a definition named Bug... is a faulty variant of the   *)
(* one that follows it: it shows what some property would catch.)          *)

BugWriterIgnoresReaders == writer_active

WriterMustWait == num_readers_active > 0 \/ writer_active

BugReaderOvertakes == writer_active

ReaderMustWait == num_writers_waiting > 0 \/ writer_active

-----------------------------------------------------------------------------
(* acquireWriteLock.  The first region announces the writer, so that no    *)
(* later reader overtakes it, and then tests the loop condition.           *)

RequestWrite(th) ==
    /\ pc[th] = "idle"
    /\ IF WriterMustWait
       THEN /\ num_writers_waiting' = num_writers_waiting + 1
            /\ asleep' = asleep \cup {th}
            /\ pc' = [pc EXCEPT ![th] = "writeWait"]
            /\ UNCHANGED writer_active
       ELSE /\ writer_active' = TRUE
            /\ pc' = [pc EXCEPT ![th] = "writing"]
            /\ UNCHANGED <<num_writers_waiting, asleep>>
    /\ UNCHANGED num_readers_active

BugWriterStaysQueued(th) ==
    /\ pc[th] = "writeWait"
    /\ th \notin asleep
    /\ ~WriterMustWait
    /\ writer_active' = TRUE
    /\ pc' = [pc EXCEPT ![th] = "writing"]
    /\ UNCHANGED <<num_readers_active, num_writers_waiting, asleep>>

\* pthread_cond_wait has returned to a writer: it tests the condition again.
RetryWrite(th) ==
    /\ pc[th] = "writeWait"
    /\ th \notin asleep
    /\ IF WriterMustWait
       THEN /\ asleep' = asleep \cup {th}
            /\ UNCHANGED <<num_writers_waiting, writer_active, pc>>
       ELSE /\ num_writers_waiting' = num_writers_waiting - 1
            /\ writer_active' = TRUE
            /\ pc' = [pc EXCEPT ![th] = "writing"]
            /\ UNCHANGED asleep
    /\ UNCHANGED num_readers_active

BugReleaseWithoutBroadcast(th) ==
    /\ pc[th] = "writing"
    /\ writer_active' = FALSE
    /\ pc' = [pc EXCEPT ![th] = "idle"]
    /\ UNCHANGED <<num_readers_active, num_writers_waiting, asleep>>

releaseWriteLock(th) ==
    /\ pc[th] = "writing"
    /\ writer_active' = FALSE
    /\ asleep' = {}
    /\ pc' = [pc EXCEPT ![th] = "idle"]
    /\ UNCHANGED <<num_readers_active, num_writers_waiting>>

-----------------------------------------------------------------------------
(* readMessageFromFile: the entry region, its loop, and the exit region,   *)
(* which wakes the others only when the last reader leaves.                *)

BugReaderNotCounted(th) ==
    /\ pc[th] = "idle"
    /\ ~ReaderMustWait
    /\ pc' = [pc EXCEPT ![th] = "reading"]
    /\ UNCHANGED <<num_readers_active, num_writers_waiting, writer_active, asleep>>

RequestRead(th) ==
    /\ pc[th] = "idle"
    /\ IF ReaderMustWait
       THEN /\ asleep' = asleep \cup {th}
            /\ pc' = [pc EXCEPT ![th] = "readWait"]
            /\ UNCHANGED num_readers_active
       ELSE /\ num_readers_active' = num_readers_active + 1
            /\ pc' = [pc EXCEPT ![th] = "reading"]
            /\ UNCHANGED asleep
    /\ UNCHANGED <<num_writers_waiting, writer_active>>

BugRetryReadTestsOnce(th) ==
    /\ pc[th] = "readWait"
    /\ th \notin asleep
    /\ num_readers_active' = num_readers_active + 1
    /\ pc' = [pc EXCEPT ![th] = "reading"]
    /\ UNCHANGED <<num_writers_waiting, writer_active, asleep>>

RetryRead(th) ==
    /\ pc[th] = "readWait"
    /\ th \notin asleep
    /\ IF ReaderMustWait
       THEN /\ asleep' = asleep \cup {th}
            /\ UNCHANGED <<num_readers_active, pc>>
       ELSE /\ num_readers_active' = num_readers_active + 1
            /\ pc' = [pc EXCEPT ![th] = "reading"]
            /\ UNCHANGED asleep
    /\ UNCHANGED <<num_writers_waiting, writer_active>>

BugFinishReadWakesEarly(th) ==
    /\ pc[th] = "reading"
    /\ num_readers_active' = num_readers_active - 1
    /\ asleep' = IF num_readers_active = 0 THEN {} ELSE asleep
    /\ pc' = [pc EXCEPT ![th] = "idle"]
    /\ UNCHANGED <<num_writers_waiting, writer_active>>

FinishRead(th) ==
    /\ pc[th] = "reading"
    /\ num_readers_active' = num_readers_active - 1
    /\ asleep' = IF num_readers_active' = 0 THEN {} ELSE asleep
    /\ pc' = [pc EXCEPT ![th] = "idle"]
    /\ UNCHANGED <<num_writers_waiting, writer_active>>

\* POSIX allows pthread_cond_wait to return without a broadcast.
SpuriousWakeup(th) ==
    /\ th \in asleep
    /\ asleep' = asleep \ {th}
    /\ UNCHANGED <<num_readers_active, num_writers_waiting, writer_active, pc>>

-----------------------------------------------------------------------------

\* The steps a thread makes once it has asked for access.
Proceed(th) == RetryWrite(th) \/ releaseWriteLock(th) \/ RetryRead(th) \/ FinishRead(th)

Next ==
    \E th \in Threads :
        \/ RequestWrite(th)
        \/ RequestRead(th)
        \/ Proceed(th)
        \/ SpuriousWakeup(th)

Spec == Init /\ [][Next]_vars

(***************************************************************************)
(* Fairness: a runnable thread keeps running, so it leaves its critical    *)
(* region and, once woken, tests its condition.  Nothing makes a client    *)
(* ask (RequestWrite, RequestRead) and nothing promises a spurious wakeup. *)
(***************************************************************************)
FairSpec == Spec /\ \A th \in Threads : WF_vars(Proceed(th))

-----------------------------------------------------------------------------
(* Properties.                                                             *)

Readers == {th \in Threads : pc[th] = "reading"}
Writers == {th \in Threads : pc[th] = "writing"}
WaitingWriters == {th \in Threads : pc[th] = "writeWait"}

TypeOK ==
    /\ num_readers_active \in Nat
    /\ num_writers_waiting \in Nat
    /\ writer_active \in BOOLEAN
    /\ asleep \subseteq Threads
    /\ pc \in [Threads -> PCs]

\* The counters of AccessData count what they are named after.  Code: every
\* += 1 in acquireWriteLock and readMessageFromFile has its -= 1 on the same path.
CountersExact ==
    /\ num_readers_active = Cardinality(Readers)
    /\ num_writers_waiting = Cardinality(WaitingWriters)
    /\ writer_active <=> Writers # {}

\* Only waiting threads sleep.
SleepersWait == \A th \in asleep : pc[th] \in {"readWait", "writeWait"}

\* Simultaneous reads are allowed, but while one thread writes no other
\* thread reads or writes.  Code: the two while loops over AccessData.
Exclusion ==
    \A w \in Writers : Readers = {} /\ Writers = {w}

\* No wakeup is lost: a thread is left asleep only while the condition of its
\* own loop still holds, so somebody inside (or queued) will broadcast for it.
\* Code: the broadcasts of releaseWriteLock and of the last reader.
NoLostWakeup ==
    \A th \in asleep :
        /\ pc[th] = "writeWait" => WriterMustWait
        /\ pc[th] = "readWait" => ReaderMustWait

\* A queued writer is not shut out: some writer gets the file.  Code: the
\* readers' loop tests num_writers_waiting, so the readers inside drain.
WriterGetsIn == WaitingWriters # {} ~> Writers # {}

\* A reader waits forever only if writers keep coming: a reader is never left
\* waiting from some time on with no writer inside and none queued.  Code: the
\* broadcast of releaseWriteLock reaches the readers that queued behind writers.
ReadersGetIn ==
    \A th \in Threads :
        []<>(num_writers_waiting > 0 \/ writer_active \/ pc[th] # "readWait")

-----------------------------------------------------------------------------
(* The abstract lock this access control implements.                       *)

FL == INSTANCE FileLock WITH readers <- Readers, writers <- Writers

\* To its callers the mutex, the counters and the condition variable behave as
\* a lock that is entered and left atomically.
ImplementsFileLock == FL!Spec
=============================================================================
