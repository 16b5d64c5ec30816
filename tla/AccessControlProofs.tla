-------------------------- MODULE AccessControlProofs --------------------------
(***************************************************************************)
(* Proofs about AccessControl, for any finite set of threads: its counters *)
(* are exact, its exclusion holds, no wakeup is lost, and it implements    *)
(* the atomic lock of module FileLock.                                     *)
(*                                                                         *)
(* Neither Exclusion nor NoLostWakeup is inductive by itself: the loops    *)
(* test the counters and not the threads, so both need CountersExact, and  *)
(* the wakeups need SleepersWait.                                          *)
(***************************************************************************)
EXTENDS AccessControl, FiniteSetTheorems, TLAPS

IInv == TypeOK /\ CountersExact /\ SleepersWait /\ Exclusion /\ NoLostWakeup

-----------------------------------------------------------------------------
(* The inductive invariant.                                                *)

\* The sets the counters count are finite, so a counter is 0 only for {}.
LEMMA RolesAreFinite ==
    /\ IsFiniteSet(Readers) /\ IsFiniteSet(WaitingWriters)
    /\ Cardinality(Readers) \in Nat /\ (Cardinality(Readers) = 0 <=> Readers = {})
    /\ Cardinality(WaitingWriters) \in Nat
    /\ (Cardinality(WaitingWriters) = 0 <=> WaitingWriters = {})
<1>1. Readers \in SUBSET Threads /\ WaitingWriters \in SUBSET Threads
  BY DEF Readers, WaitingWriters
<1>2. IsFiniteSet(Readers) /\ IsFiniteSet(WaitingWriters)
  BY <1>1, ThreadsAssumption, FS_Subset
<1>3. Cardinality(Readers) \in Nat /\ Cardinality(WaitingWriters) \in Nat
  BY <1>2, FS_CardinalityType
<1> QED BY <1>2, <1>3, FS_EmptySet

\* The sets of readers, writers and queued writers depend on pc only, so a step
\* that moves no thread keeps them.
LEMMA RolesSame ==
    pc' = pc => Readers' = Readers /\ Writers' = Writers /\ WaitingWriters' = WaitingWriters
BY DEF Readers, Writers, WaitingWriters

\* What a thread that passes its loop condition knows about the others.
LEMMA PassedWaiting ==
    ASSUME IInv
    PROVE  /\ ~WriterMustWait => Readers = {} /\ Writers = {}
           /\ ~ReaderMustWait => Writers = {}
<1>1. num_readers_active = 0 => Readers = {}
  BY RolesAreFinite DEF IInv, CountersExact
<1> QED BY <1>1 DEF IInv, TypeOK, CountersExact, WriterMustWait, ReaderMustWait

\* AccessData starts at zero, and nobody is inside.
LEMMA InitInvariant == Init => IInv
<1> SUFFICES ASSUME Init PROVE IInv
  OBVIOUS
<1>1. TypeOK /\ SleepersWait /\ NoLostWakeup
  BY DEF Init, TypeOK, PCs, SleepersWait, NoLostWakeup
<1>2. Readers = {} /\ Writers = {} /\ WaitingWriters = {}
  BY DEF Init, Readers, Writers, WaitingWriters
<1>3. CountersExact /\ Exclusion
  BY <1>2, FS_EmptySet DEF Init, CountersExact, Exclusion
<1> QED BY <1>1, <1>3 DEF IInv

\* The counters follow the threads, whatever step a thread makes.
LEMMA NextKeepsCounters == IInv /\ [Next]_vars => TypeOK' /\ CountersExact'
<1> SUFFICES ASSUME IInv, [Next]_vars PROVE TypeOK' /\ CountersExact'
  OBVIOUS
<1> USE DEF IInv
<1>0. pc \in [Threads -> PCs] /\ num_readers_active \in Nat /\ num_writers_waiting \in Nat
  BY DEF TypeOK
<1>1. ASSUME NEW th \in Threads, RequestWrite(th) PROVE TypeOK' /\ CountersExact'
  <2>1. pc[th] = "idle"
    BY <1>1 DEF RequestWrite
  <2>2. CASE WriterMustWait
    <3>1. pc' = [pc EXCEPT ![th] = "writeWait"]
      BY <1>1, <2>2 DEF RequestWrite
    <3>2. TypeOK'
      BY <1>1, <2>2 DEF RequestWrite, TypeOK, PCs
    <3>3. Cardinality(WaitingWriters') = Cardinality(WaitingWriters) + 1
      <4>1. WaitingWriters' = WaitingWriters \cup {th} /\ th \notin WaitingWriters
        BY <1>0, <2>1, <3>1 DEF WaitingWriters
      <4> QED BY <4>1, RolesAreFinite, FS_AddElement
    <3>4. Readers' = Readers /\ Writers' = Writers
      BY <1>0, <2>1, <3>1 DEF Readers, Writers
    <3> QED BY <1>1, <2>2, <3>2, <3>3, <3>4 DEF RequestWrite, CountersExact
  <2>3. CASE ~WriterMustWait
    <3>1. pc' = [pc EXCEPT ![th] = "writing"]
      BY <1>1, <2>3 DEF RequestWrite
    <3>2. TypeOK'
      BY <1>1, <2>3 DEF RequestWrite, TypeOK, PCs
    <3>3. Writers' = Writers \cup {th}
      BY <1>0, <2>1, <3>1 DEF Writers
    <3>4. Readers' = Readers /\ WaitingWriters' = WaitingWriters
      BY <1>0, <2>1, <3>1 DEF Readers, WaitingWriters
    <3> QED BY <1>1, <2>3, <3>2, <3>3, <3>4 DEF RequestWrite, CountersExact
  <2> QED BY <2>2, <2>3
<1>2. ASSUME NEW th \in Threads, RetryWrite(th) PROVE TypeOK' /\ CountersExact'
  <2>1. pc[th] = "writeWait"
    BY <1>2 DEF RetryWrite
  <2>2. CASE WriterMustWait
    <3>1. pc' = pc
      BY <1>2, <2>2 DEF RetryWrite
    <3>2. TypeOK'
      BY <1>2, <2>2 DEF RetryWrite, TypeOK
    <3> QED BY <1>2, <2>2, <3>1, <3>2, RolesSame DEF RetryWrite, CountersExact
  <2>3. CASE ~WriterMustWait
    <3>1. pc' = [pc EXCEPT ![th] = "writing"]
      BY <1>2, <2>3 DEF RetryWrite
    <3>2. th \in WaitingWriters
      BY <2>1 DEF WaitingWriters
    <3>3. TypeOK'
      BY <1>2, <2>3, RolesAreFinite, <3>2 DEF RetryWrite, TypeOK, PCs, CountersExact
    <3>4. Writers' = Writers \cup {th}
      BY <1>0, <2>1, <3>1 DEF Writers
    <3>5. Cardinality(WaitingWriters') = Cardinality(WaitingWriters) - 1
      <4>1. WaitingWriters' = WaitingWriters \ {th} /\ th \in WaitingWriters
        BY <1>0, <2>1, <3>1 DEF WaitingWriters
      <4> QED BY <4>1, RolesAreFinite, FS_RemoveElement
    <3>6. Readers' = Readers
      BY <1>0, <2>1, <3>1 DEF Readers
    <3> QED BY <1>2, <2>3, <3>3, <3>4, <3>5, <3>6 DEF RetryWrite, CountersExact
  <2> QED BY <2>2, <2>3
<1>3. ASSUME NEW th \in Threads, releaseWriteLock(th) PROVE TypeOK' /\ CountersExact'
  <2>1. pc[th] = "writing" /\ pc' = [pc EXCEPT ![th] = "idle"]
    BY <1>3 DEF releaseWriteLock
  <2>2. TypeOK'
    BY <1>3 DEF releaseWriteLock, TypeOK, PCs
  <2>3. Writers' = Writers \ {th}
    BY <1>0, <2>1 DEF Writers
  <2>4. Writers = {th}
    BY <2>1 DEF Exclusion, Writers
  <2>5. Readers' = Readers /\ WaitingWriters' = WaitingWriters
    BY <1>0, <2>1 DEF Readers, WaitingWriters
  <2> QED BY <1>3, <2>2, <2>3, <2>4, <2>5 DEF releaseWriteLock, CountersExact
<1>4. ASSUME NEW th \in Threads, RequestRead(th) PROVE TypeOK' /\ CountersExact'
  <2>1. pc[th] = "idle"
    BY <1>4 DEF RequestRead
  <2>2. TypeOK'
    BY <1>4 DEF RequestRead, TypeOK, PCs
  <2>3. CASE ReaderMustWait
    <3>1. pc' = [pc EXCEPT ![th] = "readWait"]
      BY <1>4, <2>3 DEF RequestRead
    <3>2. Readers' = Readers /\ Writers' = Writers /\ WaitingWriters' = WaitingWriters
      BY <1>0, <2>1, <3>1 DEF Readers, Writers, WaitingWriters
    <3> QED BY <1>4, <2>2, <2>3, <3>2 DEF RequestRead, CountersExact
  <2>4. CASE ~ReaderMustWait
    <3>1. pc' = [pc EXCEPT ![th] = "reading"]
      BY <1>4, <2>4 DEF RequestRead
    <3>2. Cardinality(Readers') = Cardinality(Readers) + 1
      <4>1. Readers' = Readers \cup {th} /\ th \notin Readers
        BY <1>0, <2>1, <3>1 DEF Readers
      <4> QED BY <4>1, RolesAreFinite, FS_AddElement
    <3>3. Writers' = Writers /\ WaitingWriters' = WaitingWriters
      BY <1>0, <2>1, <3>1 DEF Writers, WaitingWriters
    <3> QED BY <1>4, <2>2, <2>4, <3>2, <3>3 DEF RequestRead, CountersExact
  <2> QED BY <2>3, <2>4
<1>5. ASSUME NEW th \in Threads, RetryRead(th) PROVE TypeOK' /\ CountersExact'
  <2>1. pc[th] = "readWait"
    BY <1>5 DEF RetryRead
  <2>2. TypeOK'
    BY <1>5 DEF RetryRead, TypeOK, PCs
  <2>3. CASE ReaderMustWait
    <3>1. pc' = pc
      BY <1>5, <2>3 DEF RetryRead
    <3> QED BY <1>5, <2>2, <2>3, <3>1, RolesSame DEF RetryRead, CountersExact
  <2>4. CASE ~ReaderMustWait
    <3>1. pc' = [pc EXCEPT ![th] = "reading"]
      BY <1>5, <2>4 DEF RetryRead
    <3>2. Cardinality(Readers') = Cardinality(Readers) + 1
      <4>1. Readers' = Readers \cup {th} /\ th \notin Readers
        BY <1>0, <2>1, <3>1 DEF Readers
      <4> QED BY <4>1, RolesAreFinite, FS_AddElement
    <3>3. Writers' = Writers /\ WaitingWriters' = WaitingWriters
      BY <1>0, <2>1, <3>1 DEF Writers, WaitingWriters
    <3> QED BY <1>5, <2>2, <2>4, <3>2, <3>3 DEF RetryRead, CountersExact
  <2> QED BY <2>3, <2>4
<1>6. ASSUME NEW th \in Threads, FinishRead(th) PROVE TypeOK' /\ CountersExact'
  <2>1. pc[th] = "reading" /\ pc' = [pc EXCEPT ![th] = "idle"]
    BY <1>6 DEF FinishRead
  <2>2. th \in Readers
    BY <2>1 DEF Readers
  <2>3. TypeOK'
    BY <1>6, RolesAreFinite, <2>2 DEF FinishRead, TypeOK, PCs, CountersExact
  <2>4. Cardinality(Readers') = Cardinality(Readers) - 1
    <3>1. Readers' = Readers \ {th} /\ th \in Readers
      BY <1>0, <2>1 DEF Readers
    <3> QED BY <3>1, RolesAreFinite, FS_RemoveElement
  <2>5. Writers' = Writers /\ WaitingWriters' = WaitingWriters
    BY <1>0, <2>1 DEF Writers, WaitingWriters
  <2> QED BY <1>6, <2>3, <2>4, <2>5 DEF FinishRead, CountersExact
<1>7. ASSUME NEW th \in Threads, SpuriousWakeup(th) PROVE TypeOK' /\ CountersExact'
  <2>1. TypeOK'
    BY <1>7 DEF SpuriousWakeup, TypeOK
  <2> QED BY <1>7, <2>1, RolesSame DEF SpuriousWakeup, CountersExact
<1>8. CASE UNCHANGED vars
  <2>1. TypeOK'
    BY <1>8 DEF vars, TypeOK
  <2> QED BY <1>8, <2>1, RolesSame DEF vars, CountersExact
<1> QED BY <1>1, <1>2, <1>3, <1>4, <1>5, <1>6, <1>7, <1>8 DEF Next, Proceed

\* A thread inside is inside alone or with readers only, whatever step is made.
LEMMA NextKeepsExclusion == IInv /\ [Next]_vars => Exclusion'
<1> SUFFICES ASSUME IInv, [Next]_vars PROVE Exclusion'
  OBVIOUS
<1>0. pc \in [Threads -> PCs]
  BY DEF IInv, TypeOK
<1>1. ASSUME NEW th \in Threads, RequestWrite(th) \/ RetryWrite(th) PROVE Exclusion'
  <2>1. CASE WriterMustWait
    <3>1. Readers' \subseteq Readers /\ Writers' = Writers
      BY <1>0, <1>1, <2>1 DEF RequestWrite, RetryWrite, Readers, Writers
    <3> QED BY <3>1 DEF IInv, Exclusion
  <2>2. CASE ~WriterMustWait
    <3>1. Readers' \subseteq Readers /\ Writers' \subseteq Writers \cup {th}
      BY <1>0, <1>1, <2>2 DEF RequestWrite, RetryWrite, Readers, Writers
    <3> QED BY <2>2, <3>1, PassedWaiting DEF Exclusion
  <2> QED BY <2>1, <2>2
<1>2. ASSUME NEW th \in Threads, RequestRead(th) \/ RetryRead(th) PROVE Exclusion'
  <2>1. CASE ReaderMustWait
    <3>1. Readers' \subseteq Readers /\ Writers' = Writers
      BY <1>0, <1>2, <2>1 DEF RequestRead, RetryRead, Readers, Writers
    <3> QED BY <3>1 DEF IInv, Exclusion
  <2>2. CASE ~ReaderMustWait
    <3>1. Writers' \subseteq Writers
      BY <1>0, <1>2, <2>2 DEF RequestRead, RetryRead, Writers
    <3> QED BY <2>2, <3>1, PassedWaiting DEF Exclusion
  <2> QED BY <2>1, <2>2
<1>3. ASSUME NEW th \in Threads,
             releaseWriteLock(th) \/ FinishRead(th) \/ SpuriousWakeup(th)
      PROVE Exclusion'
  <2>1. Readers' \subseteq Readers /\ Writers' \subseteq Writers
    BY <1>0, <1>3 DEF releaseWriteLock, FinishRead, SpuriousWakeup, Readers, Writers
  <2> QED BY <2>1 DEF IInv, Exclusion
<1>4. CASE UNCHANGED vars
  BY <1>4 DEF IInv, vars, Exclusion, Readers, Writers
<1> QED BY <1>1, <1>2, <1>3, <1>4 DEF Next, Proceed

\* Whoever stays asleep still has something to wait for, whatever step is made.
LEMMA NextKeepsWakeups == IInv /\ [Next]_vars => SleepersWait' /\ NoLostWakeup'
<1> SUFFICES ASSUME IInv, [Next]_vars PROVE SleepersWait' /\ NoLostWakeup'
  OBVIOUS
<1> USE DEF IInv, TypeOK, SleepersWait, NoLostWakeup, WriterMustWait, ReaderMustWait
<1>1. ASSUME NEW th \in Threads, RequestWrite(th) PROVE SleepersWait' /\ NoLostWakeup'
  BY <1>1 DEF RequestWrite
<1>2. ASSUME NEW th \in Threads, RetryWrite(th) PROVE SleepersWait' /\ NoLostWakeup'
  BY <1>2 DEF RetryWrite
<1>3. ASSUME NEW th \in Threads, releaseWriteLock(th) PROVE SleepersWait' /\ NoLostWakeup'
  BY <1>3 DEF releaseWriteLock
<1>4. ASSUME NEW th \in Threads, RequestRead(th) PROVE SleepersWait' /\ NoLostWakeup'
  BY <1>4 DEF RequestRead
<1>5. ASSUME NEW th \in Threads, RetryRead(th) PROVE SleepersWait' /\ NoLostWakeup'
  BY <1>5 DEF RetryRead
<1>6. ASSUME NEW th \in Threads, FinishRead(th) PROVE SleepersWait' /\ NoLostWakeup'
  <2>1. num_readers_active' \in Nat
    BY NextKeepsCounters
  <2> QED BY <1>6, <2>1 DEF FinishRead
<1>7. ASSUME NEW th \in Threads, SpuriousWakeup(th) PROVE SleepersWait' /\ NoLostWakeup'
  BY <1>7 DEF SpuriousWakeup
<1>8. CASE UNCHANGED vars
  BY <1>8 DEF vars
<1> QED BY <1>1, <1>2, <1>3, <1>4, <1>5, <1>6, <1>7, <1>8 DEF Next, Proceed

\* IInv holds in every reachable state.
THEOREM Invariance == Spec => []IInv
<1>1. IInv /\ [Next]_vars => IInv'
  BY NextKeepsCounters, NextKeepsExclusion, NextKeepsWakeups DEF IInv
<1> QED BY InitInvariant, <1>1, PTL DEF Spec

-----------------------------------------------------------------------------
(* The theorems.                                                           *)

\* AccessData keeps its types: in particular no counter goes below zero.
THEOREM TypeCorrect == Spec => []TypeOK
BY Invariance, PTL DEF IInv

\* Many readers or one writer, for any number of threads.
THEOREM MutualExclusion == Spec => []Exclusion
BY Invariance, PTL DEF IInv

\* The counters of AccessData are the numbers of threads they stand for.
THEOREM CountersAreExact == Spec => []CountersExact
BY Invariance, PTL DEF IInv

\* No broadcast is missing in releaseWriteLock and readMessageFromFile.
THEOREM WakeupsAreNotLost == Spec => []NoLostWakeup
BY Invariance, PTL DEF IInv

-----------------------------------------------------------------------------
(* Refinement.                                                             *)

\* A step of one thread enters, leaves or stutters at the atomic lock.
LEMMA StepRefines ==
    IInv /\ [Next]_vars => [FL!Next]_(FL!lockVars)
<1> SUFFICES ASSUME IInv, [Next]_vars PROVE [FL!Next]_(FL!lockVars)
  OBVIOUS
<1>0. pc \in [Threads -> PCs]
  BY DEF IInv, TypeOK
<1> DEFINE Stutters == Readers' = Readers /\ Writers' = Writers
<1>a. Stutters => [FL!Next]_(FL!lockVars)
  BY DEF FL!lockVars
<1>1. ASSUME NEW th \in Threads, RequestWrite(th) \/ RetryWrite(th)
      PROVE [FL!Next]_(FL!lockVars)
  <2>1. CASE WriterMustWait
    <3>1. Stutters
      BY <1>0, <1>1, <2>1 DEF RequestWrite, RetryWrite, Readers, Writers
    <3> QED BY <1>a, <3>1
  <2>2. CASE ~WriterMustWait
    <3>1. Readers = {} /\ Writers = {}
      BY <2>2, PassedWaiting
    <3>2. Readers' = Readers /\ Writers' = Writers \cup {th}
      BY <1>0, <1>1, <2>2 DEF RequestWrite, RetryWrite, Readers, Writers
    <3>3. FL!EnterWrite(th)
      BY <3>1, <3>2 DEF FL!EnterWrite
    <3> QED BY <3>3 DEF FL!Next
  <2> QED BY <2>1, <2>2
<1>2. ASSUME NEW th \in Threads, RequestRead(th) \/ RetryRead(th)
      PROVE [FL!Next]_(FL!lockVars)
  <2>1. CASE ReaderMustWait
    <3>1. Stutters
      BY <1>0, <1>2, <2>1 DEF RequestRead, RetryRead, Readers, Writers
    <3> QED BY <1>a, <3>1
  <2>2. CASE ~ReaderMustWait
    <3>1. Writers = {}
      BY <2>2, PassedWaiting
    <3>2. Readers' = Readers \cup {th} /\ th \notin Readers /\ Writers' = Writers
      BY <1>0, <1>2, <2>2 DEF RequestRead, RetryRead, Readers, Writers
    <3>3. FL!EnterRead(th)
      BY <3>1, <3>2 DEF FL!EnterRead
    <3> QED BY <3>3 DEF FL!Next
  <2> QED BY <2>1, <2>2
<1>3. ASSUME NEW th \in Threads, releaseWriteLock(th) PROVE [FL!Next]_(FL!lockVars)
  <2>1. Readers' = Readers /\ Writers' = Writers \ {th} /\ th \in Writers
    BY <1>0, <1>3 DEF releaseWriteLock, Readers, Writers
  <2>2. Writers = {th}
    BY <2>1 DEF IInv, Exclusion
  <2>3. FL!LeaveWrite(th)
    BY <2>1, <2>2 DEF FL!LeaveWrite
  <2> QED BY <2>3 DEF FL!Next
<1>4. ASSUME NEW th \in Threads, FinishRead(th) PROVE [FL!Next]_(FL!lockVars)
  <2>1. Readers' = Readers \ {th} /\ th \in Readers /\ Writers' = Writers
    BY <1>0, <1>4 DEF FinishRead, Readers, Writers
  <2>2. FL!LeaveRead(th)
    BY <2>1 DEF FL!LeaveRead
  <2> QED BY <2>2 DEF FL!Next
<1>5. ASSUME NEW th \in Threads, SpuriousWakeup(th) PROVE [FL!Next]_(FL!lockVars)
  BY <1>5, <1>a, RolesSame DEF SpuriousWakeup
<1>6. CASE UNCHANGED vars
  BY <1>6, <1>a, RolesSame DEF vars
<1> QED BY <1>1, <1>2, <1>3, <1>4, <1>5, <1>6 DEF Next, Proceed

\* The counters, the mutex and the condition variable implement a lock that is
\* entered and left atomically.
THEOREM Refinement == Spec => ImplementsFileLock
<1>1. Init => FL!Init
  BY DEF Init, FL!Init, Readers, Writers
<1> QED BY <1>1, StepRefines, Invariance, PTL DEF Spec, ImplementsFileLock, FL!Spec
=============================================================================
