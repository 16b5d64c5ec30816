------------------------- MODULE SynchronizationProofs -------------------------
(***************************************************************************)
(* Proofs about Synchronization, for any cluster and any set of requests,  *)
(* with crashes: the threads of a request agree on what they tell the      *)
(* peers, and the flags they read without peerCommunicationMutex no longer *)
(* change when they read them.                                             *)
(*                                                                         *)
(* The threads decide from shared flags, at different times.  The argument *)
(* is that a decision freezes the flags: the counter of pending            *)
(* acknowledgements counts exactly the threads that have not counted down, *)
(* a failure leaves behind a thread that never will, and so the counter is *)
(* 0 only if there was, and will be, no failure.                           *)
(***************************************************************************)
EXTENDS Synchronization, FiniteSetTheorems, TLAPS

-----------------------------------------------------------------------------
(* The inductive invariant.                                                *)

MasterTypeOK ==
    /\ ctl \in [Txns -> Ctls]
    /\ pc \in [Threads -> PCs]
    /\ lastSent \in [Threads -> MasterMessages \cup {"none"}]
    /\ shouldAbort \in [Txns -> BOOLEAN]
    /\ didFail \in [Txns -> BOOLEAN]
    /\ precommitPending \in [Txns -> Nat]
    /\ commitPending \in [Txns -> Nat]
    /\ completion \in [Txns -> Completions]

\* The last message a thread sent follows from where it is.
Positions ==
    \A th \in Threads :
        /\ ctl[th[1]] = "idle" => pc[th] = "none"
        /\ pc[th] \in {"none", "created", "connected"} => lastSent[th] = "none"
        /\ pc[th] \in {"PRECOMMIT_SENT", "gotReady", "waitReady", "decide"} =>
             lastSent[th] = "PRECOMMIT"
        /\ pc[th] = "notifyAbort" => lastSent[th] \in {"none", "PRECOMMIT"}
        /\ pc[th] \in {"COMMIT_SENT", "gotSuccess", "waitSuccess", "finalize", "lockOp",
                       "masterOp", "sendFinal", "notifyUndo"} => lastSent[th] = "COMMIT"

\* The thread has counted the READY of its peer.
Ready(th) == pc[th] \in {"waitReady", "decide"} \/ lastSent[th] \in {"ABORT"} \cup AfterCommit

Unready(t) == {th \in ThreadsOf(t) : ~Ready(th)}

Over(th) == pc[th] \in {"close", "done"}

\* What a thread of t that is past its first wait knows.
FirstDecision(t, th) ==
    /\ pc[th] = "decide" => Unready(t) = {} \/ shouldAbort[t]
    /\ lastSent[th] = "ABORT" => shouldAbort[t]
    /\ lastSent[th] \in AfterCommit => Unready(t) = {}

PhaseOne ==
    \A t \in Txns :
        /\ precommitPending[t] = Cardinality(Unready(t))
        /\ shouldAbort[t] => \E th \in Unready(t) : Over(th)
        /\ \A th \in ThreadsOf(t) : FirstDecision(t, th)

\* The thread has counted the COMMIT_SUCCESS of its peer.
Committed(th) ==
    \/ pc[th] \in {"waitSuccess", "finalize", "lockOp", "masterOp", "sendFinal"}
    \/ lastSent[th] \in {"SUCCESS_NOOP", "UNSUCCESS_UNDO"}

Uncommitted(t) == {th \in ThreadsOf(t) : ~Committed(th)}

\* What a thread of t that is past its second wait knows.
FinalDecision(t, th) ==
    /\ pc[th] = "finalize" => Uncommitted(t) = {} \/ didFail[t]
    /\ pc[th] \in {"lockOp", "masterOp"} => Uncommitted(t) = {}
    /\ pc[th] = "sendFinal" => completion[t] # "" \/ didFail[t]
    /\ lastSent[th] = "SUCCESS_NOOP" => completion[t] = "WROTE"
    /\ lastSent[th] = "UNSUCCESS_UNDO" => didFail[t] \/ completion[t] = "ERROR"

PhaseTwo ==
    \A t \in Txns :
        /\ commitPending[t] = Cardinality(Uncommitted(t))
        /\ didFail[t] => \E th \in Uncommitted(t) : Over(th)
        /\ completion[t] # "" => Uncommitted(t) = {}
        /\ \A th \in ThreadsOf(t) : FinalDecision(t, th)

\* The mutex: one thread of a request at most performs the master's operation,
\* and only while there is no result.
OneMasterOp ==
    \A a \in Threads : At(a, "masterOp") =>
        /\ completion[a[1]] = ""
        /\ \A b \in Threads : At(b, "masterOp") /\ b[1] = a[1] => b = a

IInv == MasterTypeOK /\ Positions /\ PhaseOne /\ PhaseTwo /\ OneMasterOp

-----------------------------------------------------------------------------
(* Threads and counters.                                                   *)

\* A thread belongs to one request, and a request has finitely many.
LEMMA ThreadFacts ==
    /\ \A th \in Threads : th[1] \in Txns /\ th \in ThreadsOf(th[1])
    /\ \A t \in Txns : \A th \in ThreadsOf(t) : th \in Threads /\ th[1] = t
    /\ \A t \in Txns : IsFiniteSet(ThreadsOf(t))
<1>1. IsFiniteSet(Txns \X Nodes)
  BY BoardAssumption, FS_Product
<1>2. \A t \in Txns : ThreadsOf(t) \in SUBSET (Txns \X Nodes)
  BY DEF ThreadsOf, Threads
<1>3. \A t \in Txns : IsFiniteSet(ThreadsOf(t))
  BY <1>1, <1>2, FS_Subset
<1>4. \A th \in Threads : th[1] \in Txns
  BY DEF Threads
<1> QED BY <1>3, <1>4 DEF ThreadsOf

\* A counter that is 0 has nothing left to count.
LEMMA CounterFacts ==
    ASSUME NEW t \in Txns
    PROVE  /\ IsFiniteSet(Unready(t)) /\ IsFiniteSet(Uncommitted(t))
           /\ Cardinality(Unready(t)) \in Nat /\ Cardinality(Uncommitted(t)) \in Nat
           /\ Cardinality(Unready(t)) = 0 <=> Unready(t) = {}
           /\ Cardinality(Uncommitted(t)) = 0 <=> Uncommitted(t) = {}
<1>1. Unready(t) \in SUBSET ThreadsOf(t) /\ Uncommitted(t) \in SUBSET ThreadsOf(t)
  BY DEF Unready, Uncommitted
<1>2. IsFiniteSet(Unready(t)) /\ IsFiniteSet(Uncommitted(t))
  BY <1>1, ThreadFacts, FS_Subset
<1> QED BY <1>2, FS_CardinalityType, FS_EmptySet

\* A request that has been told to abort never has all its threads ready, one
\* that has failed never has all of them committed.
LEMMA FailureIsFinal ==
    IInv => \A t \in Txns : /\ shouldAbort[t] => Unready(t) # {}
                            /\ didFail[t] => Uncommitted(t) # {}
BY DEF IInv, PhaseOne, PhaseTwo

-----------------------------------------------------------------------------
(* Steps that leave a phase alone.                                         *)

KeepsPhaseOne ==
    /\ UNCHANGED <<precommitPending, shouldAbort>>
    /\ \A x \in Threads :
         /\ Ready(x)' <=> Ready(x)
         /\ Over(x) => Over(x)'
         /\ pc'[x] = "decide" => pc[x] = "decide"
         /\ lastSent'[x] = "ABORT" => lastSent[x] = "ABORT"
         /\ lastSent'[x] \in AfterCommit => lastSent[x] \in AfterCommit

KeepsPhaseTwo ==
    /\ UNCHANGED <<commitPending, didFail, completion>>
    /\ \A x \in Threads :
         /\ Committed(x)' <=> Committed(x)
         /\ Over(x) => Over(x)'
         /\ pc'[x] \in {"finalize", "lockOp", "masterOp", "sendFinal"} => pc'[x] = pc[x]
         /\ lastSent'[x] \in {"SUCCESS_NOOP", "UNSUCCESS_UNDO"} => lastSent'[x] = lastSent[x]

\* A step that counts nothing and decides nothing new keeps what is known of the
\* first decision (ABORT or COMMIT).
LEMMA PhaseOneKept == IInv /\ KeepsPhaseOne => PhaseOne'
<1> SUFFICES ASSUME IInv, KeepsPhaseOne, NEW t \in Txns
             PROVE  PhaseOne!(t)'
  BY DEF PhaseOne
<1>1. Unready(t)' = Unready(t)
  BY ThreadFacts DEF KeepsPhaseOne, Unready
<1>2. \A th \in ThreadsOf(t) : th \in Threads
  BY ThreadFacts
<1>3. PhaseOne!(t)
  BY DEF IInv, PhaseOne
<1>4. precommitPending'[t] = precommitPending[t] /\ shouldAbort'[t] = shouldAbort[t]
  BY DEF KeepsPhaseOne
<1>5. shouldAbort[t] => \E th \in Unready(t) : Over(th)'
  BY <1>2, <1>3 DEF KeepsPhaseOne, Unready
<1> QED BY <1>1, <1>2, <1>3, <1>4, <1>5 DEF KeepsPhaseOne, FirstDecision

\* The same for the second decision (SUCCESS_NOOP or UNSUCCESS_UNDO).
LEMMA PhaseTwoKept == IInv /\ KeepsPhaseTwo => PhaseTwo'
<1> SUFFICES ASSUME IInv, KeepsPhaseTwo, NEW t \in Txns
             PROVE  PhaseTwo!(t)'
  BY DEF PhaseTwo
<1>1. Uncommitted(t)' = Uncommitted(t)
  BY ThreadFacts DEF KeepsPhaseTwo, Uncommitted
<1>2. \A th \in ThreadsOf(t) : th \in Threads
  BY ThreadFacts
<1>3. PhaseTwo!(t)
  BY DEF IInv, PhaseTwo
<1>4. /\ commitPending'[t] = commitPending[t] /\ didFail'[t] = didFail[t]
      /\ completion'[t] = completion[t]
  BY DEF KeepsPhaseTwo
<1>5. didFail[t] => \E th \in Uncommitted(t) : Over(th)'
  BY <1>2, <1>3 DEF KeepsPhaseTwo, Uncommitted
<1> QED BY <1>1, <1>2, <1>3, <1>4, <1>5 DEF KeepsPhaseTwo, FinalDecision

\* No thread begins the master's operation.
KeepsMasterOp ==
    /\ UNCHANGED completion
    /\ \A x \in Threads : At(x, "masterOp")' => At(x, "masterOp")

\* A step that brings no thread to the master's operation keeps it exclusive.
LEMMA MasterOpKept == IInv /\ KeepsMasterOp => OneMasterOp'
BY DEF IInv, OneMasterOp, KeepsMasterOp

-----------------------------------------------------------------------------
(* Steps of one communicateWithPeer thread.                                *)

\* Thread th goes from one place to another and changes nothing it shares.
Moves(th, from, to) ==
    At(th, from) /\ Goto(th, to) /\ UNCHANGED <<ctl, lastSent, statVars>>

\* The moves that neither count an acknowledgement nor take a decision.
QuietMove(th) ==
    \/ Moves(th, "created", "connected") \/ Moves(th, "created", "notifyAbort")
    \/ Moves(th, "PRECOMMIT_SENT", "gotReady") \/ Moves(th, "PRECOMMIT_SENT", "notifyAbort")
    \/ Moves(th, "PRECOMMIT_SENT", "close") \/ Moves(th, "COMMIT_SENT", "gotSuccess")
    \/ Moves(th, "COMMIT_SENT", "notifyUndo") \/ Moves(th, "COMMIT_SENT", "close")
    \/ Moves(th, "waitReady", "waitReady") \/ Moves(th, "waitSuccess", "waitSuccess")
    \/ Moves(th, "close", "done")

\* Connecting, receiving, going back to sleep and closing decide nothing.
LEMMA QuietMoveKeepsInvariant ==
    ASSUME IInv, NEW th \in Threads, QuietMove(th)
    PROVE  IInv'
<1> USE DEF QuietMove, Moves, Goto, At, statVars
<1>0. MasterTypeOK /\ th[1] \in Txns
  BY ThreadFacts DEF IInv
<1>1. MasterTypeOK'
  BY <1>0 DEF MasterTypeOK, PCs
<1>2. Positions'
  BY <1>0 DEF IInv, MasterTypeOK, Positions
<1>3. KeepsPhaseOne
  BY <1>0 DEF IInv, MasterTypeOK, Positions, KeepsPhaseOne, Ready, Over, AfterCommit
<1>4. KeepsPhaseTwo
  BY <1>0 DEF IInv, MasterTypeOK, Positions, KeepsPhaseTwo, Committed, Over
<1>5. KeepsMasterOp
  BY <1>0 DEF MasterTypeOK, KeepsMasterOp
<1> QED BY <1>1, <1>2, <1>3, <1>4, <1>5, PhaseOneKept, PhaseTwoKept, MasterOpKept DEF IInv

\* PRECOMMIT decides nothing.
LEMMA SendPrecommitKeepsInvariant ==
    ASSUME IInv, NEW th \in Threads, SendPrecommit(th)
    PROVE  IInv'
<1> USE DEF SendPrecommit, SendAndGoto, Goto, At, statVars
<1>0. MasterTypeOK /\ th[1] \in Txns
  BY ThreadFacts DEF IInv
<1>1. MasterTypeOK'
  BY <1>0 DEF MasterTypeOK, PCs, MasterMessages
<1>2. Positions'
  BY <1>0 DEF IInv, MasterTypeOK, Positions
<1>3. KeepsPhaseOne
  BY <1>0 DEF IInv, MasterTypeOK, Positions, KeepsPhaseOne, Ready, Over, AfterCommit
<1>4. KeepsPhaseTwo
  BY <1>0 DEF IInv, MasterTypeOK, Positions, KeepsPhaseTwo, Committed, Over
<1>5. KeepsMasterOp
  BY <1>0 DEF MasterTypeOK, KeepsMasterOp
<1> QED BY <1>1, <1>2, <1>3, <1>4, <1>5, PhaseOneKept, PhaseTwoKept, MasterOpKept DEF IInv

\* Counting a READY takes the thread out of Unready and one from the counter.
LEMMA CountReadyKeepsInvariant ==
    ASSUME IInv, NEW th \in Threads, CountReady(th)
    PROVE  IInv'
<1> DEFINE t == th[1]
<1> USE DEF CountReady, Goto, At
<1>0. MasterTypeOK /\ t \in Txns /\ th \in ThreadsOf(t)
  BY ThreadFacts DEF IInv
<1>a. th \in Unready(t)
  BY <1>0 DEF IInv, Positions, Unready, Ready, AfterCommit
<1>b. Unready(t)' = Unready(t) \ {th}
  BY <1>0, ThreadFacts DEF MasterTypeOK, Unready, Ready
<1>c. \A u \in Txns : u # t => Unready(u)' = Unready(u)
  BY <1>0, ThreadFacts DEF MasterTypeOK, Unready, Ready
<1>d. Cardinality(Unready(t)') = precommitPending[t] - 1 /\ precommitPending[t] - 1 \in Nat
  <2>1. Cardinality(Unready(t) \ {th}) = Cardinality(Unready(t)) - 1
    BY <1>0, <1>a, CounterFacts, FS_RemoveElement
  <2>2. precommitPending[t] = Cardinality(Unready(t))
    BY <1>0 DEF IInv, PhaseOne
  <2>3. Cardinality(Unready(t)) \in Nat /\ Cardinality(Unready(t)) # 0
    BY <1>0, <1>a, CounterFacts
  <2> QED BY <1>b, <2>1, <2>2, <2>3
<1>e. precommitPending'[t] = 0 => Unready(t)' = {}
  <2>1. IsFiniteSet(Unready(t)')
    BY <1>0, <1>b, CounterFacts, FS_RemoveElement
  <2> QED BY <1>0, <1>d, <2>1, FS_EmptySet DEF MasterTypeOK
<1>1. MasterTypeOK'
  BY <1>0, <1>d DEF MasterTypeOK, PCs
<1>2. Positions'
  BY <1>0 DEF IInv, MasterTypeOK, Positions
<1>3. PhaseOne'
  <2> SUFFICES ASSUME NEW u \in Txns PROVE PhaseOne!(u)'
    BY DEF PhaseOne
  <2>0. PhaseOne!(u)
    BY DEF IInv, PhaseOne
  <2>1. precommitPending'[u] = Cardinality(Unready(u)')
    BY <1>0, <1>c, <1>d, <2>0 DEF MasterTypeOK
  <2>2. shouldAbort'[u] => \E x \in Unready(u)' : Over(x)'
    <3> SUFFICES ASSUME shouldAbort[u] PROVE \E x \in Unready(u)' : Over(x)'
      OBVIOUS
    <3>1. PICK x \in Unready(u) : Over(x)
      BY <2>0
    <3>2. x # th /\ x \in Threads
      BY <3>1, ThreadFacts DEF Over, Unready
    <3>3. Over(x)'
      BY <1>0, <3>1, <3>2 DEF MasterTypeOK, Over
    <3> QED BY <1>b, <1>c, <3>1, <3>2, <3>3
  <2>3. \A x \in ThreadsOf(u) : FirstDecision(u, x)'
    BY <1>0, <1>b, <1>c, <1>e, <2>0, ThreadFacts DEF FirstDecision, MasterTypeOK
  <2> QED BY <2>1, <2>2, <2>3
<1>4. KeepsPhaseTwo
  BY <1>0 DEF IInv, MasterTypeOK, Positions, KeepsPhaseTwo, Committed, Over
<1>5. KeepsMasterOp
  BY <1>0 DEF MasterTypeOK, KeepsMasterOp
<1> QED BY <1>1, <1>2, <1>3, <1>4, <1>5, PhaseTwoKept, MasterOpKept DEF IInv

\* A thread leaves its first wait when all are ready or the request is aborted.
LEMMA RetestReadyKeepsInvariant ==
    ASSUME IInv, NEW th \in Threads, RetestReady(th)
    PROVE  IInv'
<1> DEFINE t == th[1]
<1> USE DEF RetestReady, Goto, At, statVars
<1>0. MasterTypeOK /\ t \in Txns /\ th \in ThreadsOf(t)
  BY ThreadFacts DEF IInv
<1>1. CASE ~(precommitPending[t] = 0 \/ shouldAbort[t])
  <2>1. QuietMove(th)
    BY <1>1 DEF QuietMove, Moves
  <2> QED BY <2>1, QuietMoveKeepsInvariant
<1>2. CASE precommitPending[t] = 0 \/ shouldAbort[t]
  <2>a. Unready(t) = {} \/ shouldAbort[t]
    BY <1>0, <1>2, CounterFacts DEF IInv, PhaseOne
  <2>b. \A x \in Threads : (Ready(x)' <=> Ready(x)) /\ (Over(x)' <=> Over(x))
    BY <1>0, <1>2 DEF MasterTypeOK, Ready, Over
  <2>c. \A u \in Txns : Unready(u)' = Unready(u)
    BY <2>b, ThreadFacts DEF Unready
  <2>1. MasterTypeOK'
    BY <1>0, <1>2 DEF MasterTypeOK, PCs
  <2>2. Positions'
    BY <1>0, <1>2 DEF IInv, MasterTypeOK, Positions
  <2>3. PhaseOne'
    <3> SUFFICES ASSUME NEW u \in Txns PROVE PhaseOne!(u)'
      BY DEF PhaseOne
    <3>0. PhaseOne!(u) /\ Unready(u)' = Unready(u)
      BY <2>c DEF IInv, PhaseOne
    <3>1. shouldAbort'[u] => \E x \in Unready(u)' : Over(x)'
      BY <2>b, <3>0, ThreadFacts DEF Unready
    <3>2. \A x \in ThreadsOf(u) : FirstDecision(u, x)'
      BY <1>0, <2>a, <3>0, ThreadFacts DEF FirstDecision, MasterTypeOK
    <3> QED BY <3>0, <3>1, <3>2
  <2>4. KeepsPhaseTwo
    BY <1>0, <1>2 DEF IInv, MasterTypeOK, Positions, KeepsPhaseTwo, Committed, Over
  <2>5. KeepsMasterOp
    BY <1>0, <1>2 DEF MasterTypeOK, KeepsMasterOp
  <2> QED BY <2>1, <2>2, <2>3, <2>4, <2>5, PhaseTwoKept, MasterOpKept DEF IInv
<1> QED BY <1>1, <1>2

\* The decision itself: ABORT after a failure, COMMIT only if nobody is unready.
LEMMA DecideKeepsInvariant ==
    ASSUME IInv, NEW th \in Threads, Decide(th)
    PROVE  IInv'
<1> DEFINE t == th[1]
<1> USE DEF Decide, SendAndGoto, Goto, At, statVars
<1>0. MasterTypeOK /\ t \in Txns /\ th \in ThreadsOf(t)
  BY ThreadFacts DEF IInv
<1>a. ~shouldAbort[t] => Unready(t) = {}
  BY <1>0 DEF IInv, PhaseOne, FirstDecision
<1>b. \A x \in Threads : (Ready(x)' <=> Ready(x)) /\ (Over(x) => Over(x)')
  BY <1>0 DEF MasterTypeOK, Ready, Over, AfterCommit
<1>c. \A u \in Txns : Unready(u)' = Unready(u)
  BY <1>b, ThreadFacts DEF Unready
<1>1. MasterTypeOK'
  BY <1>0 DEF MasterTypeOK, PCs, MasterMessages
<1>2. Positions'
  BY <1>0 DEF IInv, MasterTypeOK, Positions
<1>3. PhaseOne'
  <2> SUFFICES ASSUME NEW u \in Txns PROVE PhaseOne!(u)'
    BY DEF PhaseOne
  <2>0. PhaseOne!(u) /\ Unready(u)' = Unready(u)
    BY <1>c DEF IInv, PhaseOne
  <2>1. shouldAbort'[u] => \E x \in Unready(u)' : Over(x)'
    BY <1>b, <2>0, ThreadFacts DEF Unready
  <2>2. \A x \in ThreadsOf(u) : FirstDecision(u, x)'
    BY <1>0, <1>a, <2>0, ThreadFacts DEF FirstDecision, MasterTypeOK, AfterCommit
  <2> QED BY <2>0, <2>1, <2>2
<1>4. KeepsPhaseTwo
  BY <1>0 DEF IInv, MasterTypeOK, Positions, KeepsPhaseTwo, Committed, Over
<1>5. KeepsMasterOp
  BY <1>0 DEF MasterTypeOK, KeepsMasterOp
<1> QED BY <1>1, <1>2, <1>3, <1>4, <1>5, PhaseTwoKept, MasterOpKept DEF IInv

\* The thread that reports a failure is not ready and stays behind as the proof.
LEMMA NotifyAbortKeepsInvariant ==
    ASSUME IInv, NEW th \in Threads, NotifyThreadsToAbort(th)
    PROVE  IInv'
<1> DEFINE t == th[1]
<1> USE DEF NotifyThreadsToAbort, Goto, At
<1>0. MasterTypeOK /\ t \in Txns /\ th \in ThreadsOf(t)
  BY ThreadFacts DEF IInv
<1>b. \A x \in Threads : (Ready(x)' <=> Ready(x)) /\ (Over(x) => Over(x)')
  BY <1>0 DEF MasterTypeOK, Ready, Over
<1>c. \A u \in Txns : Unready(u)' = Unready(u)
  BY <1>b, ThreadFacts DEF Unready
<1>d. th \in Unready(t) /\ Over(th)'
  BY <1>0 DEF IInv, Positions, MasterTypeOK, Unready, Ready, Over, AfterCommit
<1>1. MasterTypeOK'
  BY <1>0 DEF MasterTypeOK, PCs
<1>2. Positions'
  BY <1>0 DEF IInv, MasterTypeOK, Positions
<1>3. PhaseOne'
  <2> SUFFICES ASSUME NEW u \in Txns PROVE PhaseOne!(u)'
    BY DEF PhaseOne
  <2>0. PhaseOne!(u) /\ Unready(u)' = Unready(u)
    BY <1>c DEF IInv, PhaseOne
  <2>1. shouldAbort'[u] => \E x \in Unready(u)' : Over(x)'
    BY <1>0, <1>b, <1>d, <2>0, ThreadFacts DEF MasterTypeOK, Unready
  <2>2. \A x \in ThreadsOf(u) : FirstDecision(u, x)'
    BY <1>0, <2>0, ThreadFacts DEF FirstDecision, MasterTypeOK
  <2> QED BY <2>0, <2>1, <2>2
<1>4. KeepsPhaseTwo
  BY <1>0 DEF IInv, MasterTypeOK, Positions, KeepsPhaseTwo, Committed, Over
<1>5. KeepsMasterOp
  BY <1>0 DEF MasterTypeOK, KeepsMasterOp
<1> QED BY <1>1, <1>2, <1>3, <1>4, <1>5, PhaseTwoKept, MasterOpKept DEF IInv

\* Counting a COMMIT_SUCCESS takes the thread out of Uncommitted.
LEMMA CountSuccessKeepsInvariant ==
    ASSUME IInv, NEW th \in Threads, CountSuccess(th)
    PROVE  IInv'
<1> DEFINE t == th[1]
<1> USE DEF CountSuccess, Goto, At
<1>0. MasterTypeOK /\ t \in Txns /\ th \in ThreadsOf(t)
  BY ThreadFacts DEF IInv
<1>a. th \in Uncommitted(t)
  BY <1>0 DEF IInv, Positions, Uncommitted, Committed
<1>b. Uncommitted(t)' = Uncommitted(t) \ {th}
  BY <1>0, ThreadFacts DEF MasterTypeOK, Uncommitted, Committed
<1>c. \A u \in Txns : u # t => Uncommitted(u)' = Uncommitted(u)
  BY <1>0, ThreadFacts DEF MasterTypeOK, Uncommitted, Committed
<1>d. Cardinality(Uncommitted(t)') = commitPending[t] - 1 /\ commitPending[t] - 1 \in Nat
  <2>1. Cardinality(Uncommitted(t) \ {th}) = Cardinality(Uncommitted(t)) - 1
    BY <1>0, <1>a, CounterFacts, FS_RemoveElement
  <2>2. commitPending[t] = Cardinality(Uncommitted(t))
    BY <1>0 DEF IInv, PhaseTwo
  <2>3. Cardinality(Uncommitted(t)) \in Nat /\ Cardinality(Uncommitted(t)) # 0
    BY <1>0, <1>a, CounterFacts
  <2> QED BY <1>b, <2>1, <2>2, <2>3
<1>e. commitPending'[t] = 0 => Uncommitted(t)' = {}
  <2>1. IsFiniteSet(Uncommitted(t)')
    BY <1>0, <1>b, CounterFacts, FS_RemoveElement
  <2> QED BY <1>0, <1>d, <2>1, FS_EmptySet DEF MasterTypeOK
<1>1. MasterTypeOK'
  BY <1>0, <1>d DEF MasterTypeOK, PCs
<1>2. Positions'
  BY <1>0 DEF IInv, MasterTypeOK, Positions
<1>3. KeepsPhaseOne
  BY <1>0 DEF IInv, MasterTypeOK, Positions, KeepsPhaseOne, Ready, Over, AfterCommit
<1>4. PhaseTwo'
  <2> SUFFICES ASSUME NEW u \in Txns PROVE PhaseTwo!(u)'
    BY DEF PhaseTwo
  <2>0. PhaseTwo!(u)
    BY DEF IInv, PhaseTwo
  <2>1. commitPending'[u] = Cardinality(Uncommitted(u)')
    BY <1>0, <1>c, <1>d, <2>0 DEF MasterTypeOK
  <2>2. didFail'[u] => \E x \in Uncommitted(u)' : Over(x)'
    <3> SUFFICES ASSUME didFail[u] PROVE \E x \in Uncommitted(u)' : Over(x)'
      OBVIOUS
    <3>1. PICK x \in Uncommitted(u) : Over(x)
      BY <2>0
    <3>2. x # th /\ x \in Threads
      BY <3>1, ThreadFacts DEF Over, Uncommitted
    <3>3. Over(x)'
      BY <1>0, <3>1, <3>2 DEF MasterTypeOK, Over
    <3> QED BY <1>b, <1>c, <3>1, <3>2, <3>3
  <2>3. completion'[u] # "" => Uncommitted(u)' = {}
    BY <1>b, <1>c, <2>0
  <2>4. \A x \in ThreadsOf(u) : FinalDecision(u, x)'
    <3> SUFFICES ASSUME NEW x \in ThreadsOf(u) PROVE FinalDecision(u, x)'
      OBVIOUS
    <3>1. x \in Threads /\ x[1] = u /\ FinalDecision(u, x)
      BY <2>0, ThreadFacts
    <3>2. CASE x = th
      BY <1>0, <1>e, <3>1, <3>2 DEF FinalDecision, IInv, Positions, MasterTypeOK
    <3>3. CASE x # th
      BY <1>0, <1>b, <1>c, <3>1, <3>3 DEF FinalDecision, MasterTypeOK
    <3> QED BY <3>2, <3>3
  <2> QED BY <2>1, <2>2, <2>3, <2>4
<1>5. KeepsMasterOp
  BY <1>0 DEF MasterTypeOK, KeepsMasterOp
<1> QED BY <1>1, <1>2, <1>3, <1>4, <1>5, PhaseOneKept, MasterOpKept DEF IInv

\* Moves between the places after the second wait.  What justifies each move is
\* what the thread has tested: that the counter is 0 or somebody failed, that
\* nobody failed, or that the operation has a result.
CommittedMove(th) ==
    LET t == th[1] IN
    \/ Moves(th, "waitSuccess", "finalize") /\ (commitPending[t] = 0 \/ didFail[t])
    \/ Moves(th, "finalize", "sendFinal") /\ didFail[t]
    \/ Moves(th, "finalize", "lockOp") /\ ~didFail[t]
    \/ Moves(th, "lockOp", "sendFinal") /\ completion[t] # ""
    \/ Moves(th, "lockOp", "masterOp") /\ completion[t] = "" /\ MutexFree(th)

\* After all peers have committed: out of the second wait, to the mutex, into the
\* operation or past it.
LEMMA CommittedMoveKeepsInvariant ==
    ASSUME IInv, NEW th \in Threads, CommittedMove(th)
    PROVE  IInv'
<1> DEFINE t == th[1]
<1> USE DEF CommittedMove, Moves, Goto, At, statVars
<1>0. MasterTypeOK /\ t \in Txns /\ th \in ThreadsOf(t)
  BY ThreadFacts DEF IInv
<1>a. commitPending[t] = 0 => Uncommitted(t) = {}
  BY <1>0, CounterFacts DEF IInv, PhaseTwo
<1>b. \A x \in Threads : (Committed(x)' <=> Committed(x)) /\ (Over(x)' <=> Over(x))
  BY <1>0 DEF MasterTypeOK, Committed, Over
<1>c. \A u \in Txns : Uncommitted(u)' = Uncommitted(u)
  BY <1>b, ThreadFacts DEF Uncommitted
<1>1. MasterTypeOK'
  BY <1>0 DEF MasterTypeOK, PCs
<1>2. Positions'
  <2> SUFFICES ASSUME NEW x \in Threads PROVE Positions!(x)'
    BY DEF Positions
  <2>1. Positions!(x)
    BY DEF IInv, Positions
  <2>2. CASE x = th
    BY <1>0, <2>1, <2>2 DEF MasterTypeOK
  <2>3. CASE x # th
    BY <1>0, <2>1, <2>3 DEF MasterTypeOK
  <2> QED BY <2>2, <2>3
<1>3. KeepsPhaseOne
  <2>1. lastSent[th] = "COMMIT"
    BY DEF IInv, Positions
  <2>2. pc[th] # "decide" /\ pc'[th] # "decide" /\ ~Over(th)
    BY <1>0 DEF MasterTypeOK, Over
  <2>3. Ready(th) /\ Ready(th)'
    BY <2>1 DEF Ready, AfterCommit
  <2>4. \A x \in Threads : x # th => pc'[x] = pc[x]
    BY <1>0 DEF MasterTypeOK
  <2>5. UNCHANGED <<precommitPending, shouldAbort, lastSent>>
    OBVIOUS
  <2> QED BY <2>2, <2>3, <2>4, <2>5 DEF KeepsPhaseOne, Ready, Over
<1>4. PhaseTwo'
  <2> SUFFICES ASSUME NEW u \in Txns PROVE PhaseTwo!(u)'
    BY DEF PhaseTwo
  <2>0. PhaseTwo!(u) /\ Uncommitted(u)' = Uncommitted(u)
    BY <1>c DEF IInv, PhaseTwo
  <2>1. didFail'[u] => \E x \in Uncommitted(u)' : Over(x)'
    BY <1>b, <2>0, ThreadFacts DEF Uncommitted
  <2>2. \A x \in ThreadsOf(u) : FinalDecision(u, x)'
    <3> SUFFICES ASSUME NEW x \in ThreadsOf(u) PROVE FinalDecision(u, x)'
      OBVIOUS
    <3>1. x \in Threads /\ x[1] = u /\ FinalDecision(u, x)
      BY <2>0, ThreadFacts
    <3>2. CASE x = th
      <4>1. lastSent[x] = "COMMIT"
        BY <3>1, <3>2 DEF IInv, Positions
      <4> QED BY <1>0, <1>a, <2>0, <3>1, <3>2, <4>1 DEF FinalDecision, MasterTypeOK
    <3>3. CASE x # th
      BY <1>0, <2>0, <3>1, <3>3 DEF FinalDecision, MasterTypeOK
    <3> QED BY <3>2, <3>3
  <2> QED BY <2>0, <2>1, <2>2
<1>5. OneMasterOp'
  <2>1. CASE pc'[th] # "masterOp"
    <3>1. KeepsMasterOp
      BY <1>0, <2>1 DEF MasterTypeOK, KeepsMasterOp
    <3> QED BY <3>1, MasterOpKept
  <2>2. CASE pc'[th] = "masterOp"
    <3>1. MutexFree(th) /\ completion'[t] = ""
      BY <1>0, <2>2 DEF MasterTypeOK
    <3>2. \A x \in Threads : x[1] = t /\ At(x, "masterOp")' => x = th
      BY <1>0, <3>1 DEF MasterTypeOK, MutexFree
    <3>3. \A x \in Threads : x # th /\ At(x, "masterOp")' => At(x, "masterOp")
      BY <1>0 DEF MasterTypeOK
    <3> SUFFICES ASSUME NEW x \in Threads, At(x, "masterOp")'
                 PROVE  OneMasterOp!(x)!2'
      BY DEF OneMasterOp
    <3>4. CASE x[1] = t
      BY <3>1, <3>2, <3>4
    <3>5. CASE x[1] # t
      <4>1. OneMasterOp!(x)!2
        BY <3>3, <3>5 DEF IInv, OneMasterOp
      <4> QED BY <3>3, <3>5, <4>1
    <3> QED BY <3>4, <3>5
  <2> QED BY <2>1, <2>2
<1> QED BY <1>1, <1>2, <1>3, <1>4, <1>5, PhaseOneKept DEF IInv

\* The thread has the mutex, or takes it with no result recorded.
MayEnd(th) ==
    \/ At(th, "masterOp")
    \/ At(th, "lockOp") /\ MutexFree(th) /\ completion[th[1]] = ""

\* Then it alone is about to record a result, and all peers have committed.
LEMMA MayEndAlone ==
    ASSUME IInv, NEW th \in Threads, MayEnd(th)
    PROVE  /\ completion[th[1]] = "" /\ Uncommitted(th[1]) = {}
           /\ pc[th] \in {"lockOp", "masterOp"}
           /\ \A y \in Threads : At(y, "masterOp") /\ y[1] = th[1] => y = th
<1>0. th[1] \in Txns /\ th \in ThreadsOf(th[1])
  BY ThreadFacts
<1>1. pc[th] \in {"lockOp", "masterOp"} /\ completion[th[1]] = ""
  BY DEF MayEnd, At, IInv, OneMasterOp
<1>2. Uncommitted(th[1]) = {}
  BY <1>0, <1>1 DEF IInv, PhaseTwo, FinalDecision
<1>3. \A y \in Threads : At(y, "masterOp") /\ y[1] = th[1] => y = th
  BY DEF MayEnd, MutexFree, IInv, OneMasterOp
<1> QED BY <1>1, <1>2, <1>3

\* The thread with the mutex records the result, the first and only one.
LEMMA MasterOpEndsKeepsInvariant ==
    ASSUME IInv, NEW th \in Threads, NEW r \in {"WROTE", "ERROR"},
           MayEnd(th), MasterOpEnds(th, r)
    PROVE  IInv'
<1> DEFINE t == th[1]
<1> USE DEF MasterOpEnds, Goto, At
<1>0. MasterTypeOK /\ t \in Txns /\ th \in ThreadsOf(t)
  BY ThreadFacts DEF IInv
<1>a. /\ completion[t] = "" /\ Uncommitted(t) = {}
      /\ pc[th] \in {"lockOp", "masterOp"}
      /\ \A y \in Threads : At(y, "masterOp") /\ y[1] = t => y = th
  BY MayEndAlone
<1>b. \A x \in Threads : (Committed(x)' <=> Committed(x)) /\ (Over(x)' <=> Over(x))
  BY <1>0, <1>a DEF MasterTypeOK, Committed, Over
<1>c. \A u \in Txns : Uncommitted(u)' = Uncommitted(u)
  BY <1>b, ThreadFacts DEF Uncommitted
<1>d. ~didFail[t]
  BY <1>0, <1>a, FailureIsFinal
<1>1. MasterTypeOK'
  BY <1>0 DEF MasterTypeOK, PCs, Completions
<1>2. Positions'
  BY <1>0, <1>a DEF IInv, MasterTypeOK, Positions
<1>3. KeepsPhaseOne
  BY <1>0, <1>a DEF IInv, MasterTypeOK, Positions, KeepsPhaseOne, Ready, Over, AfterCommit
<1>4. PhaseTwo'
  <2> SUFFICES ASSUME NEW u \in Txns PROVE PhaseTwo!(u)'
    BY DEF PhaseTwo
  <2>0. PhaseTwo!(u) /\ Uncommitted(u)' = Uncommitted(u)
    BY <1>c DEF IInv, PhaseTwo
  <2>1. didFail'[u] => \E x \in Uncommitted(u)' : Over(x)'
    BY <1>b, <2>0, ThreadFacts DEF Uncommitted
  <2>2. completion'[u] # "" => Uncommitted(u)' = {}
    BY <1>0, <1>a, <2>0 DEF MasterTypeOK
  <2>3. \A x \in ThreadsOf(u) : FinalDecision(u, x)'
    <3> SUFFICES ASSUME NEW x \in ThreadsOf(u) PROVE FinalDecision(u, x)'
      OBVIOUS
    <3>1. x \in Threads /\ x[1] = u /\ FinalDecision(u, x)
      BY <2>0, ThreadFacts
    <3>2. CASE u = t
      BY <1>0, <1>a, <1>d, <2>0, <3>1, <3>2 DEF FinalDecision, MasterTypeOK, IInv, Positions
    <3>3. CASE u # t
      BY <1>0, <2>0, <3>1, <3>3 DEF FinalDecision, MasterTypeOK
    <3> QED BY <3>2, <3>3
  <2> QED BY <2>0, <2>1, <2>2, <2>3
<1>5. OneMasterOp'
  <2> SUFFICES ASSUME NEW x \in Threads, At(x, "masterOp")'
               PROVE  OneMasterOp!(x)!2'
    BY DEF OneMasterOp
  <2>1. \A y \in Threads : At(y, "masterOp")' => y # th /\ At(y, "masterOp")
    BY <1>0 DEF MasterTypeOK
  <2>2. x[1] # t
    BY <1>a, <2>1
  <2>3. completion'[x[1]] = completion[x[1]]
    BY <1>0, <2>2, ThreadFacts DEF MasterTypeOK
  <2> QED BY <2>1, <2>3 DEF IInv, OneMasterOp
<1> QED BY <1>1, <1>2, <1>3, <1>4, <1>5, PhaseOneKept DEF IInv

\* The final message says what the result, which no longer changes, says.
LEMMA SendFinalKeepsInvariant ==
    ASSUME IInv, NEW th \in Threads, SendFinal(th)
    PROVE  IInv'
<1> DEFINE t == th[1]
<1> USE DEF SendFinal, SendAndGoto, Goto, At, statVars
<1>0. MasterTypeOK /\ t \in Txns /\ th \in ThreadsOf(t)
  BY ThreadFacts DEF IInv
<1>a. completion[t] # "" \/ didFail[t]
  BY <1>0 DEF IInv, PhaseTwo, FinalDecision
<1>b. \A x \in Threads : (Committed(x)' <=> Committed(x)) /\ (Over(x) => Over(x)')
  BY <1>0 DEF MasterTypeOK, Committed, Over
<1>c. \A u \in Txns : Uncommitted(u)' = Uncommitted(u)
  BY <1>b, ThreadFacts DEF Uncommitted
<1>1. MasterTypeOK'
  BY <1>0 DEF MasterTypeOK, PCs, MasterMessages
<1>2. Positions'
  BY <1>0 DEF IInv, MasterTypeOK, Positions
<1>3. KeepsPhaseOne
  BY <1>0 DEF IInv, MasterTypeOK, Positions, KeepsPhaseOne, Ready, Over, AfterCommit
<1>4. PhaseTwo'
  <2> SUFFICES ASSUME NEW u \in Txns PROVE PhaseTwo!(u)'
    BY DEF PhaseTwo
  <2>0. PhaseTwo!(u) /\ Uncommitted(u)' = Uncommitted(u)
    BY <1>c DEF IInv, PhaseTwo
  <2>1. didFail'[u] => \E x \in Uncommitted(u)' : Over(x)'
    BY <1>b, <2>0, ThreadFacts DEF Uncommitted
  <2>2. \A x \in ThreadsOf(u) : FinalDecision(u, x)'
    <3> SUFFICES ASSUME NEW x \in ThreadsOf(u) PROVE FinalDecision(u, x)'
      OBVIOUS
    <3>1. x \in Threads /\ x[1] = u /\ FinalDecision(u, x)
      BY <2>0, ThreadFacts
    <3>2. CASE x = th
      BY <1>0, <1>a, <3>1, <3>2 DEF FinalDecision, MasterTypeOK, Completions
    <3>3. CASE x # th
      BY <1>0, <2>0, <3>1, <3>3 DEF FinalDecision, MasterTypeOK
    <3> QED BY <3>2, <3>3
  <2> QED BY <2>0, <2>1, <2>2
<1>5. KeepsMasterOp
  BY <1>0 DEF MasterTypeOK, KeepsMasterOp
<1> QED BY <1>1, <1>2, <1>3, <1>4, <1>5, PhaseOneKept, MasterOpKept DEF IInv

\* The thread that reports a failed COMMIT has not committed and never will.
LEMMA NotifyUndoKeepsInvariant ==
    ASSUME IInv, NEW th \in Threads, NotifyThreadsToUndoCommit(th)
    PROVE  IInv'
<1> DEFINE t == th[1]
<1> USE DEF NotifyThreadsToUndoCommit, Goto, At
<1>0. MasterTypeOK /\ t \in Txns /\ th \in ThreadsOf(t)
  BY ThreadFacts DEF IInv
<1>b. \A x \in Threads : (Committed(x)' <=> Committed(x)) /\ (Over(x) => Over(x)')
  BY <1>0 DEF MasterTypeOK, Committed, Over
<1>c. \A u \in Txns : Uncommitted(u)' = Uncommitted(u)
  BY <1>b, ThreadFacts DEF Uncommitted
<1>d. th \in Uncommitted(t) /\ Over(th)'
  BY <1>0 DEF IInv, Positions, MasterTypeOK, Uncommitted, Committed, Over
<1>1. MasterTypeOK'
  BY <1>0 DEF MasterTypeOK, PCs
<1>2. Positions'
  BY <1>0 DEF IInv, MasterTypeOK, Positions
<1>3. KeepsPhaseOne
  BY <1>0 DEF IInv, MasterTypeOK, Positions, KeepsPhaseOne, Ready, Over, AfterCommit
<1>4. PhaseTwo'
  <2> SUFFICES ASSUME NEW u \in Txns PROVE PhaseTwo!(u)'
    BY DEF PhaseTwo
  <2>0. PhaseTwo!(u) /\ Uncommitted(u)' = Uncommitted(u)
    BY <1>c DEF IInv, PhaseTwo
  <2>1. didFail'[u] => \E x \in Uncommitted(u)' : Over(x)'
    BY <1>0, <1>b, <1>d, <2>0, ThreadFacts DEF MasterTypeOK, Uncommitted
  <2>2. \A x \in ThreadsOf(u) : FinalDecision(u, x)'
    <3> SUFFICES ASSUME NEW x \in ThreadsOf(u) PROVE FinalDecision(u, x)'
      OBVIOUS
    <3>1. x \in Threads /\ x[1] = u /\ FinalDecision(u, x)
      BY <2>0, ThreadFacts
    <3> QED BY <1>0, <2>0, <3>1 DEF FinalDecision, MasterTypeOK
  <2> QED BY <2>0, <2>1, <2>2
<1>5. KeepsMasterOp
  BY <1>0 DEF MasterTypeOK, KeepsMasterOp
<1> QED BY <1>1, <1>2, <1>3, <1>4, <1>5, PhaseOneKept, MasterOpKept DEF IInv

\* Every step of a thread preserves the invariant.
LEMMA ThreadStepKeepsInvariant ==
    ASSUME IInv, NEW th \in Threads, ThreadStep(th)
    PROVE  IInv'
<1>1. CASE \/ CreateSocket(th) \/ ConnectionRefused(th) \/ ReceiveReady(th)
           \/ ReceiveSuccess(th) \/ ReceiveUnsuccess(th) \/ LosePeer(th)
           \/ ReceiveError(th) \/ CloseSocket(th)
  <2>1. QuietMove(th)
    BY <1>1 DEF CreateSocket, ConnectionRefused, ReceiveReady, ReceiveSuccess,
                ReceiveUnsuccess, Receive, LosePeer, ReceiveError, CloseSocket,
                QuietMove, Moves, At
  <2> QED BY <2>1, QuietMoveKeepsInvariant
<1>2. CASE RetestSuccess(th) \/ Finalize(th) \/ TakeMutex(th)
  <2>1. QuietMove(th) \/ CommittedMove(th)
    BY <1>2 DEF RetestSuccess, Finalize, TakeMutex, QuietMove, CommittedMove, Moves, At
  <2> QED BY <2>1, QuietMoveKeepsInvariant, CommittedMoveKeepsInvariant
<1>3. CASE MasterFails(th) \/ MasterPerforms(th)
  BY <1>3, MasterOpEndsKeepsInvariant DEF MasterFails, MasterPerforms, MayEnd
<1>4. CASE SendPrecommit(th) \/ CountReady(th) \/ RetestReady(th) \/ Decide(th)
  BY <1>4, SendPrecommitKeepsInvariant, CountReadyKeepsInvariant,
     RetestReadyKeepsInvariant, DecideKeepsInvariant
<1>5. CASE \/ NotifyThreadsToAbort(th) \/ CountSuccess(th) \/ SendFinal(th)
           \/ NotifyThreadsToUndoCommit(th)
  BY <1>5, NotifyAbortKeepsInvariant, CountSuccessKeepsInvariant,
     SendFinalKeepsInvariant, NotifyUndoKeepsInvariant
<1> QED BY <1>1, <1>2, <1>3, <1>4, <1>5 DEF ThreadStep, PhaseOneStep, PhaseTwoStep

-----------------------------------------------------------------------------
(* Steps of the controllers, of the peers, and ends of processes.          *)

\* Creating the threads of a request.
LEMMA StartKeepsInvariant ==
    ASSUME IInv, NEW t \in Txns, StartSynchronization(t)
    PROVE  IInv'
<1> USE DEF StartSynchronization, Arrives, statVars
<1>0. MasterTypeOK
  BY DEF IInv
<1>a. \A x \in Threads : x[1] = t => pc[x] = "none"
  BY DEF IInv, Positions
<1>1. MasterTypeOK'
  BY <1>0 DEF MasterTypeOK, Ctls, PCs
<1>2. Positions'
  BY <1>0, <1>a, ThreadFacts DEF IInv, MasterTypeOK, Positions
<1>3. KeepsPhaseOne
  BY <1>0, <1>a DEF KeepsPhaseOne, Ready, Over
<1>4. KeepsPhaseTwo
  BY <1>0, <1>a DEF KeepsPhaseTwo, Committed, Over
<1>5. KeepsMasterOp
  BY <1>0, <1>a, ThreadFacts DEF MasterTypeOK, KeepsMasterOp, At
<1> QED BY <1>1, <1>2, <1>3, <1>4, <1>5, PhaseOneKept, PhaseTwoKept, MasterOpKept DEF IInv

\* The threads stay where they are, and controllers only end or crash.
Elsewhere ==
    /\ UNCHANGED <<pc, lastSent, statVars>>
    /\ ctl' \in [Txns -> Ctls]
    /\ \A t \in Txns : ctl'[t] = ctl[t] \/ ctl'[t] \notin {"idle", "joining"}

\* Steps of controllers and peers, and ends of processes, leave the threads and
\* the statistics alone; a request that ends does not come back.
LEMMA ElsewhereKeepsInvariant ==
    ASSUME IInv, Elsewhere
    PROVE  IInv'
<1> USE DEF Elsewhere, statVars
<1>1. MasterTypeOK'
  BY DEF IInv, MasterTypeOK
<1>2. Positions'
  BY ThreadFacts DEF IInv, Positions
<1>3. KeepsPhaseOne
  BY DEF KeepsPhaseOne, Ready, Over
<1>4. KeepsPhaseTwo
  BY DEF KeepsPhaseTwo, Committed, Over
<1>5. KeepsMasterOp
  BY ThreadFacts DEF KeepsMasterOp, At
<1> QED BY <1>1, <1>2, <1>3, <1>4, <1>5, PhaseOneKept, PhaseTwoKept, MasterOpKept DEF IInv

\* Every step of the system preserves the invariant.
LEMMA NextKeepsInvariant == IInv /\ [Next]_vars => IInv'
<1> SUFFICES ASSUME IInv, [Next]_vars PROVE IInv'
  OBVIOUS
<1>0. ctl \in [Txns -> Ctls]
  BY DEF IInv, MasterTypeOK
<1>a. ASSUME NEW n \in Nodes, NEW how, ProcessEnds(n, how) PROVE IInv'
  <2>1. Elsewhere
    BY <1>0, <1>a DEF ProcessEnds, Elsewhere, Ctls
  <2> QED BY <2>1, ElsewhereKeepsInvariant
<1>b. \A t \in Txns : Home[t] \in Nodes
  BY BoardAssumption
<1>1. ASSUME NEW t \in Txns, Request(t) PROVE IInv'
  <2>1. CASE StartSynchronization(t)
    BY <2>1, StartKeepsInvariant
  <2>2. CASE Reject(t) \/ StartLocal(t) \/ LocalFails(t)
    <3>1. Elsewhere
      BY <1>0, <2>2 DEF Reject, StartLocal, LocalFails, Arrives, Elsewhere, Ctls
    <3> QED BY <3>1, ElsewhereKeepsInvariant
  <2> QED BY <1>1, <2>1, <2>2 DEF Request
<1>2. ASSUME NEW t \in Txns, Controller(t) PROVE IInv'
  <2>1. CASE ControllerStep(t)
    <3>1. Elsewhere
      BY <1>0, <2>1 DEF ControllerStep, JoinThreads, LocalPerforms, Elsewhere, Ctls
    <3> QED BY <3>1, ElsewhereKeepsInvariant
  <2>2. CASE LocalAsserts(t)
    BY <1>a, <1>b, <2>2 DEF LocalAsserts
  <2> QED BY <1>2, <2>1, <2>2 DEF Controller
<1>3. ASSUME NEW th \in Threads, PeerThread(th) PROVE IInv'
  <2>1. CASE MasterAsserts(th)
    BY <1>a, <1>b, <2>1, ThreadFacts DEF MasterAsserts
  <2> QED BY <1>3, <2>1, ThreadStepKeepsInvariant DEF PeerThread
<1>4. ASSUME NEW th \in Threads, SpuriousWakeup(th) PROVE IInv'
  <2>1. Elsewhere
    BY <1>0, <1>4 DEF SpuriousWakeup, Elsewhere
  <2> QED BY <2>1, ElsewhereKeepsInvariant
<1>5. ASSUME NEW n \in Nodes, SyncThread(n) PROVE IInv'
  <2>1. CASE PeerAsserts(n)
    BY <1>a, <2>1 DEF PeerAsserts
  <2>2. CASE UNCHANGED masterVars
    <3>1. Elsewhere
      BY <1>0, <2>2 DEF masterVars, Elsewhere
    <3> QED BY <3>1, ElsewhereKeepsInvariant
  <2> QED BY <1>5, <2>1, <2>2 DEF SyncThread
<1>6. ASSUME NEW n \in Nodes, Kill(n) \/ KillInRewriting(n) PROVE IInv'
  BY <1>a, <1>6 DEF Kill, KillInRewriting
<1>7. ASSUME NEW n \in Nodes, Restart(n) PROVE IInv'
  <2>1. Elsewhere
    BY <1>0, <1>7 DEF Restart, masterVars, Elsewhere
  <2> QED BY <2>1, ElsewhereKeepsInvariant
<1>8. CASE UNCHANGED vars
  <2>1. Elsewhere
    BY <1>0, <1>8 DEF vars, masterVars, Elsewhere
  <2> QED BY <2>1, ElsewhereKeepsInvariant
<1> QED BY <1>1, <1>2, <1>3, <1>4, <1>5, <1>6, <1>7, <1>8 DEF Next, Rest

\* resetPeerCommunicationGlobalVars: every peer is still to be counted, twice.
LEMMA InitInvariant == Init => IInv
<1> SUFFICES ASSUME Init PROVE IInv
  OBVIOUS
<1> USE DEF Init, MasterInit
<1>0. \A t \in Txns : Cardinality(ThreadsOf(t)) \in Nat
  BY ThreadFacts, FS_CardinalityType
<1>1. MasterTypeOK
  BY <1>0 DEF MasterTypeOK, Ctls, PCs, Completions
<1>2. Positions
  BY ThreadFacts DEF Positions
<1>3. \A t \in Txns : Unready(t) = ThreadsOf(t) /\ Uncommitted(t) = ThreadsOf(t)
  BY ThreadFacts DEF Unready, Uncommitted, Ready, Committed, AfterCommit
<1>4. PhaseOne
  BY <1>3, ThreadFacts DEF PhaseOne, FirstDecision, AfterCommit
<1>5. PhaseTwo
  BY <1>3, ThreadFacts DEF PhaseTwo, FinalDecision
<1>6. OneMasterOp
  BY DEF OneMasterOp, At
<1> QED BY <1>1, <1>2, <1>4, <1>5, <1>6 DEF IInv

\* IInv holds in every reachable state, crashes or not.
THEOREM Invariance == Spec => []IInv
BY InitInvariant, NextKeepsInvariant, PTL DEF Spec

-----------------------------------------------------------------------------
(* The theorems.                                                           *)

\* No peer is told ABORT while another is told COMMIT, none SUCCESS_NOOP while
\* another is told UNSUCCESS_UNDO: for any number of peers and requests.
THEOREM DecisionAgreement == Spec => []DecisionsAgree
<1>1. IInv => DecisionsAgree
  <2> SUFFICES ASSUME IInv, NEW t \in Txns, NEW a \in ThreadsOf(t), NEW b \in ThreadsOf(t)
               PROVE  /\ ~(lastSent[a] = "ABORT" /\ lastSent[b] \in AfterCommit)
                      /\ ~(lastSent[a] = "SUCCESS_NOOP" /\ lastSent[b] = "UNSUCCESS_UNDO")
    BY DEF DecisionsAgree
  <2>1. FirstDecision(t, a) /\ FirstDecision(t, b) /\ FinalDecision(t, a) /\ FinalDecision(t, b)
    BY DEF IInv, PhaseOne, PhaseTwo
  <2>2. completion[t] # "" => Uncommitted(t) = {}
    BY DEF IInv, PhaseTwo
  <2> QED BY <2>1, <2>2, FailureIsFinal DEF FirstDecision, FinalDecision
<1> QED BY <1>1, Invariance, PTL

\* Only these threads write the flags.
LEMMA FlagWriters ==
    ASSUME IInv, [Next]_vars, NEW t \in Txns
    PROVE  /\ shouldAbort'[t] # shouldAbort[t] =>
                ~shouldAbort[t] /\ \E x \in ThreadsOf(t) : pc[x] = "notifyAbort"
           /\ didFail'[t] # didFail[t] =>
                ~didFail[t] /\ \E x \in ThreadsOf(t) : pc[x] = "notifyUndo"
           /\ completion'[t] # completion[t] =>
                \E x \in ThreadsOf(t) : MayEnd(x)
<1> DEFINE Flags == <<shouldAbort, didFail, completion>>
<1>0. MasterTypeOK
  BY DEF IInv
<1>1. ASSUME NEW th \in Threads, ThreadStep(th)
      PROVE  \/ UNCHANGED Flags
             \/ NotifyThreadsToAbort(th) \/ NotifyThreadsToUndoCommit(th)
             \/ \E r \in {"WROTE", "ERROR"} : MayEnd(th) /\ MasterOpEnds(th, r)
  BY <1>1 DEF ThreadStep, PhaseOneStep, PhaseTwoStep, CreateSocket, ConnectionRefused,
     SendPrecommit, ReceiveReady, CountReady, RetestReady, Decide, ReceiveSuccess,
     ReceiveUnsuccess, CountSuccess, RetestSuccess, Finalize, TakeMutex, MasterFails,
     MasterPerforms, SendFinal, LosePeer, ReceiveError, CloseSocket, Receive,
     SendAndGoto, MayEnd, statVars
<1>2. \/ UNCHANGED Flags
      \/ \E th \in Threads :
           \/ NotifyThreadsToAbort(th) \/ NotifyThreadsToUndoCommit(th)
           \/ \E r \in {"WROTE", "ERROR"} : MayEnd(th) /\ MasterOpEnds(th, r)
  <2>1. ASSUME NEW n \in Nodes, NEW how, ProcessEnds(n, how)
        PROVE  UNCHANGED Flags
    BY <2>1 DEF ProcessEnds, statVars
  <2>2. ASSUME NEW u \in Txns, Request(u) \/ Controller(u)
        PROVE  UNCHANGED Flags
    <3>1. Home[u] \in Nodes
      BY BoardAssumption
    <3> QED BY <2>1, <2>2, <3>1 DEF Request, Reject, StartSynchronization, StartLocal,
       Controller, ControllerStep, JoinThreads, LocalFails, LocalPerforms, LocalAsserts,
       masterVars, statVars
  <2>3. ASSUME NEW th \in Threads, PeerThread(th)
        PROVE  ThreadStep(th) \/ UNCHANGED Flags
    <3>1. Home[th[1]] \in Nodes
      BY BoardAssumption, ThreadFacts
    <3> QED BY <2>1, <2>3, <3>1 DEF PeerThread, MasterAsserts
  <2>4. ASSUME NEW n \in Nodes, SyncThread(n) \/ Kill(n) \/ KillInRewriting(n) \/ Restart(n)
        PROVE  UNCHANGED Flags
    BY <2>1, <2>4 DEF SyncThread, PeerAsserts, Kill, KillInRewriting, Restart, masterVars, statVars
  <2>5. CASE \/ UNCHANGED vars
             \/ \E th \in Threads : SpuriousWakeup(th) /\ UNCHANGED slaveVars
    BY <2>5 DEF vars, masterVars, SpuriousWakeup, statVars
  <2> QED BY <1>1, <2>2, <2>3, <2>4, <2>5 DEF Next, Rest
<1>3. ASSUME NEW th \in Threads, NotifyThreadsToAbort(th)
      PROVE  /\ pc[th] = "notifyAbort" /\ UNCHANGED <<didFail, completion>>
             /\ shouldAbort'[t] # shouldAbort[t] => t = th[1] /\ ~shouldAbort[t]
  BY <1>0, <1>3, ThreadFacts DEF NotifyThreadsToAbort, At, MasterTypeOK
<1>4. ASSUME NEW th \in Threads, NotifyThreadsToUndoCommit(th)
      PROVE  /\ pc[th] = "notifyUndo" /\ UNCHANGED <<shouldAbort, completion>>
             /\ didFail'[t] # didFail[t] => t = th[1] /\ ~didFail[t]
  BY <1>0, <1>4, ThreadFacts DEF NotifyThreadsToUndoCommit, At, MasterTypeOK
<1>5. ASSUME NEW th \in Threads, NEW r \in {"WROTE", "ERROR"},
             MayEnd(th), MasterOpEnds(th, r)
      PROVE  /\ UNCHANGED <<shouldAbort, didFail>>
             /\ completion'[t] # completion[t] => t = th[1]
  BY <1>0, <1>5, ThreadFacts DEF MasterOpEnds, At, MasterTypeOK
<1> QED BY <1>2, <1>3, <1>4, <1>5, ThreadFacts

\* The comment in communicateWithPeer is right: when a thread reads shouldAbort,
\* didOneOrMorePeersFailToCommit or masterOperationCompletionMessage without the
\* mutex, no thread modifies it any further.
THEOREM FlagsAreSettled == Spec => FlagsSettled
<1>1. ASSUME IInv, [Next]_vars PROVE SettledFlagsStay
  <2> SUFFICES ASSUME NEW th \in Threads PROVE SettledFlagsStay!(th)
    BY DEF SettledFlagsStay
  <2> DEFINE t == th[1]
  <2>0. t \in Txns /\ th \in ThreadsOf(t) /\ MasterTypeOK
    BY <1>1, ThreadFacts DEF IInv
  <2>1. FirstDecision(t, th) /\ FinalDecision(t, th)
    BY <1>1, <2>0 DEF IInv, PhaseOne, PhaseTwo
  <2>2. ASSUME NEW x \in ThreadsOf(t), pc[x] = "notifyAbort"
        PROVE x \in Unready(t)
    BY <1>1, <2>0, <2>2, ThreadFacts DEF IInv, Positions, Unready, Ready, AfterCommit
  <2>3. ASSUME NEW x \in ThreadsOf(t), pc[x] = "notifyUndo"
        PROVE x \in Uncommitted(t)
    BY <1>1, <2>0, <2>3, ThreadFacts DEF IInv, Positions, Uncommitted, Committed
  <2>4. pc[th] = "decide" => shouldAbort'[t] = shouldAbort[t]
    BY <1>1, <2>0, <2>1, <2>2, FlagWriters DEF FirstDecision
  <2>5. pc[th] \in {"finalize", "sendFinal"} => didFail'[t] = didFail[t]
    <3>1. completion[t] # "" => Uncommitted(t) = {}
      BY <1>1, <2>0 DEF IInv, PhaseTwo
    <3> QED BY <1>1, <2>0, <2>1, <2>3, <3>1, FlagWriters DEF FinalDecision
  <2>6. pc[th] = "sendFinal" => completion'[t] = completion[t]
    <3> SUFFICES ASSUME pc[th] = "sendFinal", NEW x \in ThreadsOf(t), MayEnd(x)
                 PROVE  FALSE
      BY <1>1, <2>0, FlagWriters
    <3>1. x \in Threads /\ x[1] = t
      BY <2>0, ThreadFacts
    <3>2. completion[t] = "" /\ Uncommitted(t) = {}
      BY <1>1, <3>1, MayEndAlone
    <3> QED BY <1>1, <2>0, <2>1, <3>2, FailureIsFinal DEF FinalDecision
  <2> QED BY <2>4, <2>5, <2>6
<1> QED BY <1>1, Invariance, PTL DEF FlagsSettled, Spec

-----------------------------------------------------------------------------
(***************************************************************************)
(* No wakeup of peerCommunicationCondition is lost, for any number of      *)
(* requests and peers.  The condition variable is shared by all requests   *)
(* of a node and tested under the mutex, so the argument is local: a       *)
(* thread falls asleep only when its counter and its flag tell it to, and  *)
(* whoever changes one of them to the value waited for wakes all threads   *)
(* of the process in the same critical region.                             *)
(***************************************************************************)

\* A thread is asleep only in one of the two wait loops, and with the condition
\* of that loop false; whether its process still runs makes no difference.
Sleeps(x) ==
    /\ pc[x] \in {"waitReady", "waitSuccess"}
    /\ pc[x] = "waitReady" => precommitPending[x[1]] > 0 /\ ~shouldAbort[x[1]]
    /\ pc[x] = "waitSuccess" => commitPending[x[1]] > 0 /\ ~didFail[x[1]]

Sleepers == asleep \subseteq Threads /\ \A x \in asleep : Sleeps(x)

\* A step that puts nobody to sleep, and leaves what the sleepers wait for.
Undisturbed ==
    /\ asleep' \subseteq asleep
    /\ UNCHANGED <<precommitPending, shouldAbort, commitPending, didFail>>
    /\ \A x \in asleep : pc'[x] = pc[x]

\* Such a step keeps every sleeper waiting for something.
LEMMA UndisturbedSleepers == Sleepers /\ Undisturbed => Sleepers'
BY DEF Sleepers, Sleeps, Undisturbed

\* A broadcast leaves asleep only threads of other processes, hence of other requests.
LEMMA BroadcastWakes ==
    ASSUME NEW th \in Threads, NEW x \in AwakeAfterBroadcast(th)
    PROVE  x \in asleep /\ x[1] # th[1]
BY DEF AwakeAfterBroadcast

\* A READY is counted: the last one wakes everybody, another one leaves the counter
\* positive, and the thread sleeps only if it is.
LEMMA CountReadySleepers ==
    ASSUME IInv, Sleepers, NEW th \in Threads, CountReady(th)
    PROVE  Sleepers'
<1> DEFINE t == th[1]
           left == precommitPending[t] - 1
<1>0. MasterTypeOK /\ t \in Txns
  BY ThreadFacts DEF IInv
<1>1. /\ pc[th] = "gotReady" /\ precommitPending' = [precommitPending EXCEPT ![t] = left]
      /\ UNCHANGED <<shouldAbort, commitPending, didFail>>
      /\ pc' = [pc EXCEPT ![th] = IF left = 0 \/ shouldAbort[t] THEN "decide" ELSE "waitReady"]
      /\ asleep' = IF left = 0 THEN AwakeAfterBroadcast(th)
                   ELSE IF left = 0 \/ shouldAbort[t] THEN asleep ELSE asleep \cup {th}
  BY DEF CountReady, At, Goto
<1>2. th \notin asleep
  BY <1>1 DEF Sleepers, Sleeps
<1>3. left \in Nat
  <2>1. precommitPending'[t] \in Nat
    BY <1>0, CountReadyKeepsInvariant DEF IInv, MasterTypeOK
  <2> QED BY <1>0, <1>1, <2>1 DEF MasterTypeOK
<1> HIDE DEF left
<1>4. asleep' \subseteq Threads
  BY <1>1, BroadcastWakes DEF Sleepers
<1>5. ASSUME NEW x \in asleep' PROVE Sleeps(x)'
  <2>0. x \in Threads /\ x[1] \in Txns
    BY <1>4, <1>5, ThreadFacts
  <2>1. CASE x = th
    <3>1. left > 0 /\ ~shouldAbort[t]
      BY <1>1, <1>2, <1>3, <1>5, <2>1, BroadcastWakes
    <3> QED BY <1>0, <1>1, <2>1, <3>1 DEF MasterTypeOK, Sleeps
  <2>2. CASE x # th
    <3>1. x \in asleep /\ (left = 0 => x[1] # t)
      BY <1>1, <1>5, <2>2, BroadcastWakes
    <3>2. Sleeps(x) /\ pc'[x] = pc[x]
      BY <1>0, <1>1, <2>0, <2>2, <3>1 DEF Sleepers, MasterTypeOK
    <3>3. precommitPending[x[1]] > 0 => precommitPending'[x[1]] > 0
      BY <1>0, <1>1, <1>3, <2>0, <3>1 DEF MasterTypeOK
    <3> QED BY <1>1, <3>2, <3>3 DEF Sleeps
  <2> QED BY <2>1, <2>2
<1> QED BY <1>4, <1>5 DEF Sleepers

\* The same for a COMMIT_SUCCESS.
LEMMA CountSuccessSleepers ==
    ASSUME IInv, Sleepers, NEW th \in Threads, CountSuccess(th)
    PROVE  Sleepers'
<1> DEFINE t == th[1]
           left == commitPending[t] - 1
<1>0. MasterTypeOK /\ t \in Txns
  BY ThreadFacts DEF IInv
<1>1. /\ pc[th] = "gotSuccess" /\ commitPending' = [commitPending EXCEPT ![t] = left]
      /\ UNCHANGED <<shouldAbort, precommitPending, didFail>>
      /\ pc' = [pc EXCEPT ![th] = IF left = 0 \/ didFail[t] THEN "finalize" ELSE "waitSuccess"]
      /\ asleep' = IF left = 0 THEN AwakeAfterBroadcast(th)
                   ELSE IF left = 0 \/ didFail[t] THEN asleep ELSE asleep \cup {th}
  BY DEF CountSuccess, At, Goto
<1>2. th \notin asleep
  BY <1>1 DEF Sleepers, Sleeps
<1>3. left \in Nat
  <2>1. commitPending'[t] \in Nat
    BY <1>0, CountSuccessKeepsInvariant DEF IInv, MasterTypeOK
  <2> QED BY <1>0, <1>1, <2>1 DEF MasterTypeOK
<1> HIDE DEF left
<1>4. asleep' \subseteq Threads
  BY <1>1, BroadcastWakes DEF Sleepers
<1>5. ASSUME NEW x \in asleep' PROVE Sleeps(x)'
  <2>0. x \in Threads /\ x[1] \in Txns
    BY <1>4, <1>5, ThreadFacts
  <2>1. CASE x = th
    <3>1. left > 0 /\ ~didFail[t]
      BY <1>1, <1>2, <1>3, <1>5, <2>1, BroadcastWakes
    <3> QED BY <1>0, <1>1, <2>1, <3>1 DEF MasterTypeOK, Sleeps
  <2>2. CASE x # th
    <3>1. x \in asleep /\ (left = 0 => x[1] # t)
      BY <1>1, <1>5, <2>2, BroadcastWakes
    <3>2. Sleeps(x) /\ pc'[x] = pc[x]
      BY <1>0, <1>1, <2>0, <2>2, <3>1 DEF Sleepers, MasterTypeOK
    <3>3. commitPending[x[1]] > 0 => commitPending'[x[1]] > 0
      BY <1>0, <1>1, <1>3, <2>0, <3>1 DEF MasterTypeOK
    <3> QED BY <1>1, <3>2, <3>3 DEF Sleeps
  <2> QED BY <2>1, <2>2
<1> QED BY <1>4, <1>5 DEF Sleepers

\* A thread that was woken goes back to sleep only if its condition is false.
LEMMA RetestSleepers ==
    ASSUME IInv, Sleepers, NEW th \in Threads, RetestReady(th) \/ RetestSuccess(th)
    PROVE  Sleepers'
<1>0. MasterTypeOK /\ th[1] \in Txns
  BY ThreadFacts DEF IInv
<1>1. ASSUME NEW x \in asleep, x # th PROVE Sleeps(x)'
  <2>1. x \in Threads /\ Sleeps(x)
    BY <1>1 DEF Sleepers
  <2> QED BY <1>0, <1>1, <2>1
          DEF RetestReady, RetestSuccess, Goto, statVars, MasterTypeOK, Sleeps
<1>2. asleep' \subseteq asleep \cup {th}
  BY DEF RetestReady, RetestSuccess
<1>3. th \in asleep' => Sleeps(th)'
  BY <1>0 DEF RetestReady, RetestSuccess, At, Goto, statVars, MasterTypeOK, Sleeps
<1> QED BY <1>1, <1>2, <1>3 DEF Sleepers

\* The first failure of a request wakes everybody; a later one changes nothing.
LEMMA NotifySleepers ==
    ASSUME IInv, Sleepers, NEW th \in Threads,
           NotifyThreadsToAbort(th) \/ NotifyThreadsToUndoCommit(th)
    PROVE  Sleepers'
<1>0. MasterTypeOK /\ th[1] \in Txns /\ pc[th] \in {"notifyAbort", "notifyUndo"}
  BY ThreadFacts DEF IInv, NotifyThreadsToAbort, NotifyThreadsToUndoCommit, At
<1>1. asleep' \subseteq asleep
  BY BroadcastWakes DEF NotifyThreadsToAbort, NotifyThreadsToUndoCommit
<1>2. ASSUME NEW x \in asleep' PROVE Sleeps(x)'
  <2>1. x \in Threads /\ x[1] \in Txns /\ Sleeps(x) /\ x # th
    BY <1>0, <1>1, <1>2, ThreadFacts DEF Sleepers, Sleeps
  <2>2. pc'[x] = pc[x] /\ UNCHANGED <<precommitPending, commitPending>>
    BY <1>0, <2>1 DEF NotifyThreadsToAbort, NotifyThreadsToUndoCommit, Goto, MasterTypeOK
  <2>3. CASE NotifyThreadsToAbort(th)
    BY <1>0, <1>2, <2>1, <2>2, <2>3, BroadcastWakes
    DEF NotifyThreadsToAbort, MasterTypeOK, Sleeps
  <2>4. CASE NotifyThreadsToUndoCommit(th)
    BY <1>0, <1>2, <2>1, <2>2, <2>4, BroadcastWakes
    DEF NotifyThreadsToUndoCommit, MasterTypeOK, Sleeps
  <2> QED BY <2>3, <2>4
<1> QED BY <1>1, <1>2 DEF Sleepers

\* Every other step of a thread is one of a thread that is awake.
LEMMA ThreadStepSleepers ==
    ASSUME IInv, Sleepers, NEW th \in Threads, ThreadStep(th)
    PROVE  Sleepers'
<1>1. CASE \/ CountReady(th) \/ CountSuccess(th) \/ RetestReady(th) \/ RetestSuccess(th)
           \/ NotifyThreadsToAbort(th) \/ NotifyThreadsToUndoCommit(th)
  BY <1>1, CountReadySleepers, CountSuccessSleepers, RetestSleepers, NotifySleepers
<1>2. CASE ~(\/ CountReady(th) \/ CountSuccess(th) \/ RetestReady(th) \/ RetestSuccess(th)
             \/ NotifyThreadsToAbort(th) \/ NotifyThreadsToUndoCommit(th))
  <2>1. /\ pc[th] \notin {"waitReady", "waitSuccess"}
        /\ \E l \in PCs : Goto(th, l)
        /\ UNCHANGED <<asleep, precommitPending, shouldAbort, commitPending, didFail>>
    BY <1>2 DEF ThreadStep, PhaseOneStep, PhaseTwoStep, CreateSocket, ConnectionRefused,
       SendPrecommit, ReceiveReady, Decide, ReceiveSuccess, ReceiveUnsuccess, Finalize,
       TakeMutex, MasterFails, MasterPerforms, MasterOpEnds, SendFinal, LosePeer,
       ReceiveError, CloseSocket, Receive, SendAndGoto, At, statVars, PCs
  <2>2. th \notin asleep
    BY <2>1 DEF Sleepers, Sleeps
  <2>3. Undisturbed
    BY <2>1, <2>2 DEF Undisturbed, Goto, IInv, MasterTypeOK, Sleepers
  <2> QED BY <2>3, UndisturbedSleepers
<1> QED BY <1>1, <1>2

\* The steps of the system.
LEMMA NextSleepers == IInv /\ Sleepers /\ [Next]_vars => Sleepers'
<1> SUFFICES ASSUME IInv, Sleepers, [Next]_vars PROVE Sleepers'
  OBVIOUS
<1>1. ASSUME NEW th \in Threads, ThreadStep(th) PROVE Sleepers'
  BY <1>1, ThreadStepSleepers
<1>2. ASSUME NEW t \in Txns, StartSynchronization(t) PROVE Sleepers'
  <2>1. \A x \in asleep : x[1] # t
    BY <1>2 DEF StartSynchronization, Arrives, IInv, Positions, Sleepers, Sleeps
  <2>2. Undisturbed
    BY <1>2, <2>1 DEF StartSynchronization, Undisturbed, statVars, Sleepers
  <2> QED BY <2>2, UndisturbedSleepers
<1>3. \/ \E th \in Threads : ThreadStep(th)
      \/ \E t \in Txns : StartSynchronization(t)
      \/ UNCHANGED <<pc, statVars>> /\ asleep' \subseteq asleep
  BY DEF Next, vars, masterVars, Rest, Request, Reject, StartLocal, LocalFails, Controller,
     ControllerStep, JoinThreads, LocalPerforms, LocalAsserts, PeerThread, MasterAsserts,
     SyncThread, PeerAsserts, SpuriousWakeup, Kill, KillInRewriting, Restart, ProcessEnds
<1>4. CASE UNCHANGED <<pc, statVars>> /\ asleep' \subseteq asleep
  BY <1>4, UndisturbedSleepers DEF Undisturbed, statVars
<1> QED BY <1>1, <1>2, <1>3, <1>4

\* A thread asleep waits for something, in every reachable state.
THEOREM SleepersInvariant == Spec => []Sleepers
<1>1. Init => Sleepers
  BY DEF Init, MasterInit, Sleepers
<1> QED BY <1>1, NextSleepers, Invariance, PTL DEF Spec

\* No wakeup is lost: for any cluster, any number of requests sharing the condition
\* variable of their node, and with processes that end, a thread that sleeps in
\* communicateWithPeer has an acknowledgement to wait for and no failure to hear of.
THEOREM NoWakeupIsLost == Spec => []NoLostWakeup
<1>1. Sleepers => NoLostWakeup
  BY DEF Sleepers, Sleeps, NoLostWakeup
<1> QED BY <1>1, SleepersInvariant, PTL

-----------------------------------------------------------------------------
(***************************************************************************)
(* Both ends of a connection, for any cluster and any set of requests,     *)
(* with processes that end and start again.                                *)
(*                                                                         *)
(* The argument follows one connection: where the peer stands with it      *)
(* (waiting to be accepted, or in one of the statuses of the               *)
(* synchronization server) says what the master's thread has sent and has  *)
(* not heard yet, and what may be under way in either direction.  So every *)
(* message that arrives is one its receiver expects, and the operations of *)
(* the peers and of the master happen in the order CommitProtocol allows.  *)
(***************************************************************************)

(* The inductive invariant.                                                *)

ConnectionTypeOK ==
    /\ backlog \in [Nodes -> Seq(Threads)]
    /\ toPeer \in [Threads -> Seq(MasterMessages)]
    /\ toMaster \in [Threads -> Seq(PeerMessages)]
    /\ masterEnd \in [Threads -> Ends]
    /\ peerEnd \in [Threads -> Ends]
    /\ status \in [Nodes -> Statuses]
    /\ conn \in [Nodes -> Threads \cup {NoThread}]
    /\ fate \in [Threads -> Fates]

\* The members of a queue, and a queue without repetition.
Member(q, x) == \E i \in DOMAIN q : q[i] = x
Distinct(q) == \A i, j \in DOMAIN q : q[i] = q[j] => i = j

\* The connection of th waits to be accepted, or is being served.
Queued(th) == Member(backlog[th[2]], th)
Served(th) == conn[th[2]] = th

\* Node n keeps every connection in one place.
Places(n) ==
    /\ conn[n] = NoThread <=> status[n] = "accept"
    /\ conn[n] # NoThread => conn[n][2] = n /\ ~Queued(conn[n])
    /\ Distinct(backlog[n])
    /\ \A x : Member(backlog[n], x) => x[2] = n

\* What the master's end of the connection says of its thread.
MasterEnds(th) ==
    /\ masterEnd[th] = "none" =>
         /\ pc[th] \in {"none", "created", "notifyAbort", "done"}
         /\ ~Queued(th) /\ ~Served(th)
         /\ toPeer[th] = <<>> /\ toMaster[th] = <<>> /\ fate[th] = "none"
    /\ pc[th] \in {"none", "created"} => masterEnd[th] = "none"
    /\ pc[th] = "done" => masterEnd[th] # "open"
    /\ masterEnd[th] = "reset" => ctl[th[1]] = "crashed"
    /\ ctl[th[1]] \in {"idle", "local", "done"} => pc[th] \in {"none", "done"}

\* The thread has had no READY; it has sent COMMIT and has had no answer.
Early(th) ==
    /\ pc[th] \in {"connected", "PRECOMMIT_SENT", "notifyAbort", "close", "done"}
    /\ lastSent[th] \in {"none", "PRECOMMIT"}

Asked(th) ==
    /\ pc[th] \in {"COMMIT_SENT", "notifyUndo", "close", "done"}
    /\ lastSent[th] = "COMMIT"

\* The peer has read everything, or all but the last message, one of S.
Unread(th, S) ==
    \/ toPeer[th] = <<>>
    \/ toPeer[th] = <<lastSent[th]>> /\ lastSent[th] \in S

\* The peer has not answered anything yet.
Waiting(th) ==
    /\ Early(th) /\ Unread(th, {"PRECOMMIT"}) /\ toMaster[th] = <<>> /\ fate[th] = "none"

\* The peer has acknowledged PRECOMMIT.
Acknowledged(th) ==
    /\ fate[th] = "none" /\ Unread(th, {"ABORT", "COMMIT"})
    /\ lastSent[th] \in {"PRECOMMIT", "ABORT", "COMMIT"}
    /\ lastSent[th] = "COMMIT" => Asked(th) /\ toMaster[th] = <<>>

\* The peer works on a COMMIT, and nothing is under way.
Working(th) == Asked(th) /\ toPeer[th] = <<>> /\ toMaster[th] = <<>>

\* The peer has acknowledged COMMIT.
Performed(th) ==
    /\ fate[th] = "applied" /\ Unread(th, {"SUCCESS_NOOP", "UNSUCCESS_UNDO"})
    /\ lastSent[th] \in AfterCommit

Serving(th, s) ==
    /\ s = "IDLE" => Waiting(th)
    /\ s = "PRECOMMIT_ACKNOWLEDGED" => Acknowledged(th)
    /\ s = "committing" => Working(th) /\ fate[th] = "none"
    /\ s = "performed" => Working(th) /\ fate[th] = "applied"
    /\ s = "AWAITING_SUCCESS_OR_UNDO_BROADCAST" => Performed(th)

\* What may be under way to the master.
Answers(th) ==
    \/ toMaster[th] = <<>>
    \/ /\ toMaster[th] = <<"READY">> /\ lastSent[th] = "PRECOMMIT"
       /\ pc[th] \in {"PRECOMMIT_SENT", "notifyAbort", "close"}
    \/ /\ toMaster[th] = <<"COMMIT_SUCCESS">> /\ fate[th] # "none" /\ lastSent[th] = "COMMIT"
       /\ pc[th] \in {"COMMIT_SENT", "notifyUndo", "close"}
    \/ /\ toMaster[th] = <<"COMMIT_UNSUCCESS">> /\ lastSent[th] = "COMMIT"
       /\ pc[th] \in {"COMMIT_SENT", "notifyUndo", "close"}

Session(th) ==
    /\ MasterEnds(th)
    /\ Queued(th) => Waiting(th)
    /\ Served(th) => Serving(th, status[th[2]])
    /\ Answers(th)
    /\ pc[th] = "gotSuccess" \/ Committed(th) => fate[th] # "none"

CInv ==
    /\ ConnectionTypeOK
    /\ \A n \in Nodes : Places(n)
    /\ \A th \in Threads : Session(th)

-----------------------------------------------------------------------------
(* Facts about connections.                                                *)

\* A thread names its request and its peer, and is not NoThread.
LEMMA ThreadParts ==
    \A th \in Threads : th[1] \in Txns /\ th[2] \in Nodes /\ th # NoThread
BY SocketsAssumption DEF Threads

\* A connection with one message under way.
LEMMA OneMessage ==
    ASSUME NEW m
    PROVE  /\ Append(<<>>, m) = <<m>> /\ Head(<<m>>) = m /\ Tail(<<m>>) = <<>>
           /\ <<m>> # <<>>
OBVIOUS

\* Nothing about the connection of x changes.
Same(x) ==
    /\ pc'[x] = pc[x] /\ lastSent'[x] = lastSent[x] /\ fate'[x] = fate[x]
    /\ toPeer'[x] = toPeer[x] /\ toMaster'[x] = toMaster[x] /\ masterEnd'[x] = masterEnd[x]
    /\ Queued(x)' <=> Queued(x)
    /\ Served(x)' <=> Served(x)
    /\ Served(x) => status'[x[2]] = status[x[2]]
    /\ \/ ctl'[x[1]] = ctl[x[1]]
       \/ ctl[x[1]] # "crashed" /\ pc[x] \in {"none", "done"}

\* Then what is known of it stays true.
LEMMA SameSession ==
    ASSUME NEW x, Session(x), Same(x)
    PROVE  Session(x)'
<1> USE DEF Same
<1>1. MasterEnds(x)'
  BY DEF Session, MasterEnds
<1>2. Waiting(x)' <=> Waiting(x)
  BY DEF Waiting, Early, Unread
<1>3. Served(x)' => Serving(x, status[x[2]])'
  <2>1. ASSUME Served(x), NEW s, Serving(x, s) PROVE Serving(x, s)'
    BY <1>2, <2>1 DEF Serving, Acknowledged, Working, Performed, Asked, Unread
  <2> QED BY <2>1 DEF Session
<1>4. Answers(x)'
  BY DEF Session, Answers
<1> QED BY <1>1, <1>2, <1>3, <1>4 DEF Session, Committed

\* Nodes keep their connections in place where backlog, conn and status stay.
LEMMA SamePlaces ==
    ASSUME NEW n \in Nodes, Places(n), conn[n] \in Threads \cup {NoThread},
           backlog'[n] = backlog[n], conn'[n] = conn[n], status'[n] = status[n]
    PROVE  Places(n)'
<1>1. conn[n] # NoThread => (Queued(conn[n]) <=> Queued(conn[n])')
  BY DEF Queued, Places
<1> QED BY <1>1 DEF Places

-----------------------------------------------------------------------------
(* Steps of the communicateWithPeer threads.                               *)

\* A step of thread th that touches no connection but its own.
OwnStep(th) ==
    /\ UNCHANGED <<ctl, backlog, status, conn, fate>>
    /\ \E l : pc' = [pc EXCEPT ![th] = l]
    /\ \E m : lastSent' = [lastSent EXCEPT ![th] = m]
    /\ \E q : toPeer' = [toPeer EXCEPT ![th] = q]
    /\ \E q : toMaster' = [toMaster EXCEPT ![th] = q]
    /\ \E e : masterEnd' = [masterEnd EXCEPT ![th] = e]

\* It is enough to look at that connection.
LEMMA OwnStepKeepsInvariant ==
    ASSUME IInv, CInv, NEW th \in Threads, OwnStep(th), ConnectionTypeOK', Session(th)'
    PROVE  CInv'
<1>1. ASSUME NEW n \in Nodes PROVE Places(n)'
  BY SamePlaces DEF OwnStep, CInv, ConnectionTypeOK
<1>2. ASSUME NEW x \in Threads, x # th PROVE Session(x)'
  <2>1. pc'[x] = pc[x] /\ lastSent'[x] = lastSent[x]
    BY <1>2 DEF OwnStep, IInv, MasterTypeOK
  <2>2. toPeer'[x] = toPeer[x] /\ toMaster'[x] = toMaster[x] /\ masterEnd'[x] = masterEnd[x]
    BY <1>2 DEF OwnStep, CInv, ConnectionTypeOK
  <2>3. Queued(x)' = Queued(x) /\ Served(x)' = Served(x)
    BY DEF OwnStep, Queued, Served
  <2>4. Same(x)
    BY <2>1, <2>2, <2>3 DEF OwnStep, Same
  <2> QED BY <2>4, SameSession DEF CInv
<1> QED BY <1>1, <1>2 DEF CInv

\* The moves of a thread that use no socket.
Silent(th) ==
    \/ pc[th] = "created" /\ Goto(th, "notifyAbort")
    \/ pc[th] = "PRECOMMIT_SENT" /\ (Goto(th, "notifyAbort") \/ Goto(th, "close"))
    \/ pc[th] = "COMMIT_SENT" /\ (Goto(th, "notifyUndo") \/ Goto(th, "close"))
    \/ pc[th] \in {"gotReady", "waitReady"} /\ (Goto(th, "decide") \/ Goto(th, "waitReady"))
    \/ /\ pc[th] \in {"gotSuccess", "waitSuccess"}
       /\ Goto(th, "finalize") \/ Goto(th, "waitSuccess")
    \/ pc[th] = "finalize" /\ (Goto(th, "lockOp") \/ Goto(th, "sendFinal"))
    \/ pc[th] = "lockOp" /\ (Goto(th, "masterOp") \/ Goto(th, "sendFinal"))
    \/ pc[th] = "masterOp" /\ Goto(th, "sendFinal")
    \/ pc[th] = "notifyAbort" /\ Goto(th, IF masterEnd[th] = "none" THEN "done" ELSE "close")
    \/ pc[th] = "notifyUndo" /\ Goto(th, "close")

\* Such a move fits what the peer knows.
LEMMA SilentKeepsInvariant ==
    ASSUME IInv, CInv, NEW th \in Threads, Silent(th), ctl[th[1]] = "joining",
           UNCHANGED <<ctl, lastSent, sockVars, status, conn, fate>>
    PROVE  CInv'
<1> USE DEF sockVars
<1>0. /\ pc \in [Threads -> PCs] /\ Session(th) /\ Positions!(th)
      /\ lastSent \in [Threads -> MasterMessages \cup {"none"}]
      /\ ConnectionTypeOK
  BY DEF IInv, MasterTypeOK, CInv, Positions
<1>1. OwnStep(th)
  <2>1. \E l : pc' = [pc EXCEPT ![th] = l]
    BY DEF Silent, Goto
  <2>2. /\ lastSent' = [lastSent EXCEPT ![th] = lastSent[th]]
        /\ toPeer' = [toPeer EXCEPT ![th] = toPeer[th]]
        /\ toMaster' = [toMaster EXCEPT ![th] = toMaster[th]]
        /\ masterEnd' = [masterEnd EXCEPT ![th] = masterEnd[th]]
    BY <1>0 DEF ConnectionTypeOK
  <2> QED BY <2>1, <2>2 DEF OwnStep
<1>2. ConnectionTypeOK'
  BY <1>0 DEF ConnectionTypeOK
<1>3. Session(th)'
  <2>0. Queued(th)' = Queued(th) /\ Served(th)' = Served(th)
    BY DEF Queued, Served
  <2>1. MasterEnds(th)'
    BY <1>0, <2>0 DEF Session, MasterEnds, Silent, Goto
  <2>2. Early(th) => Early(th)'
    BY <1>0 DEF Early, Silent, Goto
  <2>3. Asked(th) => Asked(th)'
    BY <1>0 DEF Asked, Silent, Goto
  <2>4. Waiting(th) => Waiting(th)'
    BY <2>2 DEF Waiting, Unread
  <2>5. ASSUME NEW s, Serving(th, s) PROVE Serving(th, s)'
    BY <2>3, <2>4, <2>5 DEF Serving, Acknowledged, Working, Performed, Unread
  <2>6. Answers(th)'
    BY <1>0 DEF Session, MasterEnds, Answers, Silent, Goto
  <2>7. pc'[th] = "gotSuccess" \/ Committed(th)' => fate'[th] # "none"
    BY <1>0 DEF Session, Committed, Silent, Goto
  <2> QED BY <1>0, <2>0, <2>1, <2>4, <2>5, <2>6, <2>7 DEF Session
<1> QED BY <1>1, <1>2, <1>3, OwnStepKeepsInvariant
\* The sends of a thread, each from its own place.
Sends(th, m, l) ==
    /\ \/ pc[th] = "connected" /\ m = "PRECOMMIT" /\ l = "PRECOMMIT_SENT"
       \/ pc[th] = "decide" /\ m = "ABORT" /\ l = "close"
       \/ pc[th] = "decide" /\ m = "COMMIT" /\ l = "COMMIT_SENT"
       \/ pc[th] = "sendFinal" /\ m \in {"SUCCESS_NOOP", "UNSUCCESS_UNDO"} /\ l = "close"
    /\ SendAndGoto(th, m, l)

\* A message is sent only when the peer has read the one before it.
LEMMA SendsKeepInvariant ==
    ASSUME IInv, CInv, NEW th \in Threads, ctl[th[1]] = "joining", NEW m, NEW l,
           Sends(th, m, l), UNCHANGED slaveVars
    PROVE  CInv'
<1>0. /\ pc \in [Threads -> PCs] /\ Session(th) /\ Positions!(th)
      /\ lastSent \in [Threads -> MasterMessages \cup {"none"}]
      /\ ConnectionTypeOK /\ th[2] \in Nodes /\ status[th[2]] \in Statuses
  BY ThreadParts DEF IInv, MasterTypeOK, CInv, Positions, ConnectionTypeOK
<1>1. /\ pc' = [pc EXCEPT ![th] = l] /\ lastSent' = [lastSent EXCEPT ![th] = m]
      /\ UNCHANGED <<ctl, backlog, toMaster, masterEnd, peerEnd, status, conn, fate>>
      /\ m \in MasterMessages
  BY DEF Sends, SendAndGoto, Goto, slaveVars, MasterMessages
<1>2. \/ toPeer' = [toPeer EXCEPT ![th] = Append(toPeer[th], m)]
      \/ toPeer' = [toPeer EXCEPT ![th] = toPeer[th]]
  <2>1. toPeer = [toPeer EXCEPT ![th] = toPeer[th]]
    BY <1>0 DEF ConnectionTypeOK
  <2> QED BY <2>1 DEF Sends, SendAndGoto, SendToPeer
<1>3. OwnStep(th)
  <2>1. /\ toMaster' = [toMaster EXCEPT ![th] = toMaster[th]]
        /\ masterEnd' = [masterEnd EXCEPT ![th] = masterEnd[th]]
    BY <1>0, <1>1 DEF ConnectionTypeOK
  <2>2. \E q : toPeer' = [toPeer EXCEPT ![th] = q]
    BY <1>2
  <2> QED BY <1>1, <2>1, <2>2 DEF OwnStep
<1>4. ConnectionTypeOK'
  <2>1. toPeer[th] \in Seq(MasterMessages) /\ Append(toPeer[th], m) \in Seq(MasterMessages)
    BY <1>0, <1>1 DEF ConnectionTypeOK
  <2>2. toPeer' \in [Threads -> Seq(MasterMessages)]
    BY <1>0, <1>2, <2>1 DEF ConnectionTypeOK
  <2> QED BY <1>0, <1>1, <2>2 DEF ConnectionTypeOK
<1>5. Session(th)'
  <2>0. Queued(th)' = Queued(th) /\ Served(th)' = Served(th)
    BY <1>1 DEF Queued, Served
  <2>a. /\ pc'[th] = l /\ lastSent'[th] = m /\ fate'[th] = fate[th]
        /\ toMaster'[th] = toMaster[th] /\ masterEnd'[th] = masterEnd[th]
        /\ ctl'[th[1]] = ctl[th[1]] /\ status'[th[2]] = status[th[2]]
    BY <1>0, <1>1
  <2>b. toPeer[th] = <<>> => toPeer'[th] = <<>> \/ toPeer'[th] = <<m>>
    BY <1>0, <1>2, OneMessage DEF ConnectionTypeOK
  <2>1. MasterEnds(th)'
    BY <1>0, <2>0, <2>a DEF Session, MasterEnds, Sends
  <2>c. toMaster[th] = <<>>
    BY <1>0 DEF Session, Answers, Sends
  <2>2. Queued(th) => Waiting(th)'
    BY <1>0, <2>a, <2>b DEF Session, Waiting, Early, Unread, Sends
  <2>3. Served(th) => Serving(th, status[th[2]])'
    <3> SUFFICES ASSUME Served(th) PROVE Serving(th, status[th[2]])'
      OBVIOUS
    <3>0. Serving(th, status[th[2]])
      BY <1>0 DEF Session
    <3>1. CASE status[th[2]] = "IDLE"
      BY <1>0, <2>a, <2>b, <3>0, <3>1 DEF Serving, Waiting, Early, Unread, Sends
    <3>2. CASE status[th[2]] = "PRECOMMIT_ACKNOWLEDGED"
      BY <1>0, <2>a, <2>b, <2>c, <3>0, <3>2 DEF Serving, Acknowledged, Asked, Unread, Sends
    <3>3. CASE status[th[2]] \in {"committing", "performed"}
      BY <1>0, <3>0, <3>3 DEF Serving, Working, Asked, Sends
    <3>4. CASE status[th[2]] = "AWAITING_SUCCESS_OR_UNDO_BROADCAST"
      BY <1>0, <2>a, <2>b, <3>0, <3>4 DEF Serving, Performed, AfterCommit, Unread, Sends
    <3>5. CASE status[th[2]] = "accept"
      BY <2>a, <3>5 DEF Serving
    <3> QED BY <1>0, <3>1, <3>2, <3>3, <3>4, <3>5 DEF Statuses
  <2>4. Answers(th)'
    BY <2>a, <2>c DEF Answers
  <2>5. pc'[th] = "gotSuccess" \/ Committed(th)' => fate'[th] # "none"
    BY <1>0, <2>a DEF Session, Committed, Sends
  <2> QED BY <2>0, <2>1, <2>2, <2>3, <2>4, <2>5 DEF Session
<1> QED BY <1>3, <1>4, <1>5, OwnStepKeepsInvariant

\* An answer that was read leaves nothing under way to the master; COMMIT_SUCCESS
\* was sent by a peer that has performed the operation.
LEMMA ReceivesKeepInvariant ==
    ASSUME IInv, CInv, NEW th \in Threads, UNCHANGED slaveVars,
           ReceiveReady(th) \/ ReceiveSuccess(th) \/ ReceiveUnsuccess(th)
    PROVE  CInv'
<1> DEFINE m == Head(toMaster[th])
<1>0. /\ pc \in [Threads -> PCs] /\ Session(th)
      /\ lastSent \in [Threads -> MasterMessages \cup {"none"}]
      /\ ConnectionTypeOK /\ th[2] \in Nodes /\ status[th[2]] \in Statuses
  BY ThreadParts DEF IInv, MasterTypeOK, CInv, ConnectionTypeOK
<1>1. /\ UNCHANGED <<ctl, lastSent, backlog, toPeer, masterEnd, peerEnd, status, conn, fate>>
      /\ toMaster' = [toMaster EXCEPT ![th] = Tail(@)] /\ toMaster[th] # <<>>
      /\ \/ pc[th] = "PRECOMMIT_SENT" /\ m = "READY" /\ Goto(th, "gotReady")
         \/ pc[th] = "COMMIT_SENT" /\ m = "COMMIT_SUCCESS" /\ Goto(th, "gotSuccess")
         \/ pc[th] = "COMMIT_SENT" /\ m = "COMMIT_UNSUCCESS" /\ Goto(th, "notifyUndo")
      /\ ctl[th[1]] = "joining"
  BY DEF ReceiveReady, ReceiveSuccess, ReceiveUnsuccess, Receive, At, MasterGets, slaveVars
<1>2. OwnStep(th)
  <2>1. /\ toPeer' = [toPeer EXCEPT ![th] = toPeer[th]]
        /\ lastSent' = [lastSent EXCEPT ![th] = lastSent[th]]
        /\ masterEnd' = [masterEnd EXCEPT ![th] = masterEnd[th]]
    BY <1>0, <1>1 DEF ConnectionTypeOK
  <2>2. (\E l : pc' = [pc EXCEPT ![th] = l]) /\ \E q : toMaster' = [toMaster EXCEPT ![th] = q]
    BY <1>1 DEF Goto
  <2> QED BY <1>1, <2>1, <2>2 DEF OwnStep
<1>3. ConnectionTypeOK'
  BY <1>0, <1>1 DEF ConnectionTypeOK
<1>4. Session(th)'
  <2>0. Queued(th)' = Queued(th) /\ Served(th)' = Served(th)
    BY <1>1 DEF Queued, Served
  <2>a. toMaster[th] = <<m>> /\ toMaster'[th] = <<>>
    BY <1>0, <1>1, OneMessage DEF Session, Answers, ConnectionTypeOK
  <2>b. /\ lastSent'[th] = lastSent[th] /\ fate'[th] = fate[th] /\ toPeer'[th] = toPeer[th]
        /\ masterEnd'[th] = masterEnd[th] /\ status'[th[2]] = status[th[2]]
        /\ ctl'[th[1]] = "joining"
    BY <1>1
  <2>c. m = "COMMIT_SUCCESS" => fate[th] # "none"
    BY <1>0, <2>a, OneMessage DEF Session, Answers
  <2>d. /\ m = "READY" => pc'[th] = "gotReady" /\ lastSent[th] = "PRECOMMIT"
        /\ m = "COMMIT_SUCCESS" => pc'[th] = "gotSuccess" /\ lastSent[th] = "COMMIT"
        /\ m = "COMMIT_UNSUCCESS" => pc'[th] = "notifyUndo" /\ lastSent[th] = "COMMIT"
        /\ m \in PeerMessages
    BY <1>0, <1>1, <2>a, OneMessage DEF Session, Answers, PeerMessages, Goto
  <2> HIDE DEF m
  <2>1. MasterEnds(th)'
    BY <1>0, <1>1, <2>0, <2>a, <2>b, <2>d DEF Session, MasterEnds, PeerMessages
  <2>2. ~Queued(th)
    BY <1>0, <1>1 DEF Session, Waiting
  <2>3. Served(th) => Serving(th, status[th[2]])'
    <3> SUFFICES ASSUME Served(th) PROVE Serving(th, status[th[2]])'
      OBVIOUS
    <3>0. Serving(th, status[th[2]])
      BY <1>0 DEF Session
    <3>1. status[th[2]] \notin {"IDLE", "committing", "performed"}
      BY <1>1, <3>0 DEF Serving, Waiting, Working
    <3>2. CASE status[th[2]] = "PRECOMMIT_ACKNOWLEDGED"
      BY <1>1, <2>b, <3>0, <3>2 DEF Serving, Acknowledged, Unread
    <3>3. CASE status[th[2]] = "AWAITING_SUCCESS_OR_UNDO_BROADCAST"
      BY <2>b, <3>0, <3>3 DEF Serving, Performed, Unread
    <3>4. CASE status[th[2]] = "accept"
      BY <2>b, <3>4 DEF Serving
    <3> QED BY <1>0, <3>1, <3>2, <3>3, <3>4 DEF Statuses
  <2>4. Answers(th)'
    BY <2>a DEF Answers
  <2>5. pc'[th] = "gotSuccess" \/ Committed(th)' => fate'[th] # "none"
    BY <1>0, <2>b, <2>c, <2>d DEF Session, Committed, PeerMessages
  <2> QED BY <2>0, <2>1, <2>2, <2>3, <2>4, <2>5 DEF Session
<1> QED BY <1>2, <1>3, <1>4, OwnStepKeepsInvariant
\* A connection added at the end of a queue.
LEMMA Enqueued ==
    ASSUME NEW S, NEW q \in Seq(S), NEW e \in S
    PROVE  /\ Append(q, e) \in Seq(S)
           /\ \A x : Member(Append(q, e), x) <=> Member(q, x) \/ x = e
           /\ Distinct(q) /\ ~Member(q, e) => Distinct(Append(q, e))
<1> DEFINE r == Append(q, e)
<1>1. /\ r \in Seq(S) /\ DOMAIN q = 1 .. Len(q) /\ Len(q) \in Nat
      /\ DOMAIN r = 1 .. Len(q) + 1
      /\ \A i \in 1 .. Len(q) : r[i] = q[i]
      /\ r[Len(q) + 1] = e
  OBVIOUS
<1> HIDE DEF r
<1>2. \A x : Member(r, x) <=> Member(q, x) \/ x = e
  BY <1>1 DEF Member
<1>3. Distinct(q) /\ ~Member(q, e) => Distinct(r)
  BY <1>1 DEF Distinct, Member
<1> QED BY <1>1, <1>2, <1>3 DEF r

\* A connection is made once, and joins the others at the end of the queue.
LEMMA CreateSocketKeepsInvariant ==
    ASSUME IInv, CInv, NEW th \in Threads, CreateSocket(th), UNCHANGED slaveVars
    PROVE  CInv'
<1> DEFINE p == th[2]
           q == backlog[p]
<1>0. /\ pc \in [Threads -> PCs] /\ Session(th) /\ ConnectionTypeOK /\ Positions!(th)
      /\ lastSent \in [Threads -> MasterMessages \cup {"none"}]
      /\ p \in Nodes /\ q \in Seq(Threads)
  BY ThreadParts DEF IInv, MasterTypeOK, CInv, ConnectionTypeOK, Positions
<1>1. /\ pc[th] = "created" /\ ctl[th[1]] = "joining"
      /\ pc' = [pc EXCEPT ![th] = "connected"]
      /\ masterEnd' = [masterEnd EXCEPT ![th] = "open"]
      /\ peerEnd' = [peerEnd EXCEPT ![th] = "open"]
      /\ backlog' = [backlog EXCEPT ![p] = Append(q, th)]
      /\ UNCHANGED <<ctl, lastSent, toPeer, toMaster, status, conn, fate>>
  BY DEF CreateSocket, Connect, Goto, At, slaveVars
<1>2. /\ Append(q, th) \in Seq(Threads)
      /\ \A x : Member(Append(q, th), x) <=> Member(q, x) \/ x = th
      /\ Distinct(q) /\ ~Member(q, th) => Distinct(Append(q, th))
  BY <1>0, Enqueued
<1>3. ~Queued(th) /\ ~Served(th) /\ toPeer[th] = <<>> /\ toMaster[th] = <<>> /\ fate[th] = "none"
  BY <1>0, <1>1 DEF Session, MasterEnds
<1>4. backlog'[p] = Append(q, th) /\ \A n \in Nodes : n # p => backlog'[n] = backlog[n]
  BY <1>0, <1>1 DEF ConnectionTypeOK
<1>5. ConnectionTypeOK'
  BY <1>0, <1>1, <1>2 DEF ConnectionTypeOK, Ends
<1>6. \A x \in Threads : x # th => (Queued(x)' <=> Queued(x))
  BY <1>2, <1>4, ThreadParts DEF Queued
<1>7. ASSUME NEW n \in Nodes PROVE Places(n)'
  <2>0. Places(n) /\ conn[n] \in Threads \cup {NoThread}
    BY <1>0 DEF CInv, ConnectionTypeOK
  <2>1. CASE n # p
    BY <1>1, <1>4, <2>0, <2>1, SamePlaces
  <2>2. CASE n = p
    <3>1. Distinct(backlog'[n]) /\ \A x : Member(backlog'[n], x) => x[2] = n
      BY <1>2, <1>3, <1>4, <2>0, <2>2 DEF Places, Queued
    <3>2. conn[n] # NoThread => conn'[n][2] = n /\ ~Queued(conn[n])'
      <4>1. conn'[n] = conn[n] /\ conn[n] # th
        BY <1>1, <1>3, <2>2 DEF Served
      <4> QED BY <1>2, <1>4, <2>0, <2>2, <4>1 DEF Places, Queued
    <3> QED BY <1>1, <2>0, <3>1, <3>2 DEF Places
  <2> QED BY <2>1, <2>2
<1>8. Session(th)'
  <2>1. Served(th)' = Served(th)
    BY <1>1 DEF Served
  <2>2. /\ pc'[th] = "connected" /\ lastSent'[th] = "none" /\ masterEnd'[th] = "open"
        /\ toPeer'[th] = <<>> /\ toMaster'[th] = <<>> /\ fate'[th] = "none"
        /\ ctl'[th[1]] = "joining"
    BY <1>0, <1>1, <1>3 DEF ConnectionTypeOK
  <2>3. MasterEnds(th)' /\ Waiting(th)' /\ Answers(th)'
    BY <2>2 DEF MasterEnds, Waiting, Early, Unread, Answers
  <2> QED BY <1>3, <2>1, <2>2, <2>3 DEF Session, Committed
<1>9. ASSUME NEW x \in Threads, x # th PROVE Session(x)'
  <2>1. Same(x)
    BY <1>0, <1>1, <1>6, <1>9 DEF Same, Served, ConnectionTypeOK
  <2> QED BY <2>1, SameSession DEF CInv
<1> QED BY <1>5, <1>7, <1>8, <1>9 DEF CInv

\* Closing the master's end loses what the peer had sent.
LEMMA CloseSocketKeepsInvariant ==
    ASSUME IInv, CInv, NEW th \in Threads, CloseSocket(th), UNCHANGED slaveVars
    PROVE  CInv'
<1>0. /\ pc \in [Threads -> PCs] /\ Session(th) /\ ConnectionTypeOK
      /\ lastSent \in [Threads -> MasterMessages \cup {"none"}]
  BY DEF IInv, MasterTypeOK, CInv
<1>1. /\ pc[th] = "close" /\ ctl[th[1]] = "joining"
      /\ pc' = [pc EXCEPT ![th] = "done"]
      /\ masterEnd' = [masterEnd EXCEPT ![th] = "closed"]
      /\ toMaster' = [toMaster EXCEPT ![th] = <<>>]
      /\ UNCHANGED <<ctl, lastSent, backlog, toPeer, peerEnd, status, conn, fate>>
  BY DEF CloseSocket, Goto, At, slaveVars
<1>2. OwnStep(th)
  <2>1. /\ toPeer' = [toPeer EXCEPT ![th] = toPeer[th]]
        /\ lastSent' = [lastSent EXCEPT ![th] = lastSent[th]]
    BY <1>0, <1>1 DEF ConnectionTypeOK
  <2> QED BY <1>1, <2>1 DEF OwnStep
<1>3. ConnectionTypeOK'
  BY <1>0, <1>1 DEF ConnectionTypeOK, Ends
<1>4. Session(th)'
  <2>0. Queued(th)' = Queued(th) /\ Served(th)' = Served(th)
    BY <1>1 DEF Queued, Served
  <2>1. /\ pc'[th] = "done" /\ masterEnd'[th] = "closed" /\ toMaster'[th] = <<>>
        /\ lastSent'[th] = lastSent[th] /\ toPeer'[th] = toPeer[th] /\ fate'[th] = fate[th]
        /\ status'[th[2]] = status[th[2]] /\ ctl'[th[1]] = "joining"
    BY <1>0, <1>1 DEF ConnectionTypeOK
  <2>2. MasterEnds(th)' /\ Answers(th)'
    BY <2>1 DEF MasterEnds, Answers
  <2>3. Waiting(th) => Waiting(th)'
    BY <2>1 DEF Waiting, Early, Unread
  <2>4. ASSUME NEW s, Serving(th, s) PROVE Serving(th, s)'
    BY <1>1, <2>1, <2>3, <2>4 DEF Serving, Acknowledged, Working, Performed, Asked, Unread
  <2>5. Committed(th)' => Committed(th)
    BY <2>1 DEF Committed
  <2> QED BY <1>0, <2>0, <2>1, <2>2, <2>3, <2>4, <2>5 DEF Session
<1> QED BY <1>2, <1>3, <1>4, OwnStepKeepsInvariant

\* Every step of a thread keeps the connections in order.
LEMMA ThreadStepKeepsConnections ==
    ASSUME IInv, CInv, NEW th \in Threads, ThreadStep(th), UNCHANGED slaveVars
    PROVE  CInv'
<1>1. CASE \/ ReceiveReady(th) \/ ReceiveSuccess(th) \/ ReceiveUnsuccess(th)
           \/ CreateSocket(th) \/ CloseSocket(th)
  BY <1>1, ReceivesKeepInvariant, CreateSocketKeepsInvariant, CloseSocketKeepsInvariant
<1>2. CASE SendPrecommit(th) \/ Decide(th) \/ SendFinal(th)
  <2>1. ctl[th[1]] = "joining" /\ \E m, l : Sends(th, m, l)
    BY <1>2 DEF SendPrecommit, Decide, SendFinal, Sends, At
  <2> QED BY <2>1, SendsKeepInvariant
<1>3. CASE \/ ConnectionRefused(th) \/ CountReady(th) \/ RetestReady(th)
           \/ NotifyThreadsToAbort(th) \/ CountSuccess(th) \/ RetestSuccess(th)
           \/ Finalize(th) \/ TakeMutex(th) \/ MasterFails(th) \/ MasterPerforms(th)
           \/ NotifyThreadsToUndoCommit(th) \/ LosePeer(th) \/ ReceiveError(th)
  <2>1. UNCHANGED <<ctl, lastSent, sockVars, status, conn, fate>> /\ ctl[th[1]] = "joining"
    BY <1>3 DEF ConnectionRefused, CountReady, RetestReady, NotifyThreadsToAbort,
       CountSuccess, RetestSuccess, Finalize, TakeMutex, MasterFails, MasterPerforms,
       MasterOpEnds, NotifyThreadsToUndoCommit, LosePeer, ReceiveError, At, slaveVars
  <2>2. Silent(th)
    BY <1>3 DEF ConnectionRefused, CountReady, RetestReady, NotifyThreadsToAbort,
       CountSuccess, RetestSuccess, Finalize, TakeMutex, MasterFails, MasterPerforms,
       MasterOpEnds, NotifyThreadsToUndoCommit, LosePeer, ReceiveError, At, Silent
  <2> QED BY <2>1, <2>2, SilentKeepsInvariant
<1> QED BY <1>1, <1>2, <1>3 DEF ThreadStep, PhaseOneStep, PhaseTwoStep
-----------------------------------------------------------------------------
(* Steps of the synchronization servers.                                   *)

\* A step of the synchronization server of n with the connection c it serves.
ServerStep(n, c) ==
    /\ UNCHANGED <<pc, lastSent, ctl, backlog, masterEnd>>
    /\ \E q : toPeer' = [toPeer EXCEPT ![c] = q]
    /\ \E q : toMaster' = [toMaster EXCEPT ![c] = q]
    /\ \E f : fate' = [fate EXCEPT ![c] = f]
    /\ \E s : status' = [status EXCEPT ![n] = s]
    /\ \/ UNCHANGED conn /\ status'[n] # "accept"
       \/ conn' = [conn EXCEPT ![n] = NoThread] /\ status'[n] = "accept"

\* What is known of a connection being served.
LEMMA ServedConnection ==
    ASSUME IInv, CInv, NEW n \in Nodes, status[n] # "accept"
    PROVE  /\ conn[n] \in Threads /\ conn[n] # NoThread /\ conn[n][2] = n
           /\ Served(conn[n]) /\ ~Queued(conn[n])
           /\ Session(conn[n]) /\ Serving(conn[n], status[n]) /\ Positions!(conn[n])
           /\ masterEnd[conn[n]] # "none"
<1>1. conn[n] \in Threads /\ conn[n] # NoThread /\ conn[n][2] = n /\ ~Queued(conn[n])
  BY DEF CInv, ConnectionTypeOK, Places
<1>2. Served(conn[n]) /\ Session(conn[n]) /\ Positions!(conn[n])
  BY <1>1 DEF Served, CInv, IInv, Positions
<1> QED BY <1>1, <1>2 DEF Session, MasterEnds

\* It is enough to look at that connection.
LEMMA ServerStepKeepsInvariant ==
    ASSUME IInv, CInv, NEW n \in Nodes, status[n] # "accept", NEW c, c = conn[n],
           ServerStep(n, c), ConnectionTypeOK', Session(c)'
    PROVE  CInv'
<1>0. c \in Threads /\ c # NoThread /\ c[2] = n /\ ~Queued(c) /\ ConnectionTypeOK
  BY ServedConnection DEF CInv
<1>1. ASSUME NEW m \in Nodes PROVE Places(m)'
  <2>0. Places(m) /\ conn[m] \in Threads \cup {NoThread} /\ backlog'[m] = backlog[m]
    BY <1>0 DEF CInv, ConnectionTypeOK, ServerStep
  <2>1. CASE m # n
    BY <1>0, <2>0, <2>1, SamePlaces DEF ServerStep, ConnectionTypeOK
  <2>2. CASE m = n /\ conn' = conn
    <3>1. status'[n] # "accept" /\ conn'[n] = c
      BY <1>0, <2>2 DEF ServerStep, ConnectionTypeOK
    <3>2. conn'[m][2] = m /\ ~Queued(conn[m])'
      BY <1>0, <2>0, <2>2, <3>1 DEF Queued
    <3> QED BY <1>0, <2>0, <2>2, <3>1, <3>2 DEF Places
  <2>3. CASE m = n /\ conn' # conn
    <3>1. conn'[n] = NoThread /\ status'[n] = "accept"
      BY <1>0, <2>3 DEF ServerStep, ConnectionTypeOK
    <3> QED BY <2>0, <2>3, <3>1 DEF Places
  <2> QED BY <2>1, <2>2, <2>3
<1>2. ASSUME NEW x \in Threads, x # c PROVE Session(x)'
  <2>1. /\ toPeer'[x] = toPeer[x] /\ toMaster'[x] = toMaster[x] /\ fate'[x] = fate[x]
        /\ pc'[x] = pc[x] /\ lastSent'[x] = lastSent[x] /\ masterEnd'[x] = masterEnd[x]
        /\ ctl'[x[1]] = ctl[x[1]]
    BY <1>0, <1>2 DEF ServerStep, ConnectionTypeOK
  <2>2. Queued(x)' = Queued(x)
    BY DEF Queued, ServerStep
  <2>3. (Served(x)' <=> Served(x)) /\ (Served(x) => status'[x[2]] = status[x[2]])
    BY <1>0, <1>2, ThreadParts DEF Served, ServerStep, ConnectionTypeOK
  <2>4. Same(x)
    BY <2>1, <2>2, <2>3 DEF Same
  <2> QED BY <2>4, SameSession DEF CInv
<1> QED BY <1>1, <1>2 DEF CInv
\* The server gives a connection up: with or without an answer, and having settled
\* the operation it performed, if any.
Closing(n, c) ==
    /\ CloseConnection(n)
    /\ fate' = fate \/ \E f \in {"kept", "undone"} : fate' = [fate EXCEPT ![c] = f]
    /\ \/ UNCHANGED toMaster
       \/ /\ SendToMaster(c, "COMMIT_UNSUCCESS")
          /\ Asked(c) /\ toMaster[c] = <<>>

\* Then the thread at the other end may learn of it whenever it likes.
LEMMA ClosingKeepsInvariant ==
    ASSUME IInv, CInv, NEW n \in Nodes, status[n] # "accept", NEW c, c = conn[n],
           Closing(n, c), UNCHANGED masterVars
    PROVE  CInv'
<1>0. /\ c \in Threads /\ c # NoThread /\ c[2] = n /\ ~Queued(c) /\ Session(c)
      /\ ConnectionTypeOK /\ masterEnd[c] # "none"
  BY ServedConnection DEF CInv
<1>1. /\ peerEnd' = [peerEnd EXCEPT ![c] = "closed"]
      /\ toPeer' = [toPeer EXCEPT ![c] = <<>>]
      /\ status' = [status EXCEPT ![n] = "accept"]
      /\ conn' = [conn EXCEPT ![n] = NoThread]
      /\ UNCHANGED <<backlog, masterEnd, pc, lastSent, ctl>>
  BY DEF Closing, CloseConnection, masterVars
<1>2. /\ toMaster = [toMaster EXCEPT ![c] = toMaster[c]]
      /\ fate = [fate EXCEPT ![c] = fate[c]]
  BY <1>0 DEF ConnectionTypeOK
<1>3. PICK f \in Fates : fate' = [fate EXCEPT ![c] = f] /\ (f = fate[c] \/ f # "none")
  <2>1. fate[c] \in Fates
    BY <1>0 DEF ConnectionTypeOK
  <2> QED BY <1>2, <2>1 DEF Closing, Fates
<1>4. PICK q \in Seq(PeerMessages) :
        /\ toMaster' = [toMaster EXCEPT ![c] = q]
        /\ \/ q = toMaster[c]
           \/ q = <<"COMMIT_UNSUCCESS">> /\ Asked(c) /\ masterEnd[c] = "open"
  <2>1. toMaster[c] \in Seq(PeerMessages) /\ <<"COMMIT_UNSUCCESS">> \in Seq(PeerMessages)
    BY <1>0 DEF ConnectionTypeOK, PeerMessages
  <2>2. CASE UNCHANGED toMaster
    BY <1>2, <2>1, <2>2
  <2>3. CASE SendToMaster(c, "COMMIT_UNSUCCESS") /\ Asked(c) /\ toMaster[c] = <<>>
    <3>1. CASE masterEnd[c] = "open"
      BY <2>1, <2>3, <3>1, OneMessage DEF SendToMaster
    <3>2. CASE masterEnd[c] # "open"
      BY <1>2, <2>1, <2>3, <3>2 DEF SendToMaster
    <3> QED BY <3>1, <3>2
  <2> QED BY <2>2, <2>3 DEF Closing
<1>5. ServerStep(n, c)
  BY <1>0, <1>1, <1>3, <1>4 DEF ServerStep, ConnectionTypeOK
<1>6. ConnectionTypeOK'
  BY <1>0, <1>1, <1>3, <1>4 DEF ConnectionTypeOK, Ends, Statuses
<1>7. Session(c)'
  <2>1. /\ pc'[c] = pc[c] /\ lastSent'[c] = lastSent[c] /\ masterEnd'[c] = masterEnd[c]
        /\ ctl'[c[1]] = ctl[c[1]] /\ toMaster'[c] = q /\ fate'[c] = f
    BY <1>0, <1>1, <1>3, <1>4 DEF ConnectionTypeOK
  <2>2. ~Queued(c)' /\ ~Served(c)'
    BY <1>0, <1>1 DEF Queued, Served, ConnectionTypeOK
  <2>3. MasterEnds(c)'
    BY <1>0, <2>1, <2>2 DEF Session, MasterEnds
  <2>4. Answers(c)'
    <3>1. CASE q = toMaster[c]
      BY <1>0, <1>3, <2>1, <3>1 DEF Session, Answers
    <3>2. CASE q = <<"COMMIT_UNSUCCESS">> /\ Asked(c) /\ masterEnd[c] = "open"
      BY <1>0, <2>1, <3>2 DEF Session, MasterEnds, Answers, Asked
    <3> QED BY <1>4, <3>1, <3>2
  <2>5. pc'[c] = "gotSuccess" \/ Committed(c)' => fate'[c] # "none"
    BY <1>0, <1>3, <2>1 DEF Session, Committed
  <2> QED BY <2>2, <2>3, <2>4, <2>5 DEF Session
<1> QED BY <1>5, <1>6, <1>7, ServerStepKeepsInvariant

\* The steps that give a connection up.
LEMMA ClosingSteps ==
    ASSUME IInv, CInv, NEW n \in Nodes, UNCHANGED masterVars,
           \/ ReceiveAbort(n) \/ RefuseCommit(n) \/ ReceiveNoop(n) \/ ReceiveUndo(n)
           \/ LoseMaster(n) \/ MasterError(n)
    PROVE  CInv'
<1> DEFINE c == conn[n]
<1>0. status[n] # "accept"
  BY DEF ReceiveAbort, RefuseCommit, ReceiveNoop, ReceiveUndo, LoseMaster, MasterError, Awaiting
<1>1. c \in Threads /\ Serving(c, status[n])
  BY <1>0, ServedConnection
<1>2. Closing(n, c)
  <2>1. CASE RefuseCommit(n)
    <3>1. toPeer[c] # <<>> /\ Head(toPeer[c]) = "COMMIT" /\ Acknowledged(c)
      BY <1>1, <2>1 DEF RefuseCommit, PeerGets, Serving
    <3>2. lastSent[c] = "COMMIT"
      BY <3>1, OneMessage DEF Acknowledged, Unread
    <3> QED BY <2>1, <3>1, <3>2 DEF RefuseCommit, Closing, Acknowledged
  <2>2. CASE \/ ReceiveAbort(n) \/ ReceiveNoop(n) \/ ReceiveUndo(n)
             \/ LoseMaster(n) \/ MasterError(n)
    BY <2>2 DEF ReceiveAbort, ReceiveNoop, ReceiveUndo, LoseMaster, MasterError,
                UndoAndRelease, Closing
  <2> QED BY <2>1, <2>2
<1> QED BY <1>0, <1>2, ClosingKeepsInvariant
\* READY answers PRECOMMIT.
LEMMA ReceivePrecommitKeepsInvariant ==
    ASSUME IInv, CInv, NEW n \in Nodes, ReceivePrecommit(n), UNCHANGED masterVars
    PROVE  CInv'
<1> DEFINE c == conn[n]
           q == IF masterEnd[c] = "open" THEN <<"READY">> ELSE <<>>
<1>0. /\ c \in Threads /\ c[2] = n /\ ~Queued(c) /\ Session(c) /\ Positions!(c)
      /\ ConnectionTypeOK /\ masterEnd[c] # "none" /\ Waiting(c)
  BY ServedConnection DEF CInv, ReceivePrecommit, Serving
<1>1. /\ status[n] = "IDLE" /\ toPeer[c] # <<>>
      /\ toPeer' = [toPeer EXCEPT ![c] = Tail(toPeer[c])]
      /\ status' = [status EXCEPT ![n] = "PRECOMMIT_ACKNOWLEDGED"]
      /\ UNCHANGED <<conn, backlog, masterEnd, peerEnd, fate, pc, lastSent, ctl>>
      /\ SendToMaster(c, "READY")
  BY DEF ReceivePrecommit, PeerGets, masterVars
<1>2. toPeer[c] = <<"PRECOMMIT">> /\ lastSent[c] = "PRECOMMIT" /\ Tail(toPeer[c]) = <<>>
  BY <1>0, <1>1, OneMessage DEF Waiting, Unread
<1>3. toMaster' = [toMaster EXCEPT ![c] = q]
  <2>1. toMaster = [toMaster EXCEPT ![c] = <<>>] /\ toMaster[c] = <<>>
    BY <1>0 DEF ConnectionTypeOK, Waiting
  <2> QED BY <1>1, <2>1, OneMessage DEF SendToMaster
<1>4. fate = [fate EXCEPT ![c] = fate[c]]
  BY <1>0 DEF ConnectionTypeOK
<1>5. ServerStep(n, c)
  BY <1>0, <1>1, <1>3, <1>4 DEF ServerStep, ConnectionTypeOK
<1>6. ConnectionTypeOK'
  <2>1. <<>> \in Seq(PeerMessages) /\ <<"READY">> \in Seq(PeerMessages)
    BY DEF PeerMessages
  <2>2. q \in Seq(PeerMessages) /\ <<>> \in Seq(MasterMessages)
    BY <2>1
  <2> HIDE DEF q
  <2> QED BY <1>0, <1>1, <1>2, <1>3, <2>2 DEF ConnectionTypeOK, Statuses
<1>7. ASSUME NEW d, d = c PROVE Session(d)'
  <2>1. /\ pc'[d] = pc[d] /\ lastSent'[d] = "PRECOMMIT" /\ masterEnd'[d] = masterEnd[d]
        /\ ctl'[d[1]] = ctl[d[1]] /\ toMaster'[d] = q /\ fate'[d] = "none"
        /\ toPeer'[d] = <<>> /\ status'[d[2]] = "PRECOMMIT_ACKNOWLEDGED"
    BY <1>0, <1>1, <1>2, <1>3, <1>7 DEF ConnectionTypeOK, Waiting
  <2>2. ~Queued(d)'
    BY <1>0, <1>1, <1>7 DEF Queued
  <2>3. MasterEnds(d)'
    BY <1>0, <1>7, <2>1, <2>2 DEF Session, MasterEnds
  <2>4. Serving(d, status[d[2]])'
    BY <2>1 DEF Serving, Acknowledged, Unread
  <2>5. Answers(d)'
    BY <1>0, <1>2, <1>7, <2>1 DEF Answers, Session, MasterEnds, Waiting, Early
  <2>6. ~(pc'[d] = "gotSuccess" \/ Committed(d)')
    BY <1>0, <1>7, <2>1 DEF Waiting, Early, Committed
  <2> QED BY <2>2, <2>3, <2>4, <2>5, <2>6 DEF Session
<1> QED BY <1>1, <1>5, <1>6, <1>7, ServerStepKeepsInvariant

\* COMMIT is read, and the operation performed, while the thread waits for an answer.
LEMMA CommitKeepsInvariant ==
    ASSUME IInv, CInv, NEW n \in Nodes, ReceiveCommit(n) \/ PerformCommit(n),
           UNCHANGED masterVars
    PROVE  CInv'
<1> DEFINE c == conn[n]
<1>0. /\ c \in Threads /\ c[2] = n /\ ~Queued(c) /\ Session(c) /\ ConnectionTypeOK
      /\ masterEnd[c] # "none" /\ Serving(c, status[n]) /\ status[n] # "accept"
  BY ServedConnection DEF CInv, ReceiveCommit, PerformCommit
<1>1. Asked(c) /\ toMaster[c] = <<>> /\ fate[c] = "none"
  <2>1. CASE ReceiveCommit(n)
    <3>1. Acknowledged(c) /\ toPeer[c] # <<>> /\ Head(toPeer[c]) = "COMMIT"
      BY <1>0, <2>1 DEF ReceiveCommit, PeerGets, Serving
    <3> QED BY <3>1, OneMessage DEF Acknowledged, Unread
  <2>2. CASE PerformCommit(n)
    BY <1>0, <2>2 DEF PerformCommit, Serving, Working
  <2> QED BY <2>1, <2>2
<1>2. toPeer' = [toPeer EXCEPT ![c] = <<>>]
  <2>1. CASE ReceiveCommit(n)
    <3>1. Acknowledged(c) /\ toPeer[c] # <<>>
      BY <1>0, <2>1 DEF ReceiveCommit, PeerGets, Serving
    <3>2. Tail(toPeer[c]) = <<>>
      BY <3>1, OneMessage DEF Acknowledged, Unread
    <3> QED BY <2>1, <3>2 DEF ReceiveCommit
  <2>2. CASE PerformCommit(n)
    <3>1. toPeer[c] = <<>> /\ toPeer' = toPeer
      BY <1>0, <2>2 DEF PerformCommit, Serving, Working, sockVars
    <3> QED BY <1>0, <3>1 DEF ConnectionTypeOK
  <2> QED BY <2>1, <2>2
<1>3. PICK s, f : /\ \/ s = "committing" /\ f = "none"
                     \/ s = "performed" /\ f = "applied"
                  /\ status' = [status EXCEPT ![n] = s] /\ fate' = [fate EXCEPT ![c] = f]
  <2>1. CASE ReceiveCommit(n)
    <3>1. fate' = [fate EXCEPT ![c] = "none"]
      BY <1>0, <1>1, <2>1 DEF ReceiveCommit, ConnectionTypeOK
    <3> QED BY <2>1, <3>1 DEF ReceiveCommit
  <2>2. CASE PerformCommit(n)
    BY <2>2 DEF PerformCommit
  <2> QED BY <2>1, <2>2
<1>4. UNCHANGED <<conn, backlog, masterEnd, peerEnd, toMaster, pc, lastSent, ctl>>
  BY DEF ReceiveCommit, PerformCommit, sockVars, masterVars
<1>5. ServerStep(n, c)
  <2>1. toMaster' = [toMaster EXCEPT ![c] = <<>>]
    BY <1>0, <1>1, <1>4 DEF ConnectionTypeOK
  <2> QED BY <1>0, <1>2, <1>3, <1>4, <2>1 DEF ServerStep, ConnectionTypeOK
<1>6. ConnectionTypeOK'
  BY <1>0, <1>2, <1>3, <1>4 DEF ConnectionTypeOK, Statuses, Fates
<1>7. ASSUME NEW d, d = c PROVE Session(d)'
  <2>1. /\ pc'[d] = pc[d] /\ lastSent'[d] = lastSent[d] /\ masterEnd'[d] = masterEnd[d]
        /\ ctl'[d[1]] = ctl[d[1]] /\ toMaster'[d] = <<>> /\ fate'[d] = f
        /\ toPeer'[d] = <<>> /\ status'[d[2]] = s
    BY <1>0, <1>1, <1>2, <1>3, <1>4, <1>7 DEF ConnectionTypeOK
  <2>2. ~Queued(d)'
    BY <1>0, <1>4, <1>7 DEF Queued
  <2>3. MasterEnds(d)'
    BY <1>0, <1>7, <2>1, <2>2 DEF Session, MasterEnds
  <2>4. Serving(d, status[d[2]])'
    BY <1>1, <1>3, <1>7, <2>1 DEF Serving, Working, Asked
  <2>5. Answers(d)'
    BY <2>1 DEF Answers
  <2>6. ~(pc'[d] = "gotSuccess" \/ Committed(d)')
    BY <1>1, <1>7, <2>1 DEF Asked, Committed
  <2> QED BY <2>2, <2>3, <2>4, <2>5, <2>6 DEF Session
<1> QED BY <1>0, <1>5, <1>6, <1>7, ServerStepKeepsInvariant

\* COMMIT_SUCCESS is sent after the operation.
LEMMA AcknowledgeCommitKeepsInvariant ==
    ASSUME IInv, CInv, NEW n \in Nodes, AcknowledgeCommit(n), UNCHANGED masterVars
    PROVE  CInv'
<1> DEFINE c == conn[n]
           q == IF masterEnd[c] = "open" THEN <<"COMMIT_SUCCESS">> ELSE <<>>
<1>0. /\ c \in Threads /\ c[2] = n /\ ~Queued(c) /\ Session(c)
      /\ ConnectionTypeOK /\ masterEnd[c] # "none" /\ Working(c) /\ fate[c] = "applied"
  BY ServedConnection DEF CInv, AcknowledgeCommit, Serving
<1>1. /\ status[n] = "performed"
      /\ status' = [status EXCEPT ![n] = "AWAITING_SUCCESS_OR_UNDO_BROADCAST"]
      /\ UNCHANGED <<conn, backlog, toPeer, masterEnd, peerEnd, fate, pc, lastSent, ctl>>
      /\ SendToMaster(c, "COMMIT_SUCCESS")
  BY DEF AcknowledgeCommit, masterVars
<1>3. toMaster' = [toMaster EXCEPT ![c] = q]
  <2>1. toMaster = [toMaster EXCEPT ![c] = <<>>] /\ toMaster[c] = <<>>
    BY <1>0 DEF ConnectionTypeOK, Working
  <2> QED BY <1>1, <2>1, OneMessage DEF SendToMaster
<1>4. fate = [fate EXCEPT ![c] = fate[c]] /\ toPeer = [toPeer EXCEPT ![c] = toPeer[c]]
  BY <1>0 DEF ConnectionTypeOK
<1>5. ServerStep(n, c)
  BY <1>0, <1>1, <1>3, <1>4 DEF ServerStep, ConnectionTypeOK
<1>6. ConnectionTypeOK'
  <2>1. <<>> \in Seq(PeerMessages) /\ <<"COMMIT_SUCCESS">> \in Seq(PeerMessages)
    BY DEF PeerMessages
  <2>2. q \in Seq(PeerMessages)
    BY <2>1
  <2> HIDE DEF q
  <2> QED BY <1>0, <1>1, <1>3, <2>2 DEF ConnectionTypeOK, Statuses
<1>7. ASSUME NEW d, d = c PROVE Session(d)'
  <2>1. /\ pc'[d] = pc[d] /\ lastSent'[d] = lastSent[d] /\ masterEnd'[d] = masterEnd[d]
        /\ ctl'[d[1]] = ctl[d[1]] /\ toMaster'[d] = q /\ fate'[d] = "applied"
        /\ toPeer'[d] = <<>> /\ status'[d[2]] = "AWAITING_SUCCESS_OR_UNDO_BROADCAST"
    BY <1>0, <1>1, <1>3, <1>7 DEF ConnectionTypeOK, Working
  <2>2. ~Queued(d)'
    BY <1>0, <1>1, <1>7 DEF Queued
  <2>3. MasterEnds(d)'
    BY <1>0, <1>7, <2>1, <2>2 DEF Session, MasterEnds
  <2>4. Serving(d, status[d[2]])'
    BY <1>0, <1>7, <2>1 DEF Serving, Working, Asked, Performed, Unread, AfterCommit
  <2>5. Answers(d)'
    BY <1>0, <1>7, <2>1 DEF Answers, Session, MasterEnds, Working, Asked
  <2> QED BY <2>1, <2>2, <2>3, <2>4, <2>5 DEF Session
<1> QED BY <1>1, <1>5, <1>6, <1>7, ServerStepKeepsInvariant

\* A connection taken from the head of a queue.
LEMMA Dequeued ==
    ASSUME NEW S, NEW q \in Seq(S), q # <<>>
    PROVE  /\ Head(q) \in S /\ Tail(q) \in Seq(S) /\ Member(q, Head(q))
           /\ \A x : Member(q, x) <=> Member(Tail(q), x) \/ x = Head(q)
           /\ Distinct(q) => Distinct(Tail(q)) /\ ~Member(Tail(q), Head(q))
<1> DEFINE r == Tail(q)
<1>1. /\ r \in Seq(S) /\ DOMAIN q = 1 .. Len(q) /\ Len(q) \in Nat /\ Len(q) > 0
      /\ DOMAIN r = 1 .. Len(q) - 1
      /\ \A i \in 1 .. Len(q) - 1 : r[i] = q[i + 1]
      /\ Head(q) = q[1] /\ q[1] \in S
  OBVIOUS
<1> HIDE DEF r
<1>2. ASSUME NEW x PROVE Member(q, x) <=> Member(r, x) \/ x = q[1]
  <2>1. ASSUME NEW i \in DOMAIN q, q[i] = x, i # 1 PROVE Member(r, x)
    <3>1. i - 1 \in DOMAIN r /\ r[i - 1] = x
      BY <1>1, <2>1
    <3> QED BY <3>1 DEF Member
  <2>2. ASSUME NEW i \in DOMAIN r, r[i] = x PROVE Member(q, x)
    <3>1. i + 1 \in DOMAIN q /\ q[i + 1] = x
      BY <1>1, <2>2
    <3> QED BY <3>1 DEF Member
  <2> QED BY <1>1, <2>1, <2>2 DEF Member
<1>3. ASSUME Distinct(q) PROVE Distinct(r) /\ ~Member(r, q[1])
  <2>1. ASSUME NEW i \in DOMAIN r, NEW j \in DOMAIN r, r[i] = r[j] PROVE i = j
    <3>1. i + 1 \in DOMAIN q /\ j + 1 \in DOMAIN q /\ q[i + 1] = q[j + 1]
      BY <1>1, <2>1
    <3>2. i + 1 = j + 1
      BY <1>3, <3>1 DEF Distinct
    <3> QED BY <1>1, <3>2
  <2>2. ASSUME NEW i \in DOMAIN r, r[i] = q[1] PROVE FALSE
    <3>1. i + 1 \in DOMAIN q /\ 1 \in DOMAIN q /\ q[i + 1] = q[1]
      BY <1>1, <2>2
    <3>2. i + 1 = 1
      BY <1>3, <3>1 DEF Distinct
    <3> QED BY <1>1, <3>2
  <2> QED BY <2>1, <2>2 DEF Distinct, Member
<1> QED BY <1>1, <1>2, <1>3 DEF r

\* The connection that has waited longest is accepted.
LEMMA AcceptMasterKeepsInvariant ==
    ASSUME IInv, CInv, NEW n \in Nodes, AcceptMaster(n), UNCHANGED masterVars
    PROVE  CInv'
<1> DEFINE c == Head(backlog[n])
           r == Tail(backlog[n])
<1>0. ConnectionTypeOK /\ Places(n) /\ backlog[n] \in Seq(Threads)
  BY DEF CInv, ConnectionTypeOK
<1>1. /\ status[n] = "accept" /\ backlog[n] # <<>>
      /\ conn' = [conn EXCEPT ![n] = c]
      /\ backlog' = [backlog EXCEPT ![n] = r]
      /\ status' = [status EXCEPT ![n] = "IDLE"]
      /\ UNCHANGED <<fate, toPeer, toMaster, masterEnd, peerEnd, pc, lastSent, ctl>>
  BY DEF AcceptMaster, masterVars
<1>2. /\ c \in Threads /\ r \in Seq(Threads) /\ Member(backlog[n], c)
      /\ \A x : Member(backlog[n], x) <=> Member(r, x) \/ x = c
      /\ Distinct(r) /\ ~Member(r, c)
  BY <1>0, <1>1, Dequeued DEF Places
<1> HIDE DEF c, r
<1>3. /\ conn'[n] = c /\ backlog'[n] = r /\ status'[n] = "IDLE"
      /\ \A m \in Nodes : m # n => /\ conn'[m] = conn[m] /\ backlog'[m] = backlog[m]
                                   /\ status'[m] = status[m]
  BY <1>0, <1>1 DEF ConnectionTypeOK
<1>4. c[2] = n /\ c # NoThread /\ Queued(c) /\ conn[n] = NoThread
  BY <1>0, <1>1, <1>2, ThreadParts DEF Places, Queued
<1>5. ConnectionTypeOK'
  BY <1>0, <1>1, <1>2 DEF ConnectionTypeOK, Statuses
<1>6. ASSUME NEW m \in Nodes PROVE Places(m)'
  <2>1. CASE m # n
    <3>1. Places(m) /\ conn[m] \in Threads \cup {NoThread}
      BY <1>0 DEF CInv, ConnectionTypeOK
    <3> QED BY <1>3, <2>1, <3>1, SamePlaces
  <2>2. CASE m = n
    <3>1. conn'[n][2] = n /\ ~Queued(conn[n])'
      BY <1>2, <1>3, <1>4 DEF Queued
    <3>2. Distinct(backlog'[n]) /\ \A x : Member(backlog'[n], x) => x[2] = n
      BY <1>0, <1>2, <1>3 DEF Places
    <3> QED BY <1>3, <1>4, <2>2, <3>1, <3>2 DEF Places
  <2> QED BY <2>1, <2>2
<1>7. ASSUME NEW x \in Threads, x # c PROVE Session(x)'
  <2>1. Queued(x)' <=> Queued(x)
    BY <1>2, <1>3, <1>7, ThreadParts DEF Queued
  <2>2. (Served(x)' <=> Served(x)) /\ (Served(x) => status'[x[2]] = status[x[2]])
    BY <1>3, <1>4, <1>7, ThreadParts DEF Served
  <2>3. Same(x)
    BY <1>1, <2>1, <2>2 DEF Same
  <2> QED BY <2>3, SameSession DEF CInv
<1>8. ASSUME NEW d \in Threads, d = c PROVE Session(d)'
  <2>0. Session(d) /\ Waiting(d)
    BY <1>4, <1>8 DEF CInv, Session
  <2>1. ~Queued(d)'
    BY <1>2, <1>3, <1>4, <1>8 DEF Queued
  <2>2. Waiting(d)' /\ Answers(d)'
    BY <1>1, <2>0 DEF Waiting, Early, Unread, Session, Answers
  <2>3. Serving(d, status[d[2]])'
    BY <1>3, <1>4, <1>8, <2>2 DEF Serving
  <2>4. MasterEnds(d)'
    BY <1>1, <1>4, <1>8, <2>0 DEF Session, MasterEnds
  <2> QED BY <1>1, <2>0, <2>1, <2>2, <2>3, <2>4 DEF Session, Committed
<1> QED BY <1>5, <1>6, <1>7, <1>8 DEF CInv

\* Every step of a synchronization server keeps the connections in order.
LEMMA SyncStepKeepsConnections ==
    ASSUME IInv, CInv, NEW n \in Nodes, SyncStep(n), UNCHANGED masterVars
    PROVE  CInv'
BY ClosingSteps, ReceivePrecommitKeepsInvariant, CommitKeepsInvariant,
   AcknowledgeCommitKeepsInvariant, AcceptMasterKeepsInvariant DEF SyncStep
-----------------------------------------------------------------------------
(* Ends of processes, and steps of the controllers.                        *)

\* The connection of x loses an end, or what is under way on it, or nothing.
Fades(x) ==
    /\ pc'[x] = pc[x] /\ lastSent'[x] = lastSent[x] /\ fate'[x] = fate[x]
    /\ toPeer'[x] = toPeer[x] \/ toPeer'[x] = <<>>
    /\ toMaster'[x] = toMaster[x] \/ toMaster'[x] = <<>>
    /\ masterEnd'[x] = "none" <=> masterEnd[x] = "none"
    /\ masterEnd'[x] = "open" => masterEnd[x] = "open"
    /\ masterEnd'[x] = "reset" => ctl'[x[1]] = "crashed"
    /\ Queued(x)' => Queued(x)
    /\ Served(x)' => Served(x) /\ status'[x[2]] = status[x[2]]
    /\ ctl'[x[1]] = ctl[x[1]] \/ ctl'[x[1]] = "crashed"

\* What is known of it stays true: nobody expected more.
LEMMA FadingSession ==
    ASSUME NEW x, Session(x), Fades(x)
    PROVE  Session(x)'
<1> USE DEF Fades
<1>1. MasterEnds(x)'
  BY DEF Session, MasterEnds
<1>2. Waiting(x) => Waiting(x)'
  BY DEF Waiting, Early, Unread
<1>3. Asked(x)' <=> Asked(x)
  BY DEF Asked
<1>4. Served(x)' => Serving(x, status[x[2]])'
  <2>1. ASSUME NEW s, Serving(x, s) PROVE Serving(x, s)'
    BY <1>2, <1>3, <2>1 DEF Serving, Acknowledged, Working, Performed, Unread
  <2> QED BY <2>1 DEF Session
<1>5. Answers(x)'
  BY DEF Session, Answers
<1> QED BY <1>1, <1>2, <1>4, <1>5 DEF Session, Committed

\* The end of a process, on either side of a connection or on both.
LEMMA ProcessEndsKeepsConnections ==
    ASSUME IInv, CInv, NEW n \in Nodes, NEW how, ProcessEnds(n, how)
    PROVE  CInv'
<1>0. ConnectionTypeOK /\ ctl \in [Txns -> Ctls]
  BY DEF CInv, IInv, MasterTypeOK
<1>1. /\ conn' = [conn EXCEPT ![n] = NoThread] /\ status' = [status EXCEPT ![n] = "accept"]
      /\ backlog' = [backlog EXCEPT ![n] = <<>>] /\ UNCHANGED <<pc, lastSent, fate>>
  BY DEF ProcessEnds
<1>2. /\ conn'[n] = NoThread /\ backlog'[n] = <<>> /\ status'[n] = "accept"
      /\ \A m \in Nodes : m # n => /\ conn'[m] = conn[m] /\ backlog'[m] = backlog[m]
                                   /\ status'[m] = status[m]
  BY <1>0, <1>1 DEF ConnectionTypeOK
<1>3. ASSUME NEW x \in Threads
      PROVE  /\ toPeer'[x] = IF x[2] = n THEN <<>> ELSE toPeer[x]
             /\ toMaster'[x] = IF Home[x[1]] = n THEN <<>> ELSE toMaster[x]
             /\ \/ masterEnd'[x] = masterEnd[x]
                \/ /\ Home[x[1]] = n /\ masterEnd[x] = "open"
                   /\ masterEnd'[x] \in {"closed", "reset"}
             /\ peerEnd'[x] \in {peerEnd[x], "closed", "reset"}
  BY <1>3 DEF ProcessEnds, EndOf
<1>4. ASSUME NEW t \in Txns
      PROVE  ctl'[t] = IF t \in Busy(n) THEN "crashed" ELSE ctl[t]
  BY <1>4 DEF ProcessEnds
<1>5. ConnectionTypeOK'
  <2>1. toPeer' \in [Threads -> Seq(MasterMessages)] /\ toMaster' \in [Threads -> Seq(PeerMessages)]
    <3>1. /\ \A x \in Threads : toPeer'[x] \in Seq(MasterMessages)
          /\ \A x \in Threads : toMaster'[x] \in Seq(PeerMessages)
      <4>1. <<>> \in Seq(MasterMessages) /\ <<>> \in Seq(PeerMessages)
        OBVIOUS
      <4> QED BY <1>0, <1>3, <4>1 DEF ConnectionTypeOK
    <3>2. /\ toPeer' = [x \in Threads |-> toPeer'[x]]
          /\ toMaster' = [x \in Threads |-> toMaster'[x]]
      BY DEF ProcessEnds
    <3> QED BY <3>1, <3>2
  <2>2. masterEnd' \in [Threads -> Ends] /\ peerEnd' \in [Threads -> Ends]
    <3>1. \A x \in Threads : masterEnd'[x] \in Ends /\ peerEnd'[x] \in Ends
      BY <1>0, <1>3 DEF ConnectionTypeOK, Ends
    <3>2. /\ masterEnd' = [x \in Threads |-> masterEnd'[x]]
          /\ peerEnd' = [x \in Threads |-> peerEnd'[x]]
      BY DEF ProcessEnds
    <3> QED BY <3>1, <3>2
  <2>3. <<>> \in Seq(Threads)
    OBVIOUS
  <2> QED BY <1>0, <1>1, <2>1, <2>2, <2>3 DEF ConnectionTypeOK, Statuses
<1>6. ASSUME NEW m \in Nodes PROVE Places(m)'
  <2>1. CASE m # n
    <3>1. Places(m) /\ conn[m] \in Threads \cup {NoThread}
      BY <1>0 DEF CInv, ConnectionTypeOK
    <3> QED BY <1>2, <2>1, <3>1, SamePlaces
  <2>2. CASE m = n
    <3>1. Distinct(<<>>) /\ \A x : ~Member(<<>>, x)
      BY DEF Distinct, Member
    <3> QED BY <1>2, <2>2, <3>1 DEF Places
  <2> QED BY <2>1, <2>2
<1>7. ASSUME NEW x \in Threads PROVE Session(x)'
  <2>0. x[1] \in Txns /\ x[2] \in Nodes /\ x # NoThread /\ Session(x) /\ ctl[x[1]] \in Ctls
    BY <1>0, ThreadParts DEF CInv
  <2>1. Queued(x)' => Queued(x) /\ x[2] # n
    BY <1>2, <2>0 DEF Queued, Member
  <2>2. Served(x)' => Served(x) /\ status'[x[2]] = status[x[2]]
    BY <1>2, <2>0 DEF Served
  <2>3. ctl'[x[1]] = ctl[x[1]] \/ ctl'[x[1]] = "crashed"
    BY <1>4, <2>0
  <2>4. ctl[x[1]] = "crashed" => ctl'[x[1]] = "crashed"
    BY <1>4, <2>0
  <2>5. Home[x[1]] = n /\ masterEnd[x] = "open" => ctl'[x[1]] = "crashed"
    <3> SUFFICES ASSUME Home[x[1]] = n, masterEnd[x] = "open" PROVE ctl'[x[1]] = "crashed"
      OBVIOUS
    <3>1. ctl[x[1]] \in {"joining", "crashed"}
      BY <2>0 DEF Session, MasterEnds, Ctls
    <3> QED BY <1>4, <2>0, <3>1 DEF Busy
  <2>6. masterEnd'[x] = "reset" => ctl'[x[1]] = "crashed"
    BY <1>3, <2>0, <2>4, <2>5 DEF Session, MasterEnds
  <2>7. Fades(x)
    BY <1>1, <1>3, <2>1, <2>2, <2>3, <2>6 DEF Fades
  <2> QED BY <2>0, <2>7, FadingSession
<1> QED BY <1>5, <1>6, <1>7 DEF CInv

\* Steps that touch neither threads nor connections.
Aside ==
    /\ UNCHANGED <<pc, lastSent, fate, status, conn, sockVars>>
    /\ \A t \in Txns :
         \/ ctl'[t] = ctl[t]
         \/ ctl[t] # "crashed" /\ \A x \in ThreadsOf(t) : pc[x] \in {"none", "done"}

\* They keep the connections in order.
LEMMA AsideKeepsConnections ==
    ASSUME IInv, CInv, Aside
    PROVE  CInv'
<1> USE DEF sockVars
<1>1. ConnectionTypeOK'
  BY DEF CInv, ConnectionTypeOK, Aside
<1>2. ASSUME NEW n \in Nodes PROVE Places(n)'
  BY SamePlaces DEF Aside, CInv, ConnectionTypeOK
<1>3. ASSUME NEW x \in Threads PROVE Session(x)'
  <2>1. Queued(x)' = Queued(x) /\ Served(x)' = Served(x)
    BY DEF Aside, Queued, Served
  <2>2. Same(x)
    BY <2>1, ThreadFacts DEF Aside, Same
  <2> QED BY <2>2, SameSession DEF CInv
<1> QED BY <1>1, <1>2, <1>3 DEF CInv

\* The threads of a request start without a connection.
LEMMA StartKeepsConnections ==
    ASSUME IInv, CInv, NEW t \in Txns, StartSynchronization(t), UNCHANGED slaveVars
    PROVE  CInv'
<1>0. /\ ctl[t] = "idle" /\ ctl' = [ctl EXCEPT ![t] = "joining"]
      /\ pc' = [x \in Threads |-> IF x[1] = t THEN "created" ELSE pc[x]]
      /\ UNCHANGED <<lastSent, sockVars, status, conn, fate>>
      /\ ctl \in [Txns -> Ctls] /\ ConnectionTypeOK
  BY DEF StartSynchronization, Arrives, slaveVars, IInv, MasterTypeOK, CInv
<1>1. ConnectionTypeOK'
  BY <1>0 DEF ConnectionTypeOK, sockVars
<1>2. ASSUME NEW n \in Nodes PROVE Places(n)'
  BY <1>0, SamePlaces DEF sockVars, CInv, ConnectionTypeOK
<1>3. ASSUME NEW x \in Threads PROVE Session(x)'
  <2>0. Queued(x)' = Queued(x) /\ Served(x)' = Served(x) /\ Session(x) /\ x[1] \in Txns
    BY <1>0, ThreadParts DEF Queued, Served, sockVars, CInv
  <2>1. CASE x[1] # t
    <3>1. Same(x)
      BY <1>0, <2>0, <2>1 DEF Same, sockVars
    <3> QED BY <2>0, <3>1, SameSession
  <2>2. CASE x[1] = t
    <3>1. pc[x] = "none" /\ lastSent[x] = "none"
      BY <1>0, <2>2 DEF IInv, Positions
    <3>2. masterEnd[x] = "none"
      BY <2>0, <3>1 DEF Session, MasterEnds
    <3>3. /\ ~Queued(x) /\ ~Served(x) /\ toPeer[x] = <<>> /\ toMaster[x] = <<>>
          /\ fate[x] = "none"
      BY <2>0, <3>2 DEF Session, MasterEnds
    <3>4. /\ pc'[x] = "created" /\ lastSent'[x] = "none" /\ masterEnd'[x] = "none"
          /\ toPeer'[x] = <<>> /\ toMaster'[x] = <<>> /\ fate'[x] = "none"
          /\ ctl'[x[1]] = "joining"
      BY <1>0, <2>0, <2>2, <3>1, <3>2, <3>3 DEF sockVars
    <3> QED BY <2>0, <3>3, <3>4 DEF Session, MasterEnds, Answers, Committed
  <2> QED BY <2>1, <2>2
<1> QED BY <1>1, <1>2, <1>3 DEF CInv

\* Every step of the system.
LEMMA NextKeepsConnections == IInv /\ CInv /\ [Next]_vars => CInv'
<1> SUFFICES ASSUME IInv, CInv, [Next]_vars PROVE CInv'
  OBVIOUS
<1>0. ctl \in [Txns -> Ctls] /\ (\A t \in Txns : Home[t] \in Nodes)
  BY BoardAssumption DEF IInv, MasterTypeOK
<1>1. ASSUME NEW t \in Txns, Request(t) PROVE CInv'
  <2>1. CASE StartSynchronization(t)
    BY <1>1, <2>1, StartKeepsConnections DEF Request
  <2>2. CASE Reject(t) \/ StartLocal(t) \/ LocalFails(t)
    <3>1. \A x \in ThreadsOf(t) : pc[x] = "none"
      BY <2>2, ThreadFacts DEF Reject, StartLocal, LocalFails, Arrives, IInv, Positions
    <3>2. Aside
      BY <1>0, <1>1, <2>2, <3>1
      DEF Request, slaveVars, Reject, StartLocal, LocalFails, Arrives, Aside
    <3> QED BY <3>2, AsideKeepsConnections
  <2> QED BY <1>1, <2>1, <2>2 DEF Request
<1>2. ASSUME NEW t \in Txns, Controller(t) PROVE CInv'
  <2>1. CASE ControllerStep(t) /\ UNCHANGED slaveVars
    <3>1. \A x \in ThreadsOf(t) : ctl[t] = "local" => pc[x] \in {"none", "done"}
      BY ThreadFacts DEF CInv, Session, MasterEnds
    <3>2. Aside
      BY <1>0, <2>1, <3>1 DEF slaveVars, ControllerStep, JoinThreads, LocalPerforms, Aside
    <3> QED BY <3>2, AsideKeepsConnections
  <2>2. CASE LocalAsserts(t)
    BY <1>0, <2>2, ProcessEndsKeepsConnections DEF LocalAsserts
  <2> QED BY <1>2, <2>1, <2>2 DEF Controller
<1>3. ASSUME NEW th \in Threads, PeerThread(th) PROVE CInv'
  <2>1. CASE MasterAsserts(th)
    BY <1>0, <2>1, ThreadFacts, ProcessEndsKeepsConnections DEF MasterAsserts
  <2> QED BY <1>3, <2>1, ThreadStepKeepsConnections DEF PeerThread
<1>4. ASSUME NEW th \in Threads, SpuriousWakeup(th), UNCHANGED slaveVars PROVE CInv'
  <2>1. Aside
    BY <1>4 DEF SpuriousWakeup, slaveVars, Aside
  <2> QED BY <2>1, AsideKeepsConnections
<1>5. ASSUME NEW n \in Nodes, SyncThread(n) PROVE CInv'
  BY <1>5, SyncStepKeepsConnections, ProcessEndsKeepsConnections DEF SyncThread, PeerAsserts
<1>6. ASSUME NEW n \in Nodes, Kill(n) \/ KillInRewriting(n) PROVE CInv'
  BY <1>6, ProcessEndsKeepsConnections DEF Kill, KillInRewriting
<1>7. ASSUME NEW n \in Nodes, Restart(n) PROVE CInv'
  <2>1. Aside
    BY <1>7 DEF Restart, masterVars, slaveVars, Aside
  <2> QED BY <2>1, AsideKeepsConnections
<1>8. CASE UNCHANGED vars
  <2>1. Aside
    BY <1>8 DEF vars, masterVars, slaveVars, Aside
  <2> QED BY <2>1, AsideKeepsConnections
<1> QED BY <1>1, <1>2, <1>3, <1>4, <1>5, <1>6, <1>7, <1>8 DEF Next, Rest

\* At the start there are no connections.
LEMMA InitConnections == Init => CInv
<1> SUFFICES ASSUME Init PROVE CInv
  OBVIOUS
<1>1. ConnectionTypeOK
  BY DEF Init, SocketsInit, SlaveInit, ConnectionTypeOK, Ends, Statuses, Fates
<1>2. Distinct(<<>>) /\ \A x : ~Member(<<>>, x)
  BY DEF Distinct, Member
<1>3. \A n \in Nodes : backlog[n] = <<>> /\ conn[n] = NoThread /\ status[n] = "accept"
  BY DEF Init, SocketsInit, SlaveInit
<1>4. \A n \in Nodes : Places(n)
  BY <1>2, <1>3 DEF Places
<1>5. ASSUME NEW x \in Threads PROVE Session(x)
  <2>1. /\ x[1] \in Txns /\ ~Queued(x) /\ ~Served(x)
    BY <1>2, <1>3, ThreadParts DEF Queued, Served
  <2>2. /\ pc[x] = "none" /\ lastSent[x] = "none" /\ masterEnd[x] = "none"
        /\ toPeer[x] = <<>> /\ toMaster[x] = <<>> /\ fate[x] = "none"
    BY DEF Init, SocketsInit, MasterInit, SlaveInit
  <2> QED BY <2>1, <2>2 DEF Session, MasterEnds, Answers, Committed
<1> QED BY <1>1, <1>4, <1>5 DEF CInv

\* CInv holds in every reachable state.
THEOREM ConnectionInvariant == Spec => []CInv
BY InitConnections, NextKeepsConnections, Invariance, PTL DEF Spec

-----------------------------------------------------------------------------
(* The theorems.                                                           *)

\* The two automata of the protocol follow each other, crashes included: whatever
\* arrives at either end is a message its receiver handles in its current status, so
\* the branches for invalid commands in communicateWithPeer and in
\* handle_sync_server_client are never taken.
THEOREM MessagesAreExpected == Spec => []MessagesExpected
<1>1. ASSUME IInv, CInv PROVE MessagesExpected
  <2>1. ASSUME NEW n \in Nodes, conn[n] # NoThread, toPeer[conn[n]] # <<>>
        PROVE  /\ status[n] = "IDLE" => Head(toPeer[conn[n]]) = "PRECOMMIT"
               /\ status[n] = "PRECOMMIT_ACKNOWLEDGED" =>
                    Head(toPeer[conn[n]]) \in {"ABORT", "COMMIT"}
               /\ Awaiting(n) => Head(toPeer[conn[n]]) \in {"SUCCESS_NOOP", "UNSUCCESS_UNDO"}
               /\ status[n] \notin {"accept", "committing", "performed"}
    <3>1. status[n] # "accept"
      BY <1>1, <2>1 DEF CInv, Places
    <3>2. Serving(conn[n], status[n])
      BY <1>1, <3>1, ServedConnection
    <3> QED BY <2>1, <3>1, <3>2, OneMessage
            DEF Serving, Waiting, Acknowledged, Working, Performed, Unread, Awaiting
  <2>2. ASSUME NEW th \in Threads, toMaster[th] # <<>>
        PROVE  /\ pc[th] = "PRECOMMIT_SENT" => Head(toMaster[th]) = "READY"
               /\ pc[th] = "COMMIT_SENT" =>
                    Head(toMaster[th]) \in {"COMMIT_SUCCESS", "COMMIT_UNSUCCESS"}
               /\ Head(toMaster[th]) \in PeerMessages
    <3>1. Answers(th)
      BY <1>1 DEF CInv, Session
    <3> QED BY <2>2, <3>1, OneMessage DEF Answers, PeerMessages
  <2>3. \A n \in Nodes : status[n] \in Statuses
    BY <1>1 DEF CInv, ConnectionTypeOK
  <2> QED BY <2>1, <2>2, <2>3 DEF MessagesExpected, Awaiting, Statuses
<1> QED BY <1>1, Invariance, ConnectionInvariant, PTL

\* A step that changes what the abstract protocol shows is one of these.
LEMMA VisibleSteps ==
    ASSUME [Next]_vars
    PROVE  \/ UNCHANGED <<fate, completion>>
           \/ /\ UNCHANGED fate
              /\ \E th \in Threads, r \in {"WROTE", "ERROR"} : MayEnd(th) /\ MasterOpEnds(th, r)
           \/ /\ UNCHANGED completion
              /\ \E n \in Nodes : \/ PerformCommit(n) \/ ReceiveNoop(n)
                                  \/ Awaiting(n) /\ UndoAndRelease(n)
<1>1. ASSUME NEW th \in Threads, ThreadStep(th)
      PROVE  \/ UNCHANGED completion
             \/ \E r \in {"WROTE", "ERROR"} : MayEnd(th) /\ MasterOpEnds(th, r)
  BY <1>1 DEF ThreadStep, PhaseOneStep, PhaseTwoStep, CreateSocket, ConnectionRefused,
     SendPrecommit, ReceiveReady, CountReady, RetestReady, Decide, NotifyThreadsToAbort,
     ReceiveSuccess, ReceiveUnsuccess, CountSuccess, RetestSuccess, Finalize, TakeMutex,
     MasterFails, MasterPerforms, SendFinal, NotifyThreadsToUndoCommit, LosePeer,
     ReceiveError, CloseSocket, Receive, SendAndGoto, MayEnd, statVars
<1>2. ASSUME NEW n \in Nodes, SyncStep(n)
      PROVE  \/ UNCHANGED fate
             \/ PerformCommit(n) \/ ReceiveNoop(n)
             \/ Awaiting(n) /\ UndoAndRelease(n)
  BY <1>2 DEF SyncStep, AcceptMaster, ReceivePrecommit, ReceiveAbort, ReceiveCommit,
     RefuseCommit, AcknowledgeCommit, ReceiveUndo, LoseMaster, MasterError
<1> QED BY <1>1, <1>2 DEF Next, vars, masterVars, slaveVars, statVars, Rest, Request, Reject,
     StartSynchronization, StartLocal, Controller, ControllerStep, JoinThreads, LocalFails,
     LocalPerforms, LocalAsserts, PeerThread, MasterAsserts, SyncThread, PeerAsserts,
     SpuriousWakeup, Kill, KillInRewriting, Restart, ProcessEnds

\* Every step is a step of the abstract commit protocol, or shows nothing of it.
LEMMA CommitSteps ==
    ASSUME IInv, CInv, [Next]_vars
    PROVE  [CP!Next]_(CP!commitVars)
<1>1. CASE UNCHANGED <<fate, completion>>
  BY <1>1 DEF CP!commitVars
<1>2. ASSUME NEW th \in Threads, NEW r \in {"WROTE", "ERROR"},
             MayEnd(th), MasterOpEnds(th, r), UNCHANGED fate
      PROVE  CP!Next
  <2>1. th[1] \in Txns /\ completion[th[1]] = "" /\ Uncommitted(th[1]) = {}
    BY <1>2, ThreadParts, MayEndAlone
  <2>2. \A x \in Threads : x[1] = th[1] => fate[x] # "none"
    BY <2>1 DEF CInv, Session, Uncommitted, ThreadsOf
  <2>3. completion' = [completion EXCEPT ![th[1]] = r]
    BY <1>2 DEF MasterOpEnds
  <2>4. CP!MasterActs(th[1])
    BY <1>2, <2>1, <2>2, <2>3 DEF CP!MasterActs
  <2> QED BY <2>1, <2>4 DEF CP!Next
<1>3. ASSUME NEW n \in Nodes, UNCHANGED completion,
             PerformCommit(n) \/ ReceiveNoop(n) \/ (Awaiting(n) /\ UndoAndRelease(n))
      PROVE  CP!Next
  <2> DEFINE c == conn[n]
  <2>0. status[n] # "accept"
    BY <1>3 DEF PerformCommit, ReceiveNoop, Awaiting
  <2>1. c \in Threads /\ Serving(c, status[n])
    BY <2>0, ServedConnection
  <2>2. CASE PerformCommit(n)
    <3>1. fate[c] = "none" /\ fate' = [fate EXCEPT ![c] = "applied"]
      BY <2>1, <2>2 DEF PerformCommit, Serving
    <3> QED BY <1>3, <2>1, <3>1 DEF CP!PeerApplies, CP!Next
  <2>3. CASE ReceiveNoop(n)
    <3>1. /\ Performed(c) /\ toPeer[c] # <<>> /\ Head(toPeer[c]) = "SUCCESS_NOOP"
          /\ fate' = [fate EXCEPT ![c] = "kept"]
      BY <2>1, <2>3 DEF ReceiveNoop, Awaiting, PeerGets, Serving
    <3>2. lastSent[c] = "SUCCESS_NOOP" /\ fate[c] = "applied"
      BY <3>1, OneMessage DEF Performed, Unread
    <3>3. completion[c[1]] = "WROTE"
      <4>1. c[1] \in Txns /\ c \in ThreadsOf(c[1])
        BY <2>1, ThreadFacts
      <4>2. FinalDecision(c[1], c)
        BY <4>1 DEF IInv, PhaseTwo
      <4> QED BY <3>2, <4>2 DEF FinalDecision
    <3> QED BY <1>3, <2>1, <3>1, <3>2, <3>3 DEF CP!PeerKeeps, CP!Next
  <2>4. CASE Awaiting(n) /\ UndoAndRelease(n)
    <3>1. fate[c] = "applied" /\ fate' = [fate EXCEPT ![c] = "undone"]
      BY <2>1, <2>4 DEF Awaiting, UndoAndRelease, Serving, Performed
    <3> QED BY <1>3, <2>1, <3>1 DEF CP!PeerUndoes, CP!Next
  <2> QED BY <1>3, <2>2, <2>3, <2>4
<1> QED BY <1>1, <1>2, <1>3, VisibleSteps

\* The synchronization implements the abstract commit protocol, for any number of
\* peers and requests and with processes that end at any point: the master performs a
\* request, or gives it up, only after every peer has performed it; a peer makes its
\* operation permanent only after the master has succeeded; and each of them decides
\* once.
THEOREM CommitProtocolImplemented == Spec => ImplementsCommitProtocol
<1>1. Init => CP!Init
  BY DEF Init, SlaveInit, MasterInit, CP!Init
<1> QED BY <1>1, CommitSteps, Invariance, ConnectionInvariant, PTL
        DEF Spec, ImplementsCommitProtocol, CP!Spec

-----------------------------------------------------------------------------
(***************************************************************************)
(* Nobody is forgotten: a thread that ends owes the others of its request  *)
(* a decrement or a notification, and the one that pays neither has got an *)
(* error from a connection that was reset.  An end that was reset stays    *)
(* so: the synchronization server has nothing more to do with it.          *)
(***************************************************************************)

ResetsLeft == \A x \in Threads : peerEnd[x] = "reset" => ~Queued(x) /\ ~Served(x)

\* How a thread ends before it has counted, and whether it has begun.
Quits(x) ==
    /\ ctl[x[1]] = "joining" => pc[x] # "none"
    /\ Over(x) /\ ~Ready(x) => shouldAbort[x[1]] \/ peerEnd[x] = "reset"
    /\ Over(x) /\ lastSent[x] = "COMMIT" => didFail[x[1]] \/ peerEnd[x] = "reset"

QInv == ResetsLeft /\ \A x \in Threads : Quits(x)

\* The steps that touch the peers' ends, or the place of a connection at its peer.
LEMMA EndSteps ==
    ASSUME [Next]_vars
    PROVE  \/ UNCHANGED <<backlog, conn, peerEnd>>
           \/ \E th \in Threads : CreateSocket(th) /\ UNCHANGED slaveVars
           \/ \E n \in Nodes : AcceptMaster(n) /\ UNCHANGED masterVars
           \/ \E n \in Nodes : status[n] # "accept" /\ CloseConnection(n)
           \/ \E n \in Nodes, how \in {"down", "aborted"} : ProcessEnds(n, how)
<1>1. ASSUME NEW th \in Threads, ThreadStep(th)
      PROVE  UNCHANGED <<backlog, peerEnd>> \/ CreateSocket(th)
  BY <1>1 DEF ThreadStep, PhaseOneStep, PhaseTwoStep, ConnectionRefused,
     SendPrecommit, ReceiveReady, CountReady, RetestReady, Decide, NotifyThreadsToAbort,
     ReceiveSuccess, ReceiveUnsuccess, CountSuccess, RetestSuccess, Finalize, TakeMutex,
     MasterFails, MasterPerforms, MasterOpEnds, SendFinal, NotifyThreadsToUndoCommit, LosePeer,
     ReceiveError, CloseSocket, Receive, SendAndGoto, sockVars
<1>2. ASSUME NEW n \in Nodes, SyncStep(n)
      PROVE  \/ UNCHANGED <<backlog, conn, peerEnd>>
             \/ AcceptMaster(n) \/ (status[n] # "accept" /\ CloseConnection(n))
  BY <1>2 DEF SyncStep, ReceivePrecommit, ReceiveAbort, ReceiveCommit, RefuseCommit,
     PerformCommit, AcknowledgeCommit, ReceiveNoop, ReceiveUndo, LoseMaster, MasterError,
     Awaiting, sockVars
<1>3. \A t \in Txns : Home[t] \in Nodes
  BY BoardAssumption
<1>4. \A th \in Threads : th[1] \in Txns
  BY ThreadParts
<1>5. ASSUME NEW t \in Txns, Request(t) \/ Controller(t)
      PROVE  \/ UNCHANGED <<backlog, conn, peerEnd>>
             \/ ProcessEnds(Home[t], "aborted")
  BY <1>5 DEF Request, Reject, StartSynchronization, StartLocal, LocalFails, Controller,
     ControllerStep, JoinThreads, LocalPerforms, LocalAsserts, sockVars, slaveVars
<1>6. ASSUME NEW th \in Threads, PeerThread(th)
      PROVE  \/ UNCHANGED <<backlog, conn, peerEnd>>
             \/ CreateSocket(th) /\ UNCHANGED slaveVars
             \/ ProcessEnds(Home[th[1]], "aborted")
  BY <1>1, <1>6 DEF PeerThread, MasterAsserts, slaveVars
<1>7. ASSUME NEW n \in Nodes, SyncThread(n) \/ Kill(n) \/ KillInRewriting(n) \/ Restart(n)
      PROVE  \/ UNCHANGED <<backlog, conn, peerEnd>>
             \/ AcceptMaster(n) /\ UNCHANGED masterVars
             \/ status[n] # "accept" /\ CloseConnection(n)
             \/ \E how \in {"down", "aborted"} : ProcessEnds(n, how)
  BY <1>2, <1>7 DEF SyncThread, PeerAsserts, Kill, KillInRewriting, Restart, sockVars, slaveVars
<1>8. CASE \/ UNCHANGED vars
           \/ \E th \in Threads : SpuriousWakeup(th) /\ UNCHANGED slaveVars
  BY <1>8 DEF vars, SpuriousWakeup, sockVars, slaveVars
<1> QED BY <1>3, <1>4, <1>5, <1>6, <1>7, <1>8 DEF Next, Rest

\* The master connects.
LEMMA CreateSocketResets ==
    ASSUME IInv, CInv, ResetsLeft, NEW th \in Threads, CreateSocket(th), UNCHANGED slaveVars
    PROVE  ResetsLeft' /\ \A x \in Threads : Over(x) => peerEnd'[x] = peerEnd[x]
<1> DEFINE p == th[2]
           q == backlog[p]
<1>0. ConnectionTypeOK /\ p \in Nodes /\ q \in Seq(Threads)
  BY ThreadParts DEF CInv, ConnectionTypeOK
<1>1. /\ pc[th] = "created" /\ peerEnd' = [peerEnd EXCEPT ![th] = "open"]
      /\ backlog' = [backlog EXCEPT ![p] = Append(q, th)] /\ UNCHANGED conn
  BY DEF CreateSocket, Connect, At, slaveVars
<1>2. \A x : Member(Append(q, th), x) <=> Member(q, x) \/ x = th
  BY <1>0, Enqueued
<1>3. backlog'[p] = Append(q, th) /\ \A n \in Nodes : n # p => backlog'[n] = backlog[n]
  BY <1>0, <1>1 DEF ConnectionTypeOK
<1>4. \A x \in Threads : x # th => (Queued(x)' <=> Queued(x)) /\ (Served(x)' <=> Served(x))
  BY <1>1, <1>2, <1>3, ThreadParts DEF Queued, Served
<1>5. peerEnd'[th] = "open" /\ \A x \in Threads : x # th => peerEnd'[x] = peerEnd[x]
  BY <1>0, <1>1 DEF ConnectionTypeOK
<1> QED BY <1>1, <1>4, <1>5 DEF ResetsLeft, Over

\* The peer takes the next connection, whose end is open.
LEMMA AcceptMasterResets ==
    ASSUME IInv, CInv, ResetsLeft, NEW n \in Nodes, AcceptMaster(n)
    PROVE  ResetsLeft' /\ UNCHANGED peerEnd
<1> DEFINE c == Head(backlog[n])
           r == Tail(backlog[n])
<1>0. ConnectionTypeOK /\ Places(n) /\ backlog[n] \in Seq(Threads)
  BY DEF CInv, ConnectionTypeOK
<1>1. /\ backlog[n] # <<>> /\ UNCHANGED peerEnd
      /\ conn' = [conn EXCEPT ![n] = c] /\ backlog' = [backlog EXCEPT ![n] = r]
  BY DEF AcceptMaster
<1>2. \A x : Member(backlog[n], x) <=> Member(r, x) \/ x = c
  BY <1>0, <1>1, Dequeued DEF Places
<1> HIDE DEF c, r
<1>3. /\ conn'[n] = c /\ backlog'[n] = r
      /\ \A m \in Nodes : m # n => conn'[m] = conn[m] /\ backlog'[m] = backlog[m]
  BY <1>0, <1>1 DEF ConnectionTypeOK
<1>4. ASSUME NEW x \in Threads, Queued(x)' \/ Served(x)'
      PROVE  Queued(x) \/ Served(x)
  BY <1>2, <1>3, <1>4, ThreadParts DEF Queued, Served
<1> QED BY <1>1, <1>4 DEF ResetsLeft

\* The peer closes the connection it serves, whose end is open.
LEMMA CloseConnectionResets ==
    ASSUME IInv, CInv, ResetsLeft, NEW n \in Nodes, status[n] # "accept", CloseConnection(n)
    PROVE  ResetsLeft' /\ \A x \in Threads : peerEnd[x] = "reset" => peerEnd'[x] = "reset"
<1>0. ConnectionTypeOK
  BY DEF CInv
<1>1. conn[n] \in Threads /\ Served(conn[n])
  BY ServedConnection
<1>2. peerEnd[conn[n]] # "reset"
  BY <1>1 DEF ResetsLeft
<1>3. /\ peerEnd' = [peerEnd EXCEPT ![conn[n]] = "closed"]
      /\ conn' = [conn EXCEPT ![n] = NoThread] /\ UNCHANGED backlog
  BY DEF CloseConnection
<1>4. peerEnd'[conn[n]] = "closed" /\ \A x \in Threads : x # conn[n] => peerEnd'[x] = peerEnd[x]
  BY <1>0, <1>1, <1>3 DEF ConnectionTypeOK
<1>5. \A x \in Threads : (Queued(x)' <=> Queued(x)) /\ (Served(x)' => Served(x))
  BY <1>0, <1>3, ThreadParts DEF Queued, Served, ConnectionTypeOK
<1> QED BY <1>2, <1>4, <1>5 DEF ResetsLeft

\* A process that ends leaves no connection in its queue.
LEMMA ProcessEndsResets ==
    ASSUME IInv, CInv, ResetsLeft, NEW n \in Nodes, NEW how, ProcessEnds(n, how)
    PROVE  ResetsLeft' /\ \A x \in Threads : peerEnd[x] = "reset" => peerEnd'[x] = "reset"
<1>0. ConnectionTypeOK
  BY DEF CInv
<1>1. /\ conn' = [conn EXCEPT ![n] = NoThread] /\ backlog' = [backlog EXCEPT ![n] = <<>>]
  BY DEF ProcessEnds
<1>2. /\ conn'[n] = NoThread /\ backlog'[n] = <<>>
      /\ \A m \in Nodes : m # n => conn'[m] = conn[m] /\ backlog'[m] = backlog[m]
  BY <1>0, <1>1 DEF ConnectionTypeOK
<1>3. ASSUME NEW x \in Threads
      PROVE  peerEnd'[x] = peerEnd[x] \/ (x[2] = n /\ peerEnd[x] = "open")
  BY <1>3 DEF ProcessEnds
<1>4. \A x : ~Member(<<>>, x)
  BY DEF Member
<1>5. \A x \in Threads : x[2] = n => ~Queued(x)' /\ ~Served(x)'
  BY <1>2, <1>4, ThreadParts DEF Queued, Served
<1>6. \A x \in Threads : x[2] # n => (Queued(x)' <=> Queued(x)) /\ (Served(x)' <=> Served(x))
  BY <1>2, ThreadParts DEF Queued, Served
<1> QED BY <1>3, <1>5, <1>6 DEF ResetsLeft

\* Every step: an end that was reset stays so for a thread that has ended.
LEMMA NextResets ==
    ASSUME IInv, CInv, ResetsLeft, [Next]_vars
    PROVE  /\ ResetsLeft'
           /\ \A x \in Threads : Over(x) /\ peerEnd[x] = "reset" => peerEnd'[x] = "reset"
<1>1. CASE UNCHANGED <<backlog, conn, peerEnd>>
  BY <1>1 DEF ResetsLeft, Queued, Served
<1> QED BY <1>1, EndSteps, CreateSocketResets, AcceptMasterResets, CloseConnectionResets,
           ProcessEndsResets

\* A step that is not one of x moves x only at the start of its request.
LEMMA OthersMove ==
    ASSUME IInv, [Next]_vars, NEW x \in Threads, ~ThreadStep(x)
    PROVE  \/ /\ pc'[x] = pc[x] /\ lastSent'[x] = lastSent[x]
              /\ ctl'[x[1]] = "joining" => ctl[x[1]] = "joining"
           \/ pc'[x] = "created" /\ lastSent'[x] = lastSent[x]
<1>0. pc \in [Threads -> PCs] /\ lastSent \in [Threads -> MasterMessages \cup {"none"}]
      /\ ctl \in [Txns -> Ctls] /\ x[1] \in Txns
  BY ThreadParts DEF IInv, MasterTypeOK
<1>1. ASSUME NEW th \in Threads, ThreadStep(th)
      PROVE  /\ \E l : pc' = [pc EXCEPT ![th] = l]
             /\ UNCHANGED lastSent \/ \E m : lastSent' = [lastSent EXCEPT ![th] = m]
             /\ UNCHANGED ctl
  BY <1>1 DEF ThreadStep, PhaseOneStep, PhaseTwoStep, CreateSocket, ConnectionRefused,
     SendPrecommit, ReceiveReady, CountReady, RetestReady, Decide, NotifyThreadsToAbort,
     ReceiveSuccess, ReceiveUnsuccess, CountSuccess, RetestSuccess, Finalize, TakeMutex,
     MasterFails, MasterPerforms, MasterOpEnds, SendFinal, NotifyThreadsToUndoCommit, LosePeer,
     ReceiveError, CloseSocket, Receive, SendAndGoto, Goto
<1>2. ASSUME NEW th \in Threads, ThreadStep(th), th # x
      PROVE  pc'[x] = pc[x] /\ lastSent'[x] = lastSent[x] /\ ctl' = ctl
  BY <1>0, <1>1, <1>2
<1>3. ASSUME NEW t \in Txns, StartSynchronization(t)
      PROVE  \/ pc'[x] = pc[x] /\ lastSent'[x] = lastSent[x] /\ ctl'[x[1]] = ctl[x[1]]
             \/ pc'[x] = "created" /\ lastSent'[x] = lastSent[x]
  BY <1>0, <1>3 DEF StartSynchronization
<1>4. \/ \E th \in Threads : ThreadStep(th)
      \/ \E t \in Txns : StartSynchronization(t)
      \/ /\ UNCHANGED <<pc, lastSent>>
         /\ \/ ctl' = ctl
            \/ \E t \in Txns, c \in {"local", "done"} : ctl' = [ctl EXCEPT ![t] = c]
      \/ \E n \in Nodes, how \in {"down", "aborted"} : ProcessEnds(n, how)
  <2>1. \A t \in Txns : Home[t] \in Nodes
    BY BoardAssumption
  <2>2. \A th \in Threads : th[1] \in Txns
    BY ThreadParts
  <2> QED BY <2>1, <2>2 DEF Next, vars, masterVars, Rest, Request, Reject, StartLocal, LocalFails,
     Controller, ControllerStep, JoinThreads, LocalPerforms, LocalAsserts, PeerThread,
     MasterAsserts, SyncThread, PeerAsserts, SpuriousWakeup, Kill, KillInRewriting, Restart
<1>5. ASSUME NEW n \in Nodes, NEW how, ProcessEnds(n, how)
      PROVE  UNCHANGED <<pc, lastSent>> /\ ctl'[x[1]] \in {ctl[x[1]], "crashed"}
  BY <1>0, <1>5 DEF ProcessEnds
<1> QED BY <1>0, <1>2, <1>3, <1>4, <1>5

\* A step of the thread itself: it leaves with a flag set, with an error from its
\* peer, or after it has counted.
LEMMA OwnQuit ==
    ASSUME IInv, CInv, NEW x \in Threads, Quits(x), ThreadStep(x),
           shouldAbort[x[1]] => shouldAbort'[x[1]], didFail[x[1]] => didFail'[x[1]],
           Over(x) /\ peerEnd[x] = "reset" => peerEnd'[x] = "reset"
    PROVE  Quits(x)'
<1>0. /\ pc \in [Threads -> PCs] /\ lastSent \in [Threads -> MasterMessages \cup {"none"}]
      /\ Positions!(x) /\ x[1] \in Txns
      /\ shouldAbort \in [Txns -> BOOLEAN] /\ didFail \in [Txns -> BOOLEAN]
  BY ThreadParts DEF IInv, MasterTypeOK, Positions
<1>1. CASE Decide(x) \/ SendFinal(x)
  <2>1. /\ pc'[x] \in {"close", "COMMIT_SENT"}
        /\ pc'[x] = "close" => lastSent'[x] \in {"ABORT", "SUCCESS_NOOP", "UNSUCCESS_UNDO"}
    BY <1>0, <1>1 DEF Decide, SendFinal, SendAndGoto, Goto
  <2> QED BY <2>1 DEF Quits, Over, Ready, AfterCommit
<1>2. CASE NotifyThreadsToAbort(x)
  <2>1. /\ pc'[x] \in {"close", "done"} /\ shouldAbort'[x[1]] /\ lastSent'[x] = lastSent[x]
        /\ lastSent[x] # "COMMIT"
    BY <1>0, <1>2 DEF NotifyThreadsToAbort, At, Goto
  <2> QED BY <2>1 DEF Quits
<1>3. CASE NotifyThreadsToUndoCommit(x)
  <2>1. pc'[x] = "close" /\ didFail'[x[1]] /\ lastSent'[x] = lastSent[x] /\ lastSent[x] = "COMMIT"
    BY <1>0, <1>3 DEF NotifyThreadsToUndoCommit, At, Goto
  <2> QED BY <2>1 DEF Quits, Ready, AfterCommit
<1>4. CASE ReceiveError(x)
  <2>1. pc'[x] = "close" /\ peerEnd'[x] = "reset"
    BY <1>0, <1>4 DEF ReceiveError, MasterGetsError, Goto, sockVars
  <2> QED BY <2>1 DEF Quits
<1>5. CASE CloseSocket(x)
  <2>1. pc[x] = "close" /\ pc'[x] = "done" /\ lastSent'[x] = lastSent[x]
    BY <1>0, <1>5 DEF CloseSocket, At, Goto
  <2>2. Ready(x)' <=> Ready(x)
    BY <2>1 DEF Ready
  <2> QED BY <2>1, <2>2 DEF Quits, Over
<1>6. CASE ~(\/ Decide(x) \/ SendFinal(x) \/ NotifyThreadsToAbort(x)
             \/ NotifyThreadsToUndoCommit(x) \/ ReceiveError(x) \/ CloseSocket(x))
  <2>1. pc'[x] \notin {"none", "close", "done"}
    BY <1>0, <1>6 DEF ThreadStep, PhaseOneStep, PhaseTwoStep, CreateSocket, ConnectionRefused,
       SendPrecommit, ReceiveReady, CountReady, RetestReady, ReceiveSuccess, ReceiveUnsuccess,
       CountSuccess, RetestSuccess, Finalize, TakeMutex, MasterFails, MasterPerforms,
       MasterOpEnds, LosePeer, Receive, SendAndGoto, Goto
  <2> QED BY <2>1 DEF Quits, Over
<1> QED BY <1>1, <1>2, <1>3, <1>4, <1>5, <1>6

\* Every step.
LEMMA NextQuits == IInv /\ CInv /\ QInv /\ [Next]_vars => QInv'
<1> SUFFICES ASSUME IInv, CInv, QInv, [Next]_vars PROVE QInv'
  OBVIOUS
<1>1. /\ ResetsLeft'
      /\ \A x \in Threads : Over(x) /\ peerEnd[x] = "reset" => peerEnd'[x] = "reset"
  BY NextResets DEF QInv
<1>2. ASSUME NEW x \in Threads PROVE Quits(x)'
  <2>1. x[1] \in Txns /\ Quits(x)
    BY ThreadParts DEF QInv
  <2>2. (shouldAbort[x[1]] => shouldAbort'[x[1]]) /\ (didFail[x[1]] => didFail'[x[1]])
    BY <2>1, FlagWriters
  <2>3. CASE ThreadStep(x)
    BY <1>1, <2>1, <2>2, <2>3, OwnQuit
  <2>4. CASE ~ThreadStep(x)
    <3>1. CASE pc'[x] = "created"
      BY <3>1 DEF Quits, Over
    <3>2. CASE /\ pc'[x] = pc[x] /\ lastSent'[x] = lastSent[x]
               /\ ctl'[x[1]] = "joining" => ctl[x[1]] = "joining"
      <4>1. (Over(x)' <=> Over(x)) /\ (Ready(x)' <=> Ready(x))
        BY <3>2 DEF Over, Ready
      <4> QED BY <1>1, <2>1, <2>2, <3>2, <4>1 DEF Quits
    <3> QED BY <2>4, <3>1, <3>2, OthersMove
  <2> QED BY <2>3, <2>4
<1> QED BY <1>1, <1>2 DEF QInv

\* The threads of a request never all wait for each other: for any number of peers
\* and requests, and with processes that end, a thread asleep in communicateWithPeer
\* has one that is awake and will count or notify, or one that left with an error
\* from a connection its peer reset.
THEOREM NobodyIsForgotten == Spec => []NobodyForgotten
<1>1. Init => QInv
  <2> SUFFICES ASSUME Init PROVE QInv
    OBVIOUS
  <2>1. \A x \in Threads : x[1] \in Txns /\ pc[x] = "none" /\ peerEnd[x] = "none"
    BY ThreadParts DEF Init, SocketsInit, MasterInit
  <2>2. \A x \in Threads : ctl[x[1]] = "idle"
    BY <2>1 DEF Init, MasterInit
  <2> QED BY <2>1, <2>2 DEF QInv, ResetsLeft, Quits, Over
<1>2. ASSUME IInv, Sleepers, QInv PROVE NobodyForgotten
  <2> SUFFICES ASSUME NEW th \in asleep, ctl[th[1]] = "joining"
               PROVE  \E o \in ThreadsOf(th[1]) \ asleep :
                        \/ pc[o] \in Reporting(pc[th])
                        \/ pc[o] \in {"close", "done"} /\ peerEnd[o] = "reset"
    BY DEF NobodyForgotten
  <2> DEFINE t == th[1]
  <2>0. /\ th \in Threads /\ t \in Txns /\ th \in ThreadsOf(t) /\ Sleeps(th)
        /\ pc \in [Threads -> PCs] /\ lastSent \in [Threads -> MasterMessages \cup {"none"}]
        /\ precommitPending[t] = Cardinality(Unready(t))
        /\ commitPending[t] = Cardinality(Uncommitted(t))
    BY <1>2, ThreadFacts DEF Sleepers, IInv, MasterTypeOK, PhaseOne, PhaseTwo
  <2>1. \A o \in ThreadsOf(t) : o \in Threads /\ o[1] = t /\ Quits(o) /\ Positions!(o)
    BY <1>2, <2>0, ThreadFacts DEF QInv, IInv, Positions
  <2>2. CASE pc[th] = "waitReady"
    <3>1. Unready(t) # {} /\ ~shouldAbort[t]
      BY <2>0, <2>2, CounterFacts DEF Sleeps
    <3>2. PICK o \in ThreadsOf(t) : ~Ready(o)
      BY <3>1 DEF Unready
    <3>3. o \in Threads /\ o[1] = t /\ Quits(o) /\ Positions!(o)
      BY <2>1
    <3>4. o \notin asleep
      BY <1>2, <3>2, <3>3 DEF Sleepers, Sleeps, Ready, AfterCommit
    <3>5. CASE Over(o)
      <4>1. peerEnd[o] = "reset"
        BY <3>1, <3>2, <3>3, <3>5 DEF Quits
      <4> QED BY <3>4, <3>5, <4>1 DEF Over
    <3>6. CASE ~Over(o)
      <4>1. pc[o] \in {"created", "connected", "PRECOMMIT_SENT", "gotReady", "notifyAbort"}
        BY <2>0, <3>2, <3>3, <3>6 DEF Ready, Over, Quits, PCs, AfterCommit
      <4> QED BY <2>2, <3>4, <4>1 DEF Reporting
    <3> QED BY <3>5, <3>6
  <2>3. CASE pc[th] = "waitSuccess"
    <3>1. Uncommitted(t) # {} /\ ~didFail[t]
      BY <2>0, <2>3, CounterFacts DEF Sleeps
    <3>2. PICK o \in ThreadsOf(t) : ~Committed(o)
      BY <3>1 DEF Uncommitted
    <3>3. o \in Threads /\ o[1] = t /\ Quits(o) /\ Positions!(o)
      BY <2>1
    <3>4. Unready(t) = {} /\ precommitPending[t] = 0 /\ ~shouldAbort[t]
      <4>1. lastSent[th] = "COMMIT" /\ FirstDecision(t, th)
        BY <1>2, <2>0, <2>1, <2>3 DEF IInv, PhaseOne
      <4>2. Unready(t) = {}
        BY <4>1 DEF FirstDecision, AfterCommit
      <4> QED BY <1>2, <2>0, <4>2, CounterFacts, FailureIsFinal
    <3>5. Ready(o) /\ lastSent[o] # "ABORT"
      <4>1. FirstDecision(t, o)
        BY <1>2, <2>0 DEF IInv, PhaseOne
      <4> QED BY <3>4, <4>1 DEF Unready, FirstDecision
    <3>6. o \notin asleep
      BY <1>2, <3>2, <3>3, <3>4 DEF Sleepers, Sleeps, Committed
    <3>7. lastSent[o] = "COMMIT" \/ pc[o] \in {"waitReady", "decide"}
      BY <3>2, <3>5 DEF Ready, Committed, AfterCommit
    <3>8. CASE Over(o)
      <4>1. peerEnd[o] = "reset"
        BY <3>1, <3>3, <3>7, <3>8 DEF Quits, Over
      <4> QED BY <3>6, <3>8, <4>1 DEF Over
    <3>9. CASE ~Over(o)
      <4>1. pc[o] \in {"waitReady", "decide", "COMMIT_SENT", "gotSuccess", "notifyUndo"}
        BY <2>0, <3>2, <3>3, <3>7, <3>9 DEF Committed, Over, PCs
      <4> QED BY <2>3, <3>6, <4>1 DEF Reporting
    <3> QED BY <3>8, <3>9
  <2> QED BY <2>0, <2>2, <2>3 DEF Sleeps
<1> QED BY <1>1, <1>2, NextQuits, Invariance, ConnectionInvariant, SleepersInvariant, PTL DEF Spec
================================================================================
