--------------------------- MODULE PeerCommunication ---------------------------
(***************************************************************************)
(* The master's side of a synchronization: the board thread that received  *)
(* the request (handle_bulletin_board_client, here the controller) and the *)
(* communicateWithPeer threads it creates, one per peer, with the          *)
(* PeerCommunicationStatistics they share.                                 *)
(*                                                                         *)
(* peerCommunicationMutex protects regions that do not block, each of them *)
(* one action, and one that does: the master's own operation, made by the  *)
(* thread at "masterOp".  The condition variable is shared by all requests *)
(* of a node; asleep holds the threads in pthread_cond_wait.               *)
(***************************************************************************)
EXTENDS Sockets

CONSTANT tmax   \* board threads of a node, hence requests it serves at a time

ASSUME tmaxAssumption == tmax \in Nat

VARIABLES
    ctl,              \* ctl[t]: where the controller of request t is
    response,         \* response[t]: what the client was told
    pc,               \* pc[th]: where thread th is
    lastSent,         \* lastSent[th]: the last message th sent
    asleep,           \* the threads in pthread_cond_wait
    precommitPending, \* numberOfPositivePrecommitAcknowledgementsPending
    shouldAbort,
    commitPending,    \* numberOfSuccessfulCommitAcknowledgementsPending
    didFail,          \* didOneOrMorePeersFailToCommit
    completion        \* masterOperationCompletionMessage: "" when empty

statVars == <<precommitPending, shouldAbort, commitPending, didFail, completion>>
masterVars == <<ctl, response, pc, lastSent, asleep, statVars>>

\* "PRECOMMIT_SENT" and "COMMIT_SENT" are the values of currentStatus: the
\* thread is in recv_nonblock.  "waitReady" and "waitSuccess" are the loops
\* around pthread_cond_wait.
PCs == {"none", "created", "connected", "PRECOMMIT_SENT", "gotReady", "waitReady",
        "decide", "COMMIT_SENT", "gotSuccess", "waitSuccess", "finalize", "lockOp",
        "masterOp", "sendFinal", "notifyAbort", "notifyUndo", "close", "done"}

Ctls == {"idle", "local", "joining", "done", "crashed"}
Completions == {"", "WROTE", "ERROR"}
Responses == {"none", "WROTE", "ERROR", "UNKNOWN"}

MasterInit ==
    /\ ctl = [t \in Txns |-> "idle"]
    /\ response = [t \in Txns |-> "none"]
    /\ pc = [th \in Threads |-> "none"]
    /\ lastSent = [th \in Threads |-> "none"]
    /\ asleep = {}
    /\ precommitPending = [t \in Txns |-> Cardinality(ThreadsOf(t))]
    /\ shouldAbort = [t \in Txns |-> FALSE]
    /\ commitPending = [t \in Txns |-> Cardinality(ThreadsOf(t))]
    /\ didFail = [t \in Txns |-> FALSE]
    /\ completion = [t \in Txns |-> ""]

-----------------------------------------------------------------------------
(* The controller.                                                         *)

Busy(n) == {t \in Txns : Home[t] = n /\ ctl[t] \in {"local", "joining"}}

\* A request reaches a free board thread of a running node.
Arrives(t) ==
    /\ ctl[t] = "idle"
    /\ state[Home[t]] = "up"
    /\ Cardinality(Busy(Home[t])) < tmax

\* A REPLACE of a message that does not exist is answered at once.
Reject(t) ==
    /\ Arrives(t)
    /\ ~ArgumentsValid(Home[t], t)
    /\ ctl' = [ctl EXCEPT ![t] = "done"]
    /\ response' = [response EXCEPT ![t] = "UNKNOWN"]
    /\ UNCHANGED <<pc, lastSent, asleep, statVars, boardVars, sockVars>>

\* resetPeerCommunicationGlobalVars (the statistics of a request start as in
\* MasterInit, and exist while ctl[t] is "joining"), then pthread_create.
StartSynchronization(t) ==
    /\ Arrives(t)
    /\ ArgumentsValid(Home[t], t)
    /\ Peers[Home[t]] # {}
    /\ ctl' = [ctl EXCEPT ![t] = "joining"]
    /\ pc' = [th \in Threads |-> IF th[1] = t THEN "created" ELSE pc[th]]
    /\ UNCHANGED <<response, lastSent, asleep, statVars, boardVars, sockVars>>

\* pthread_join of every thread, then getMasterOperationCompletionMessage.
JoinThreads(t) ==
    /\ ctl[t] = "joining"
    /\ \A th \in ThreadsOf(t) : pc[th] = "done"
    /\ ctl' = [ctl EXCEPT ![t] = "done"]
    /\ response' = [response EXCEPT ![t] = IF completion[t] = "" THEN "ERROR" ELSE completion[t]]
    /\ UNCHANGED <<pc, lastSent, asleep, statVars, boardVars, sockVars>>

\* A node without peers performs the operation itself.  access() allows it: on to
\* acquireWriteLock.
StartLocal(t) ==
    /\ Arrives(t)
    /\ ArgumentsValid(Home[t], t)
    /\ Peers[Home[t]] = {}
    /\ ctl' = [ctl EXCEPT ![t] = "local"]
    /\ UNCHANGED <<response, pc, lastSent, asleep, statVars, boardVars, sockVars>>

\* access() fails.
LocalFails(t) ==
    /\ Arrives(t)
    /\ ArgumentsValid(Home[t], t)
    /\ Peers[Home[t]] = {}
    /\ Home[t] \in Faulty
    /\ ctl' = [ctl EXCEPT ![t] = "done"]
    /\ response' = [response EXCEPT ![t] = "ERROR"]
    /\ UNCHANGED <<pc, lastSent, asleep, statVars, boardVars, sockVars>>

\* The operation with holdLock = false: lock, change, unlock.
LocalPerforms(t) ==
    /\ ctl[t] = "local"
    /\ ~writer_active[Home[t]]
    /\ ~MessageMissing(Home[t], t)
    /\ Perform(Home[t], t)
    /\ wrote' = [wrote EXCEPT ![t] = NumberOf(Home[t], t)]
    /\ ctl' = [ctl EXCEPT ![t] = "done"]
    /\ response' = [response EXCEPT ![t] = "WROTE"]
    /\ UNCHANGED <<pc, lastSent, asleep, statVars, state, writer_active, damaged, sockVars>>

ControllerStep(t) == JoinThreads(t) \/ LocalPerforms(t)

-----------------------------------------------------------------------------
(* communicateWithPeer.  At(th, l): thread th of a live controller is at l. *)

At(th, l) == pc[th] = l /\ ctl[th[1]] = "joining"

Goto(th, l) == pc' = [pc EXCEPT ![th] = l]

\* No thread of the process is inside the master's operation.
MutexFree(th) ==
    ~ \E o \in Threads : At(o, "masterOp") /\ Home[o[1]] = Home[th[1]]

\* pthread_cond_broadcast(&peerCommunicationCondition)
AwakeAfterBroadcast(th) == {o \in asleep : Home[o[1]] # Home[th[1]]}

CreateSocket(th) ==
    /\ At(th, "created")
    /\ state[th[2]] = "up"
    /\ Connect(th)
    /\ Goto(th, "connected")
    /\ UNCHANGED <<ctl, response, lastSent, asleep, statVars, boardVars>>

BugRefusedInSilence(th) ==
    /\ At(th, "created")
    /\ Goto(th, "done")
    /\ UNCHANGED <<ctl, response, lastSent, asleep, statVars, boardVars, sockVars>>

\* The host is unknown, unreachable or refuses.
ConnectionRefused(th) ==
    /\ At(th, "created")
    /\ Goto(th, "notifyAbort")
    /\ UNCHANGED <<ctl, response, lastSent, asleep, statVars, boardVars, sockVars>>

\* sendMessage(5.0, m) followed by a jump to l.
SendAndGoto(th, m, l) ==
    /\ SendToPeer(th, m)
    /\ lastSent' = [lastSent EXCEPT ![th] = m]
    /\ Goto(th, l)
    /\ UNCHANGED <<ctl, response, asleep, statVars, boardVars,
                   backlog, toMaster, masterEnd, peerEnd>>

SendPrecommit(th) ==
    /\ At(th, "connected")
    /\ SendAndGoto(th, "PRECOMMIT", "PRECOMMIT_SENT")

\* recv_nonblock returns message m, which sends the thread to l.
Receive(th, l, m, next) ==
    /\ At(th, l)
    /\ MasterGets(th, m)
    /\ toMaster' = [toMaster EXCEPT ![th] = Tail(@)]
    /\ Goto(th, next)
    /\ UNCHANGED <<ctl, response, lastSent, asleep, statVars, boardVars,
                   backlog, toPeer, masterEnd, peerEnd>>

ReceiveReady(th) == Receive(th, "PRECOMMIT_SENT", "READY", "gotReady")
ReceiveSuccess(th) == Receive(th, "COMMIT_SENT", "COMMIT_SUCCESS", "gotSuccess")
ReceiveUnsuccess(th) == Receive(th, "COMMIT_SENT", "COMMIT_UNSUCCESS", "notifyUndo")

\* recv_nonblock returns recv_nodata (the timeout) or 0 (the peer closed).
LosePeer(th) ==
    /\ \/ At(th, "PRECOMMIT_SENT") /\ Goto(th, "notifyAbort")
       \/ At(th, "COMMIT_SENT") /\ Goto(th, "notifyUndo")
    /\ UNCHANGED <<ctl, response, lastSent, asleep, statVars, boardVars, sockVars>>

\* recv_nonblock returns -1: the loop ends and nobody is notified.
ReceiveError(th) ==
    /\ At(th, "PRECOMMIT_SENT") \/ At(th, "COMMIT_SENT")
    /\ MasterGetsError(th)
    /\ Goto(th, "close")
    /\ UNCHANGED <<ctl, response, lastSent, asleep, statVars, boardVars, sockVars>>

-----------------------------------------------------------------------------
(* Phase one: every peer must be READY.                                    *)

BugCountReadyDoesNotWait(th) ==
    /\ At(th, "gotReady")
    /\ MutexFree(th)
    /\ precommitPending' = [precommitPending EXCEPT ![th[1]] = @ - 1]
    /\ Goto(th, "decide")
    /\ UNCHANGED <<ctl, response, lastSent, asleep, shouldAbort, commitPending, didFail,
                   completion, boardVars, sockVars>>

\* READY, counted under the mutex: the last one wakes the others, the rest wait.
CountReady(th) ==
    LET t == th[1]
        left == precommitPending[t] - 1
        goesOn == left = 0 \/ shouldAbort[t]
    IN  /\ At(th, "gotReady")
        /\ MutexFree(th)
        /\ precommitPending' = [precommitPending EXCEPT ![t] = left]
        /\ asleep' = IF left = 0 THEN AwakeAfterBroadcast(th)
                     ELSE IF goesOn THEN asleep ELSE asleep \cup {th}
        /\ Goto(th, IF goesOn THEN "decide" ELSE "waitReady")
        /\ UNCHANGED <<ctl, response, lastSent, shouldAbort, commitPending, didFail,
                       completion, boardVars, sockVars>>

BugRetestReadyCountsAgain(th) ==
    /\ At(th, "waitReady")
    /\ th \notin asleep
    /\ MutexFree(th)
    /\ precommitPending' = [precommitPending EXCEPT ![th[1]] = @ - 1]
    /\ Goto(th, "decide")
    /\ UNCHANGED <<ctl, response, lastSent, asleep, shouldAbort, commitPending, didFail,
                   completion, boardVars, sockVars>>

\* A woken thread tests its loop condition.
RetestReady(th) ==
    LET goesOn == precommitPending[th[1]] = 0 \/ shouldAbort[th[1]]
    IN  /\ At(th, "waitReady")
        /\ th \notin asleep
        /\ MutexFree(th)
        /\ asleep' = IF goesOn THEN asleep ELSE asleep \cup {th}
        /\ Goto(th, IF goesOn THEN "decide" ELSE "waitReady")
        /\ UNCHANGED <<ctl, response, lastSent, statVars, boardVars, sockVars>>

\* shouldAbort is read without the mutex.
Decide(th) ==
    /\ At(th, "decide")
    /\ IF shouldAbort[th[1]]
       THEN SendAndGoto(th, "ABORT", "close")
       ELSE SendAndGoto(th, "COMMIT", "COMMIT_SENT")

BugNotifyWithoutBroadcast(th) ==
    /\ At(th, "notifyAbort")
    /\ MutexFree(th)
    /\ shouldAbort' = [shouldAbort EXCEPT ![th[1]] = TRUE]
    /\ Goto(th, IF masterEnd[th] = "none" THEN "done" ELSE "close")
    /\ UNCHANGED <<ctl, response, lastSent, asleep, precommitPending, commitPending, didFail,
                   completion, boardVars, sockVars>>

\* notifyThreadsToAbort.  A thread without a socket returns at once.
NotifyThreadsToAbort(th) ==
    /\ At(th, "notifyAbort")
    /\ MutexFree(th)
    /\ asleep' = IF shouldAbort[th[1]] THEN asleep ELSE AwakeAfterBroadcast(th)
    /\ shouldAbort' = [shouldAbort EXCEPT ![th[1]] = TRUE]
    /\ Goto(th, IF masterEnd[th] = "none" THEN "done" ELSE "close")
    /\ UNCHANGED <<ctl, response, lastSent, precommitPending, commitPending, didFail,
                   completion, boardVars, sockVars>>

-----------------------------------------------------------------------------
(* Phase two: every peer must have committed, then the master itself.      *)

BugCountSuccessDoesNotWait(th) ==
    /\ At(th, "gotSuccess")
    /\ MutexFree(th)
    /\ commitPending' = [commitPending EXCEPT ![th[1]] = @ - 1]
    /\ Goto(th, "finalize")
    /\ UNCHANGED <<ctl, response, lastSent, asleep, precommitPending, shouldAbort, didFail,
                   completion, boardVars, sockVars>>

CountSuccess(th) ==
    LET t == th[1]
        left == commitPending[t] - 1
        goesOn == left = 0 \/ didFail[t]
    IN  /\ At(th, "gotSuccess")
        /\ MutexFree(th)
        /\ commitPending' = [commitPending EXCEPT ![t] = left]
        /\ asleep' = IF left = 0 THEN AwakeAfterBroadcast(th)
                     ELSE IF goesOn THEN asleep ELSE asleep \cup {th}
        /\ Goto(th, IF goesOn THEN "finalize" ELSE "waitSuccess")
        /\ UNCHANGED <<ctl, response, lastSent, precommitPending, shouldAbort, didFail,
                       completion, boardVars, sockVars>>

RetestSuccess(th) ==
    LET goesOn == commitPending[th[1]] = 0 \/ didFail[th[1]]
    IN  /\ At(th, "waitSuccess")
        /\ th \notin asleep
        /\ MutexFree(th)
        /\ asleep' = IF goesOn THEN asleep ELSE asleep \cup {th}
        /\ Goto(th, IF goesOn THEN "finalize" ELSE "waitSuccess")
        /\ UNCHANGED <<ctl, response, lastSent, statVars, boardVars, sockVars>>

\* didOneOrMorePeersFailToCommit is read without the mutex.
Finalize(th) ==
    /\ At(th, "finalize")
    /\ Goto(th, IF didFail[th[1]] THEN "sendFinal" ELSE "lockOp")
    /\ UNCHANGED <<ctl, response, lastSent, asleep, statVars, boardVars, sockVars>>

BugEveryThreadPerforms(th) ==
    /\ At(th, "lockOp")
    /\ MutexFree(th)
    /\ Goto(th, "masterOp")
    /\ UNCHANGED <<ctl, response, lastSent, asleep, statVars, boardVars, sockVars>>

\* The first thread that takes the mutex performs the operation, once: access()
\* allows it, and it goes on to acquireWriteLock.
TakeMutex(th) ==
    /\ At(th, "lockOp")
    /\ MutexFree(th)
    /\ Goto(th, IF completion[th[1]] = "" THEN "masterOp" ELSE "sendFinal")
    /\ UNCHANGED <<ctl, response, lastSent, asleep, statVars, boardVars, sockVars>>

\* The operation ends with result r; the mutex is released.
MasterOpEnds(th, r) ==
    /\ completion' = [completion EXCEPT ![th[1]] = r]
    /\ Goto(th, "sendFinal")
    /\ UNCHANGED <<ctl, response, lastSent, asleep, precommitPending, shouldAbort,
                   commitPending, didFail, sockVars>>

\* access() fails.
MasterFails(th) ==
    /\ At(th, "lockOp")
    /\ MutexFree(th)
    /\ completion[th[1]] = ""
    /\ Home[th[1]] \in Faulty
    /\ MasterOpEnds(th, "ERROR")
    /\ UNCHANGED boardVars

BugMasterPerformsUnlocked(th) ==
    /\ At(th, "masterOp")
    /\ ~MessageMissing(Home[th[1]], th[1])
    /\ Perform(Home[th[1]], th[1])
    /\ wrote' = [wrote EXCEPT ![th[1]] = NumberOf(Home[th[1]], th[1])]
    /\ MasterOpEnds(th, "WROTE")
    /\ UNCHANGED <<state, writer_active, damaged>>

\* The thread waits for the write lock with the mutex held, then lock, change, unlock.
MasterPerforms(th) ==
    /\ At(th, "masterOp")
    /\ ~writer_active[Home[th[1]]]
    /\ ~MessageMissing(Home[th[1]], th[1])
    /\ Perform(Home[th[1]], th[1])
    /\ wrote' = [wrote EXCEPT ![th[1]] = NumberOf(Home[th[1]], th[1])]
    /\ MasterOpEnds(th, "WROTE")
    /\ UNCHANGED <<state, writer_active, damaged>>

BugFinalIgnoresPeers(th) ==
    /\ At(th, "sendFinal")
    /\ SendAndGoto(th, IF completion[th[1]] # "ERROR" THEN "SUCCESS_NOOP" ELSE "UNSUCCESS_UNDO",
                   "close")

\* The final message; both flags are read without the mutex.
SendFinal(th) ==
    LET positive == ~didFail[th[1]] /\ completion[th[1]] # "ERROR"
    IN  /\ At(th, "sendFinal")
        /\ SendAndGoto(th, IF positive THEN "SUCCESS_NOOP" ELSE "UNSUCCESS_UNDO", "close")

NotifyThreadsToUndoCommit(th) ==
    /\ At(th, "notifyUndo")
    /\ MutexFree(th)
    /\ asleep' = IF didFail[th[1]] THEN asleep ELSE AwakeAfterBroadcast(th)
    /\ didFail' = [didFail EXCEPT ![th[1]] = TRUE]
    /\ Goto(th, "close")
    /\ UNCHANGED <<ctl, response, lastSent, precommitPending, shouldAbort, commitPending,
                   completion, boardVars, sockVars>>

\* shutdown and close; what the peer still sends is lost.
CloseSocket(th) ==
    /\ At(th, "close")
    /\ masterEnd' = [masterEnd EXCEPT ![th] = "closed"]
    /\ toMaster' = [toMaster EXCEPT ![th] = <<>>]
    /\ Goto(th, "done")
    /\ UNCHANGED <<ctl, response, lastSent, asleep, statVars, boardVars,
                   backlog, toPeer, peerEnd>>

-----------------------------------------------------------------------------

PhaseOneStep(th) ==
    \/ CreateSocket(th) \/ ConnectionRefused(th) \/ SendPrecommit(th)
    \/ ReceiveReady(th) \/ CountReady(th) \/ RetestReady(th) \/ Decide(th)
    \/ NotifyThreadsToAbort(th)

PhaseTwoStep(th) ==
    \/ ReceiveSuccess(th) \/ ReceiveUnsuccess(th) \/ CountSuccess(th) \/ RetestSuccess(th)
    \/ Finalize(th) \/ TakeMutex(th) \/ MasterFails(th) \/ MasterPerforms(th)
    \/ SendFinal(th) \/ NotifyThreadsToUndoCommit(th)

ThreadStep(th) ==
    \/ PhaseOneStep(th) \/ PhaseTwoStep(th)
    \/ LosePeer(th) \/ ReceiveError(th) \/ CloseSocket(th)

\* POSIX allows pthread_cond_wait to return without a broadcast.
SpuriousWakeup(th) ==
    /\ th \in asleep
    /\ ctl[th[1]] = "joining"
    /\ asleep' = asleep \ {th}
    /\ UNCHANGED <<ctl, response, pc, lastSent, statVars, boardVars, sockVars>>
=============================================================================
