------------------------------ MODULE SyncServer ------------------------------
(***************************************************************************)
(* The peer's side of a synchronization: the one thread of the             *)
(* synchronization server of each node (handle_sync_server_client).  It    *)
(* serves one connection at a time, performs the operation with the write  *)
(* lock held, and keeps the lock until the master's final message or the   *)
(* loss of the connection tells it what to do with the operation.          *)
(***************************************************************************)
EXTENDS Sockets

VARIABLES
    status,   \* status[n]: where the thread is
    conn,     \* conn[n]: the connection being served
    undo,     \* undo[n]: undoCommitOperation
    fate      \* fate[th]: what became of the operation of th at its peer

slaveVars == <<status, conn, undo, fate>>

\* "committing": in acquireWriteLock; "performed": the operation has returned.
\* The values in capitals are those of currentStatus: in recv_nonblock.
Statuses == {"accept", "IDLE", "PRECOMMIT_ACKNOWLEDGED", "committing", "performed",
             "AWAITING_SUCCESS_OR_UNDO_BROADCAST"}

Fates == {"none", "applied", "kept", "undone"}

SlaveInit ==
    /\ status = [n \in Nodes |-> "accept"]
    /\ conn = [n \in Nodes |-> NoThread]
    /\ undo = [n \in Nodes |-> NoUndo]
    /\ fate = [th \in Threads |-> "none"]

Awaiting(n) == status[n] = "AWAITING_SUCCESS_OR_UNDO_BROADCAST"

-----------------------------------------------------------------------------

AcceptMaster(n) ==
    /\ status[n] = "accept"
    /\ backlog[n] # <<>>
    /\ conn' = [conn EXCEPT ![n] = Head(backlog[n])]
    /\ backlog' = [backlog EXCEPT ![n] = Tail(@)]
    /\ status' = [status EXCEPT ![n] = "IDLE"]
    /\ UNCHANGED <<undo, fate, boardVars, toPeer, toMaster, masterEnd, peerEnd>>

\* shutdown and close, then back to accept.
CloseConnection(n) ==
    /\ peerEnd' = [peerEnd EXCEPT ![conn[n]] = "closed"]
    /\ toPeer' = [toPeer EXCEPT ![conn[n]] = <<>>]
    /\ status' = [status EXCEPT ![n] = "accept"]
    /\ conn' = [conn EXCEPT ![n] = NoThread]
    /\ undo' = [undo EXCEPT ![n] = NoUndo]
    /\ UNCHANGED <<backlog, masterEnd>>

BugPrecommitKeepsStatus(n) ==
    /\ status[n] = "IDLE"
    /\ PeerGets(conn[n], "PRECOMMIT")
    /\ toPeer' = [toPeer EXCEPT ![conn[n]] = Tail(@)]
    /\ SendToMaster(conn[n], "READY")
    /\ UNCHANGED <<status, conn, undo, fate, boardVars, backlog, masterEnd, peerEnd>>

ReceivePrecommit(n) ==
    /\ status[n] = "IDLE"
    /\ PeerGets(conn[n], "PRECOMMIT")
    /\ toPeer' = [toPeer EXCEPT ![conn[n]] = Tail(@)]
    /\ SendToMaster(conn[n], "READY")
    /\ status' = [status EXCEPT ![n] = "PRECOMMIT_ACKNOWLEDGED"]
    /\ UNCHANGED <<conn, undo, fate, boardVars, backlog, masterEnd, peerEnd>>

ReceiveAbort(n) ==
    /\ status[n] = "PRECOMMIT_ACKNOWLEDGED"
    /\ PeerGets(conn[n], "ABORT")
    /\ CloseConnection(n)
    /\ UNCHANGED <<fate, boardVars, toMaster>>

\* COMMIT, and access() allows the operation: on to acquireWriteLock.
ReceiveCommit(n) ==
    /\ status[n] = "PRECOMMIT_ACKNOWLEDGED"
    /\ PeerGets(conn[n], "COMMIT")
    /\ toPeer' = [toPeer EXCEPT ![conn[n]] = Tail(@)]
    /\ status' = [status EXCEPT ![n] = "committing"]
    /\ UNCHANGED <<conn, undo, fate, boardVars, backlog, toMaster, masterEnd, peerEnd>>

\* COMMIT, and access() fails.
RefuseCommit(n) ==
    /\ status[n] = "PRECOMMIT_ACKNOWLEDGED"
    /\ n \in Faulty
    /\ PeerGets(conn[n], "COMMIT")
    /\ SendToMaster(conn[n], "COMMIT_UNSUCCESS")
    /\ CloseConnection(n)
    /\ UNCHANGED <<fate, boardVars>>

BugPerformReleases(n) ==
    LET t == conn[n][1]
    IN  /\ status[n] = "committing"
        /\ ~writer_active[n]
        /\ ~MessageMissing(n, t)
        /\ undo' = [undo EXCEPT ![n] = UndoOf(n, t)]
        /\ Perform(n, t)
        /\ fate' = [fate EXCEPT ![conn[n]] = "applied"]
        /\ status' = [status EXCEPT ![n] = "performed"]
        /\ UNCHANGED <<conn, state, writer_active, wrote, damaged, sockVars>>

\* The operation with holdLock = true: the lock is kept.
PerformCommit(n) ==
    LET t == conn[n][1]
    IN  /\ status[n] = "committing"
        /\ ~writer_active[n]
        /\ ~MessageMissing(n, t)
        /\ writer_active' = [writer_active EXCEPT ![n] = TRUE]
        /\ undo' = [undo EXCEPT ![n] = UndoOf(n, t)]
        /\ Perform(n, t)
        /\ fate' = [fate EXCEPT ![conn[n]] = "applied"]
        /\ status' = [status EXCEPT ![n] = "performed"]
        /\ UNCHANGED <<conn, state, wrote, damaged, sockVars>>

AcknowledgeCommit(n) ==
    /\ status[n] = "performed"
    /\ SendToMaster(conn[n], "COMMIT_SUCCESS")
    /\ status' = [status EXCEPT ![n] = "AWAITING_SUCCESS_OR_UNDO_BROADCAST"]
    /\ UNCHANGED <<conn, undo, fate, boardVars, backlog, toPeer, masterEnd, peerEnd>>

ReceiveNoop(n) ==
    /\ Awaiting(n)
    /\ PeerGets(conn[n], "SUCCESS_NOOP")
    /\ writer_active' = [writer_active EXCEPT ![n] = FALSE]
    /\ fate' = [fate EXCEPT ![conn[n]] = "kept"]
    /\ CloseConnection(n)
    /\ UNCHANGED <<state, file, message_number, wrote, damaged, toMaster>>

BugReleaseWithoutUndo(n) ==
    /\ writer_active' = [writer_active EXCEPT ![n] = FALSE]
    /\ fate' = [fate EXCEPT ![conn[n]] = "undone"]
    /\ UNCHANGED <<state, file, message_number, wrote, damaged>>

BugUndoWithoutRelease(n) ==
    /\ Undo(n, undo[n])
    /\ fate' = [fate EXCEPT ![conn[n]] = "undone"]
    /\ UNCHANGED <<state, writer_active, wrote, damaged>>

\* undoCommitOperation, then releaseWriteLock.
UndoAndRelease(n) ==
    /\ Undo(n, undo[n])
    /\ writer_active' = [writer_active EXCEPT ![n] = FALSE]
    /\ fate' = [fate EXCEPT ![conn[n]] = "undone"]
    /\ UNCHANGED <<state, wrote, damaged>>

ReceiveUndo(n) ==
    /\ Awaiting(n)
    /\ PeerGets(conn[n], "UNSUCCESS_UNDO")
    /\ UndoAndRelease(n)
    /\ CloseConnection(n)
    /\ UNCHANGED toMaster

BugTimeoutWaitsAgain(n) ==
    /\ status[n] \in {"IDLE", "PRECOMMIT_ACKNOWLEDGED", "AWAITING_SUCCESS_OR_UNDO_BROADCAST"}
    /\ UNCHANGED <<slaveVars, boardVars, sockVars>>

\* recv_nonblock returns recv_nodata (the timeout) or 0 (the master closed).
LoseMaster(n) ==
    /\ status[n] \in {"IDLE", "PRECOMMIT_ACKNOWLEDGED", "AWAITING_SUCCESS_OR_UNDO_BROADCAST"}
    /\ IF Awaiting(n) THEN UndoAndRelease(n) ELSE UNCHANGED <<fate, boardVars>>
    /\ CloseConnection(n)
    /\ UNCHANGED toMaster

\* recv_nonblock returns -1: the connection is closed, and nothing else is done.
MasterError(n) ==
    /\ status[n] \in {"IDLE", "PRECOMMIT_ACKNOWLEDGED", "AWAITING_SUCCESS_OR_UNDO_BROADCAST"}
    /\ PeerGetsError(conn[n])
    /\ CloseConnection(n)
    /\ UNCHANGED <<fate, boardVars, toMaster>>

SyncStep(n) ==
    \/ AcceptMaster(n) \/ ReceivePrecommit(n) \/ ReceiveAbort(n) \/ ReceiveCommit(n)
    \/ RefuseCommit(n) \/ PerformCommit(n) \/ AcknowledgeCommit(n)
    \/ ReceiveNoop(n) \/ ReceiveUndo(n) \/ LoseMaster(n) \/ MasterError(n)
=============================================================================
