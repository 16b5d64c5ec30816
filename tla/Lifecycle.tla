------------------------------ MODULE Lifecycle ------------------------------
(***************************************************************************)
(* The signals of the server process: super_sighup_handler and             *)
(* super_sigquit_handler (main.cpp) end every thread with pthread_cancel   *)
(* and pthread_join, and SIGHUP starts new ones.  Beside the board threads *)
(* of module BoardServer there is the synchronization thread, reduced to   *)
(* when it holds the write lock and when it can be cancelled (SyncServer   *)
(* has its protocol; masters that die are the subject of Synchronization). *)
(* The handler runs in the main thread, which does nothing else.           *)
(***************************************************************************)
EXTENDS BoardServer

CONSTANT BindMayFail   \* passivesocket may fail when the server is restarted

ASSUME BindAssumption == BindMayFail \in BOOLEAN

VARIABLES
    syncListening,   \* the master socket of the synchronization server
    handler,   \* what is left of the handler that runs; <<>>: main sleeps
    joining    \* the thread pthread_join waits for, as a set of at most one

mainVars == <<syncListening, handler, joining>>
vars == <<listening, pc, cancelable, cancelled, sessionVars, lockVars, left, mainVars>>

Init ==
    /\ \E started \in SUBSET Threads : started # {} /\ BoardInit(started)
    /\ syncListening = TRUE
    /\ handler = <<>>
    /\ joining = {}

-----------------------------------------------------------------------------
(* The synchronization thread: accept, recv_nonblock before and after the  *)
(* COMMIT, and the operation, which alone runs with cancellation disabled. *)

SyncGoto(place, state) ==
    /\ Goto(Sync, place)
    /\ SetCancelState(Sync, state)
    /\ UNCHANGED <<listening, cancelled, sessionVars, mainVars>>

SyncAccepts ==
    /\ pc[Sync] = "accept" /\ syncListening
    /\ Spend("commits")
    /\ SyncGoto("recv", TRUE)
    /\ UNCHANGED lockVars

\* As in the board server, the thread returns.
SyncAcceptFails ==
    /\ pc[Sync] = "accept" /\ ~syncListening
    /\ SyncGoto("exited", cancelable[Sync])
    /\ UNCHANGED <<lockVars, left>>

\* ABORT, a timeout or the end of the connection before COMMIT, or access() fails.
SyncEnds ==
    /\ pc[Sync] = "recv"
    /\ SyncGoto("accept", TRUE)
    /\ UNCHANGED <<lockVars, left>>

ReceiveCommit ==
    /\ pc[Sync] = "recv"
    /\ SyncGoto("waiting", FALSE)
    /\ UNCHANGED <<lockVars, left>>

\* The operation is performed and acknowledged, the lock stays.
PerformCommit ==
    /\ pc[Sync] = "waiting"
    /\ Lock!EnterWrite(Sync)
    /\ SyncGoto("AWAITING", TRUE)
    /\ UNCHANGED left

\* SUCCESS_NOOP or UNSUCCESS_UNDO: all with cancellation disabled.
ReceiveFinal ==
    /\ pc[Sync] = "AWAITING"
    /\ Lock!LeaveWrite(Sync)
    /\ SyncGoto("accept", TRUE)
    /\ UNCHANGED left

\* The timeout, and the end of the loop with it: the undo has not run yet.
LoseMaster ==
    /\ pc[Sync] = "AWAITING"
    /\ SyncGoto("undoing", cancelable[Sync])
    /\ UNCHANGED <<lockVars, left>>

UndoAndRelease ==
    /\ pc[Sync] = "undoing"
    /\ Lock!LeaveWrite(Sync)
    /\ SyncGoto("accept", TRUE)
    /\ UNCHANGED left

\* cleanup_handler closes the socket; nothing releases the lock.
SyncActsOnCancel ==
    /\ cancelled[Sync] /\ cancelable[Sync]
    /\ pc[Sync] \in {"accept", "recv", "AWAITING", "undoing"}
    /\ SyncGoto("exited", cancelable[Sync])
    /\ UNCHANGED <<lockVars, left>>

\* recv_nonblock returns in seven seconds at most, so a session always goes on.
SyncStep ==
    \/ SyncAcceptFails \/ SyncEnds \/ ReceiveCommit \/ PerformCommit \/ ReceiveFinal
    \/ LoseMaster \/ UndoAndRelease \/ SyncActsOnCancel

-----------------------------------------------------------------------------
(* The handlers, as the sequence of the calls they make.                   *)

BugSyncFirst ==
    <<"killSync", "closeSync", "killBoard", "closeBoard", "startBoard", "startSync">>

super_sighup_handler ==
    <<"killBoard", "closeBoard", "killSync", "closeSync", "startBoard", "startSync">>

super_sigquit_handler == <<"killBoard", "closeBoard", "killSync", "closeSync", "exit">>

Signal ==
    /\ handler = <<>>
    /\ Spend("signals")
    /\ handler' \in {super_sighup_handler, super_sigquit_handler}
    /\ UNCHANGED <<listening, syncListening, pc, cancelable, cancelled, sessionVars, lockVars,
                   joining>>

ThreadsOf(call) ==
    {th \in CASE call = "killBoard" -> Threads
              [] call = "killSync" -> {Sync}
              [] OTHER -> {} : pc[th] # "none"}

NextCall == handler' = Tail(handler)

\* killThreads, for one thread: pthread_cancel, and then pthread_join.
KillThread ==
    /\ handler # <<>> /\ joining = {}
    /\ \E th \in ThreadsOf(Head(handler)) :
          /\ cancelled' = [cancelled EXCEPT ![th] = TRUE]
          /\ joining' = {th}
    /\ UNCHANGED <<listening, syncListening, pc, cancelable, sessionVars, lockVars, left, handler>>

JoinThread ==
    /\ \E th \in joining : pc[th] = "exited" /\ Goto(th, "none")
    /\ joining' = {}
    /\ UNCHANGED <<listening, syncListening, cancelable, cancelled, sessionVars, lockVars, left,
                   handler>>

\* The loop over the threads ends, and the vector is cleared.
AllKilled ==
    /\ handler # <<>> /\ joining = {}
    /\ Head(handler) \in {"killBoard", "killSync"} /\ ThreadsOf(Head(handler)) = {}
    /\ NextCall
    /\ UNCHANGED <<listening, syncListening, pc, cancelable, cancelled, sessionVars, lockVars,
                   left, joining>>

CloseMasterSocket ==
    /\ handler # <<>> /\ Head(handler) \in {"closeBoard", "closeSync"}
    /\ listening' = (listening /\ Head(handler) # "closeBoard")
    /\ syncListening' = (syncListening /\ Head(handler) # "closeSync")
    /\ NextCall
    /\ UNCHANGED <<pc, cancelable, cancelled, sessionVars, lockVars, left, joining>>

\* A new thread, with a stack and a cancel state of its own.
createThreads(started) ==
    /\ pc' = [th \in DOMAIN pc |-> IF th \in started THEN "accept" ELSE pc[th]]
    /\ cancelable' = [th \in DOMAIN pc |-> cancelable[th] \/ th \in started]
    /\ cancelled' = [th \in DOMAIN pc |-> cancelled[th] /\ th \notin started]

passivesocket == {TRUE} \cup {~BindMayFail}

\* The configuration is read again, the socket is bound, THMAX threads are created.
startBulletinBoardServer ==
    /\ handler # <<>> /\ Head(handler) = "startBoard"
    /\ \E started \in SUBSET Threads : started # {} /\ createThreads(started)
    /\ listening' \in passivesocket
    /\ NextCall
    /\ UNCHANGED <<syncListening, sessionVars, lockVars, left, joining>>

startSyncServer ==
    /\ handler # <<>> /\ Head(handler) = "startSync"
    /\ createThreads({Sync})
    /\ syncListening' \in passivesocket
    /\ NextCall
    /\ UNCHANGED <<listening, sessionVars, lockVars, left, joining>>

MainStep ==
    \/ KillThread \/ JoinThread \/ AllKilled \/ CloseMasterSocket
    \/ startBulletinBoardServer \/ startSyncServer

-----------------------------------------------------------------------------

Next ==
    \/ \E th \in Threads : (BoardStep(th) \/ ClientStep(th)) /\ UNCHANGED mainVars
    \/ SyncAccepts
    \/ SyncStep
    \/ Signal
    \/ MainStep

Spec == Init /\ [][Next]_vars

(***************************************************************************)
(* Fairness: every thread of the process keeps running, and acts on a      *)
(* cancellation.  Clients, masters and signals owe nothing: a client may   *)
(* stay silent for ever.                                                   *)
(***************************************************************************)
FairSpec ==
    /\ Spec
    /\ \A th \in Threads : WF_vars(BoardStep(th) /\ UNCHANGED mainVars)
    /\ WF_vars(SyncStep)
    /\ WF_vars(MainStep)

-----------------------------------------------------------------------------
(* Properties.                                                             *)

\* A command that was received is not cut short by a signal: its thread never
\* ends before the command is answered.  Code: the calls of
\* pthread_setcancelstate in handle_bulletin_board_client, at every place a
\* command can be.
CommandsNotCutShort ==
    [][\A th \in Threads :
          pc[th] \in {"busy", "waiting", "reading", "writing"} => pc'[th] # "exited"]_vars

\* No client socket outlives its session, however it ends: by QUIT, by the
\* client, by cancellation in any place.  Code: close in the loop, and
\* cleanup_handler.
SocketsOwned == \A th \in Threads : socket[th] <=> pc[th] \in InSession

\* A REPLACE of this thread's client was rejected, and the client stays silent:
\* the thread is in read with cancellation disabled.
Deaf(th) == pc[th] = "read" /\ ~cancelable[th] /\ inbox[th] = <<>> /\ clientEnd[th] = "open"

\* The synchronization thread was cancelled between its operation and the final
\* message, and the lock it held stays taken: a counter nobody will decrease.
LockLeft == Sync \in writers /\ pc[Sync] \notin {"AWAITING", "undoing"}

FirstSignal == left["signals"] + 1 = Budget["signals"]

\* This thread waits for that lock, and cannot be cancelled.
Stuck(th) == pc[th] = "waiting" /\ LockLeft /\ ~FirstSignal

\* A signal is dealt with: the handler runs to its end, unless it joins a thread
\* whose client was refused a REPLACE and says nothing more, or, once an earlier
\* signal has left the lock taken, a thread that waits for the lock and cannot be
\* cancelled.  Code: killThreads joins every board thread while the synchronization
\* thread, whose lock a board thread may wait for, still runs; the continue after a
\* rejected REPLACE, past the call that enables cancellation (board-server.cpp); and
\* cancellation enabled while the lock is held (sync-server.cpp).
SignalHandled ==
    handler # <<>> ~> \/ handler \in {<<>>, <<"exit">>}
                      \/ \E th \in joining : Deaf(th) \/ Stuck(th)

\* Who holds the lock of the file is a thread in a place where it will release it;
\* only the synchronization thread can leave it behind, when a signal cancels
\* it between its operation and the final message.  Code: the cancel states
\* around acquireWriteLock and releaseWriteLock in both servers.
LockHeldByThread ==
    \A th \in readers \cup writers :
        \/ pc[th] \in {"reading", "writing", "AWAITING", "undoing"}
        \/ th = Sync /\ left["signals"] < Budget["signals"]
=============================================================================
