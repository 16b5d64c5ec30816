---------------------------- MODULE Synchronization ----------------------------
(***************************************************************************)
(* The two-phase commit of the replicated bulletin board: masters and      *)
(* peers together, several requests at a time, and processes that end      *)
(* (killed, or stopped by a failed assert) and are started again.          *)
(***************************************************************************)
EXTENDS PeerCommunication, SyncServer

CONSTANT Fragile   \* the nodes that may be killed

ASSUME FragileAssumption == Fragile \subseteq Nodes

vars == <<boardVars, sockVars, masterVars, slaveVars>>

Init == BoardInit /\ SocketsInit /\ MasterInit /\ SlaveInit

-----------------------------------------------------------------------------
(* The end of a process: its threads stop where they are, the write lock   *)
(* and the statistics go with its memory, the file stays as it is at that  *)
(* moment.  The kernel closes its sockets, with a reset where data was     *)
(* left unread and for connections that were not yet accepted.             *)

EndOf(unread) == IF unread THEN "reset" ELSE "closed"

ProcessEnds(n, how) ==
    /\ state' = [state EXCEPT ![n] = how]
    /\ writer_active' = [writer_active EXCEPT ![n] = FALSE]
    /\ ctl' = [t \in Txns |-> IF t \in Busy(n) THEN "crashed" ELSE ctl[t]]
    /\ masterEnd' = [th \in Threads |->
                       IF Home[th[1]] = n /\ masterEnd[th] = "open"
                       THEN EndOf(toMaster[th] # <<>>) ELSE masterEnd[th]]
    /\ peerEnd' = [th \in Threads |->
                     IF th[2] = n /\ peerEnd[th] = "open"
                     THEN EndOf(toPeer[th] # <<>> \/ \E i \in DOMAIN backlog[n] : backlog[n][i] = th)
                     ELSE peerEnd[th]]
    /\ toMaster' = [th \in Threads |-> IF Home[th[1]] = n THEN <<>> ELSE toMaster[th]]
    /\ toPeer' = [th \in Threads |-> IF th[2] = n THEN <<>> ELSE toPeer[th]]
    /\ backlog' = [backlog EXCEPT ![n] = <<>>]
    /\ status' = [status EXCEPT ![n] = "accept"]
    /\ conn' = [conn EXCEPT ![n] = NoThread]
    /\ undo' = [undo EXCEPT ![n] = NoUndo]
    /\ UNCHANGED <<message_number, wrote, response, pc, lastSent, asleep, statVars, fate>>

Kill(n) ==
    /\ n \in Fragile
    /\ state[n] = "up"
    /\ ProcessEnds(n, "down")
    /\ UNCHANGED <<file, damaged>>

\* The requests whose operation the process of n is making at this moment: the lock
\* is theirs for the taking.
UnderWay(n) ==
    {t \in Txns :
        /\ ~writer_active[n]
        /\ ~MessageMissing(n, t)
        /\ \/ Home[t] = n /\ ctl[t] = "local"
           \/ Home[t] = n /\ \E th \in ThreadsOf(t) : At(th, "masterOp")
           \/ status[n] = "committing" /\ conn[n][1] = t}

\* The kill falls into a REPLACE, or into the closure that takes one back.
KillInRewriting(n) ==
    /\ n \in Fragile
    /\ state[n] = "up"
    /\ \/ \E t \in UnderWay(n) : Command[t].op = "REPLACE" /\ CutShort(n, Command[t].num, t)
       \/ Awaiting(n) /\ undo[n].kind = "restore" /\ CutShort(n, undo[n].num, undo[n].text)
    /\ ProcessEnds(n, "down")

\* assert(false) in getMessageNumberInfo and obtainLengthOfLineToBeReplaced, and the
\* tokens that getMessageNumberInfo does not find in a damaged line.
Unusable(n, t) == MessageMissing(n, t) \/ Garbled(n, t)

LocalAsserts(t) ==
    /\ ctl[t] = "local"
    /\ ~writer_active[Home[t]]
    /\ Unusable(Home[t], t)
    /\ ProcessEnds(Home[t], "aborted")
    /\ UNCHANGED <<file, damaged>>

MasterAsserts(th) ==
    /\ At(th, "masterOp")
    /\ ~writer_active[Home[th[1]]]
    /\ Unusable(Home[th[1]], th[1])
    /\ ProcessEnds(Home[th[1]], "aborted")
    /\ UNCHANGED <<file, damaged>>

PeerAsserts(n) ==
    /\ status[n] = "committing"
    /\ ~writer_active[n]
    /\ Unusable(n, conn[n][1])
    /\ ProcessEnds(n, "aborted")
    /\ UNCHANGED <<file, damaged>>

BugRestartFromZero(n) ==
    /\ state[n] # "up"
    /\ state' = [state EXCEPT ![n] = "up"]
    /\ message_number' = [message_number EXCEPT ![n] = 0]
    /\ UNCHANGED <<file, writer_active, wrote, damaged, sockVars, masterVars, slaveVars>>

\* setBulletinBoardFile of a new process counts the lines of the file.
Restart(n) ==
    /\ state[n] # "up"
    /\ state' = [state EXCEPT ![n] = "up"]
    /\ message_number' = [message_number EXCEPT ![n] = Len(file[n])]
    /\ UNCHANGED <<file, writer_active, wrote, damaged, sockVars, masterVars, slaveVars>>

-----------------------------------------------------------------------------

Request(t) ==
    /\ Reject(t) \/ StartSynchronization(t) \/ StartLocal(t) \/ LocalFails(t)
    /\ UNCHANGED slaveVars

Controller(t) == \/ ControllerStep(t) /\ UNCHANGED slaveVars
                 \/ LocalAsserts(t)

PeerThread(th) == \/ ThreadStep(th) /\ UNCHANGED slaveVars
                  \/ MasterAsserts(th)

SyncThread(n) == \/ SyncStep(n) /\ UNCHANGED masterVars
                 \/ PeerAsserts(n)

\* Nothing is being synchronized anywhere.
Quiet ==
    /\ \A t \in Txns : ctl[t] \notin {"local", "joining"}
    /\ \A n \in Nodes : status[n] = "accept" /\ backlog[n] = <<>>

Rest == Quiet /\ UNCHANGED vars

Next ==
    \/ \E t \in Txns : Request(t) \/ Controller(t)
    \/ \E th \in Threads : PeerThread(th) \/ (SpuriousWakeup(th) /\ UNCHANGED slaveVars)
    \/ \E n \in Nodes : SyncThread(n) \/ Kill(n) \/ KillInRewriting(n) \/ Restart(n)
    \/ Rest

Spec == Init /\ [][Next]_vars

(***************************************************************************)
(* Fairness: a thread that can run keeps running, and recv_nonblock always *)
(* returns, with its timeout if nothing else.  Clients need not send       *)
(* requests, nobody is obliged to kill or restart a node.                  *)
(***************************************************************************)
FairSpec ==
    /\ Spec
    /\ \A t \in Txns : WF_vars(Controller(t))
    /\ \A th \in Threads : WF_vars(PeerThread(th))
    /\ \A n \in Nodes : WF_vars(SyncThread(n))

-----------------------------------------------------------------------------
(* Properties.                                                             *)

TypeOK ==
    /\ state \in [Nodes -> {"up", "down", "aborted"}]
    /\ file \in [Nodes -> Seq(Lines)]
    /\ message_number \in [Nodes -> Nat]
    /\ writer_active \in [Nodes -> BOOLEAN]
    /\ wrote \in [Txns -> Nat]
    /\ damaged \in [Nodes -> SUBSET Nat]
    /\ backlog \in [Nodes -> Seq(Threads)]
    /\ toPeer \in [Threads -> Seq(MasterMessages)]
    /\ toMaster \in [Threads -> Seq(PeerMessages)]
    /\ masterEnd \in [Threads -> Ends]
    /\ peerEnd \in [Threads -> Ends]
    /\ ctl \in [Txns -> Ctls]
    /\ response \in [Txns -> Responses]
    /\ pc \in [Threads -> PCs]
    /\ lastSent \in [Threads -> MasterMessages \cup {"none"}]
    /\ asleep \subseteq Threads
    /\ precommitPending \in [Txns -> Nat]
    /\ shouldAbort \in [Txns -> BOOLEAN]
    /\ commitPending \in [Txns -> Nat]
    /\ didFail \in [Txns -> BOOLEAN]
    /\ completion \in [Txns -> Completions]
    /\ status \in [Nodes -> Statuses]
    /\ conn \in [Nodes -> Threads \cup {NoThread}]
    /\ undo \in [Nodes -> Undos]
    /\ fate \in [Threads -> Fates]

\* The messages that follow a decision to commit.
AfterCommit == {"COMMIT", "SUCCESS_NOOP", "UNSUCCESS_UNDO"}

\* The threads of one request never decide differently: no peer is told ABORT
\* while another is told COMMIT, none SUCCESS_NOOP while another is told
\* UNSUCCESS_UNDO.  Code: each thread reads the shared flags by itself, without
\* the mutex (peer-communication.cpp, Decide and SendFinal).
DecisionsAgree ==
    \A t \in Txns : \A a, b \in ThreadsOf(t) :
        /\ ~(lastSent[a] = "ABORT" /\ lastSent[b] \in AfterCommit)
        /\ ~(lastSent[a] = "SUCCESS_NOOP" /\ lastSent[b] = "UNSUCCESS_UNDO")

\* No step changes a flag under a thread that is about to read it unlocked.
SettledFlagsStay ==
    \A th \in Threads :
        /\ pc[th] = "decide" => shouldAbort'[th[1]] = shouldAbort[th[1]]
        /\ pc[th] \in {"finalize", "sendFinal"} => didFail'[th[1]] = didFail[th[1]]
        /\ pc[th] = "sendFinal" => completion'[th[1]] = completion[th[1]]

\* "It's not illegal as no thread will modify it any further": from the moment
\* a thread is past the wait, the flag it reads without the mutex is final.
FlagsSettled == [][SettledFlagsStay]_vars

\* No wakeup of peerCommunicationCondition is lost: a thread left asleep still
\* has something to wait for.  Code: the broadcasts on the last acknowledgement
\* and on the first failure.
NoLostWakeup ==
    \A th \in asleep : ctl[th[1]] = "joining" =>
        /\ pc[th] = "waitReady" => precommitPending[th[1]] > 0 /\ ~shouldAbort[th[1]]
        /\ pc[th] = "waitSuccess" => commitPending[th[1]] > 0 /\ ~didFail[th[1]]

\* Where a thread is that has yet to count its acknowledgement, or to report the
\* failure, that one at l waits for.
Reporting(l) ==
    IF l = "waitReady"
    THEN {"created", "connected", "PRECOMMIT_SENT", "gotReady", "notifyAbort"}
    ELSE {"waitReady", "decide", "COMMIT_SENT", "gotSuccess", "notifyUndo"}

\* The threads of a request never all wait for each other: while one sleeps,
\* another is awake and has yet to report.  The only one that leaves without a
\* report is one whose recv returned -1, from a peer that ended with data unread.
\* Code: every exit of communicateWithPeer (peer-communication.cpp), which owes
\* the others a decrement or a notification.
NobodyForgotten ==
    \A th \in asleep : ctl[th[1]] = "joining" =>
        \E o \in ThreadsOf(th[1]) \ asleep :
            pc[o] \in Reporting(pc[th]) \/ (pc[o] \in {"close", "done"} /\ peerEnd[o] = "reset")

\* Both automata follow each other: whatever arrives at the head of a
\* connection is a message its receiver handles in its current status, so the
\* branch for invalid commands is never taken.
MessagesExpected ==
    /\ \A n \in Nodes : conn[n] # NoThread /\ toPeer[conn[n]] # <<>> =>
         Head(toPeer[conn[n]]) \in
             CASE status[n] = "IDLE" -> {"PRECOMMIT"}
               [] status[n] = "PRECOMMIT_ACKNOWLEDGED" -> {"ABORT", "COMMIT"}
               [] Awaiting(n) -> {"SUCCESS_NOOP", "UNSUCCESS_UNDO"}
               [] OTHER -> {}
    /\ \A th \in Threads : toMaster[th] # <<>> /\ ctl[th[1]] = "joining" =>
         Head(toMaster[th]) \in
             CASE pc[th] = "PRECOMMIT_SENT" -> {"READY"}
               [] pc[th] = "COMMIT_SENT" -> {"COMMIT_SUCCESS", "COMMIT_UNSUCCESS"}
               [] OTHER -> PeerMessages

TextIn(n, t) == \E i \in DOMAIN file[n] : file[n][i].text = t

\* The synchronization thread of n is between an operation and its final message.
Holding(n) == status[n] = "performed" \/ Awaiting(n)

\* An operation that is not final is hidden: text of a request is in a node's
\* file only if the master has performed the request (for its own file), the
\* peer was told to keep it, or the peer's synchronization thread still holds
\* the write lock for it.  So a request answered with an error leaves nothing
\* a client could read.
UncommittedStaysLocked ==
    \A n \in Nodes, t \in Txns : TextIn(n, t) =>
        \/ Home[t] = n /\ (completion[t] = "WROTE" \/ response[t] = "WROTE")
        \/ <<t, n>> \in Threads /\ fate[<<t, n>>] = "kept" /\ completion[t] = "WROTE"
        \/ writer_active[n] /\ Holding(n) /\ conn[n] = <<t, n>>

\* Between operations the write lock is held exactly while the synchronization
\* thread has performed an operation and not yet learnt what becomes of it: no
\* path through handle_sync_server_client leaves the lock behind.
LockOwned == \A n \in Nodes : writer_active[n] <=> Holding(n)

\* The lock outlives its request in one case only: the process of the master
\* ended with the acknowledgement unread, and the peer got the reset.  Code: the
\* exit of the receive loop on -1, which neither undoes nor releases
\* (sync-server.cpp), against every other exit, killed processes included.
LockOwnedOrReset ==
    \A n \in Nodes : writer_active[n] /\ ~Holding(n) =>
        \E th \in Threads : th[2] = n /\ fate[th] = "applied" /\ masterEnd[th] = "reset"

\* The line at position i of n was not hit by a rewriting cut short.
Intact(n, i) == i \in DOMAIN file[n] \ damaged[n]

\* On a running node message_number counts the lines, of a damaged file too, and
\* every line carries the number of its position unless a kill in the middle of a
\* REPLACE hit it: the lines before the one being replaced, and all that are
\* written after the restart, keep their numbers.  Code: message_number is taken
\* back by undo closures and counted anew by setBulletinBoardFile.
NumbersExact ==
    \A n \in Nodes :
        /\ state[n] = "up" => message_number[n] = Len(file[n])
        /\ \A i \in DOMAIN file[n] : Intact(n, i) => file[n][i].number = i - 1

\* A WRITE is stored once, although every thread of the request gets to the
\* point where the operation is performed; the copies a REPLACE cut short makes of
\* lines it was moving are in damaged lines.
WrittenOnce ==
    \A n \in Nodes, t \in Txns : Command[t].op = "WRITE" =>
        Cardinality({i \in DOMAIN file[n] : Intact(n, i) /\ file[n][i].text = t}) <= 1

\* A WRITE that was answered WROTE is never lost at its master, whatever other
\* requests do to the same file, their undo closures (which cut the file to an
\* earlier length) included: the line with the number of the answer is there, and
\* it has the text of the WRITE or of a REPLACE of that very line, unless a kill in
\* the middle of a REPLACE damaged it.
AnsweredWriteStays ==
    \A t \in Txns : Command[t].op = "WRITE" /\ response[t] = "WROTE" =>
        LET n == Home[t]
            i == wrote[t] + 1
        IN  /\ i \in DOMAIN file[n]
            /\ Intact(n, i) =>
                 \/ file[n][i].text = t
                 \/ \E r \in Txns : /\ file[n][i].text = r
                                    /\ Command[r] = [op |-> "REPLACE", num |-> wrote[t]]

\* The anomaly protocol2pc.txt admits: a peer gave up waiting and took back
\* an operation the master has performed.
LateUndo == \E th \in Threads : fate[th] = "undone" /\ completion[th[1]] = "WROTE"

\* Once everything has come to rest all replicas are equal, line by line and
\* whichever masters the requests went through, unless there was a late undo.
ReplicasAgree ==
    Quiet /\ ~LateUndo => \A m, n \in Nodes : file[m] = file[n]

\* assert(false) is not reached: "Should Never happen."
NoAssertionFails == \A n \in Nodes : state[n] # "aborted"

\* A request that started is answered.
EveryRequestAnswered ==
    \A t \in Txns : ctl[t] \in {"local", "joining"} ~> ctl[t] \in {"done", "crashed"}

\* A synchronization thread always comes back to accept the next master, and
\* then holds no lock.
PeersBecomeFree ==
    \A n \in Nodes : []<>(status[n] = "accept" /\ ~writer_active[n])

\* The abstract protocol this one implements.
CP == INSTANCE CommitProtocol WITH outcome <- completion

ImplementsCommitProtocol == CP!Spec
=============================================================================
