# A verification of the replicated bulletin board

`bbserv` is a bulletin board server. Clients connect to a node and READ, WRITE or
REPLACE numbered messages; a node that has peers makes every WRITE and REPLACE on
all of them with a two-phase commit, in which the node that received the request
is the master. This directory holds TLA+ modules for the parts of the server where
threads, nodes and failures meet, the TLC runs that check them, and TLAPS proofs.

1. Inventory of the system
2. The modules, and how they correspond to the code
3. The runs
4. Fairness
5. The proofs
6. What the checks found
7. Bounds, abstractions and what is not modelled
8. Plan

## 1. Inventory of the system

| part | state | operations |
|---|---|---|
| board server, `board-server.cpp` | `peersList`, `tmax`, one session per thread (`user`, `req`, `residue`), the cancel state of the thread | accept, USER, READ, WRITE, REPLACE, QUIT; for WRITE and REPLACE validate, then perform locally or start one thread per peer and join them |
| master side, `peer-communication.cpp` | `threadIdStatsMapping`: one `PeerCommunicationStatistics` per request; `peerCommunicationMutex`, `peerCommunicationCondition` | `communicateWithPeer`: connect, PRECOMMIT, wait for all READY, COMMIT or ABORT, wait for all COMMIT_SUCCESS, the master's own operation, SUCCESS_NOOP or UNSUCCESS_UNDO |
| synchronization server, `sync-server.cpp` | one thread; `currentStatus`, `undoCommitOperation` per connection | accept, PRECOMMIT, ABORT, COMMIT, SUCCESS_NOOP, UNSUCCESS_UNDO, timeout, close, error |
| file operations, `file-operations.cpp` | the board file, `message_number`, `AccessData` with `mut` and `cond` | `acquireWriteLock`, `releaseWriteLock`, `readMessageFromFile`, `writeOperation`, `replaceOperation`, their undo closures, `setBulletinBoardFile` |
| sockets, `tcp-utils.cpp` | kernel state of the connections | `connectbyport`, `recv_nonblock`, `readlineFromSocket` |
| lifecycle, `main.cpp`, `utilities.cpp` | thread lists, master sockets, pid file | start, SIGHUP (cancel all threads, read the configuration again, start them), SIGQUIT |
| configuration, `main.cpp`, `utilities.cpp` | the settings (THMAX, BBPORT, SYNCPORT, BBFILE, DEBUG, PEERS) | defaults, file and command line at the start; the file again, in four reads, on SIGHUP |
| text helpers, `utilities.cpp`; `logger.cpp` | debug preference | parsing, formatting, printing |

How they interact. A board thread (the *controller* of a request) creates the
`communicateWithPeer` threads and joins them; these share the statistics of the
request, one mutex and one condition variable with the threads of *all* requests of
the node. Each talks over its own TCP connection to the single synchronization
thread of one peer. Both sides call the file operations, so board threads,
`communicateWithPeer` threads and the synchronization thread of a node meet at the
readers/writer lock. The synchronization thread keeps that lock over several
messages: from its operation until the master's final word. A signal handler runs in the
main thread and ends all other threads, with `pthread_cancel` and `pthread_join`, wherever
they are; the servers disable cancellation while a command or an operation is executed.

What is hard, and the properties that answer it:

* The threads of a request decide one by one from shared flags, two of which are read
  without the mutex: `DecisionsAgree`, `FlagsSettled`.
* A condition variable is shared by everybody, and signals sent before the wait are
  lost: `NoLostWakeup` (of both modules that have one), `EveryRequestAnswered`.
* The threads of a request wait for each other's counts, so every exit of a thread, whatever
  its reason, owes them a count or a notification: `NobodyForgotten`.
* A lock is held across the network, and another is awaited with a mutex held, so
  two masters can wait for each other: `EveryRequestAnswered`, `PeersBecomeFree`.
* Timeouts on both sides race the late answer; the peer undoes an operation by
  cutting the file: `AnsweredWriteStays`, `ReplicasAgree`, `UncommittedStaysLocked`,
  `NumbersExact`.
* Connections are refused, files become inaccessible, processes die and return:
  `LockOwned`, `LockOwnedOrReset`, `MessagesExpected`, `ImplementsCommitProtocol`, `NoAssertionFails`.
* Threads are cancelled in the middle of a session, with sockets and perhaps locks in hand,
  and joined while they wait for each other: `CommandsNotCutShort`, `SocketsOwned`,
  `LockHeldByThread`, `SignalHandled`.
* What is tested before a lock is awaited is used after it (message numbers, permissions), and
  nobody looks at the results of `open`, `write` and `truncate`: `ReadsFinal`, `ReadAnswersFinal`,
  `WroteIsWritten`, `FinalStays`.
* A file is rewritten in place, byte by byte, by two descriptors: `LineReplaced`, `StepsBounded`; and a
  kill may stop it anywhere: `NothingLost`, `NumbersExact`, `AnsweredWriteStays`, `WrittenOnce`.
* Lines arrive in arbitrary segments and the reader reads ahead: `CommandsAsSent`.
* The configuration is read by two functions with different rules: `ReloadIsRestart`.

`PROJECT.json` lists the hazards one by one with their lines in the source, those that
no property covers yet included.

## 2. The modules, and how they correspond to the code

    FileLock  <--implements--  AccessControl  <--  AccessControlProofs
                                              <--  MCAccessControl

    BulletinBoard <-- Sockets <-- PeerCommunication <--+
                              <-- SyncServer        <--+-- Synchronization <-- MCSynchronization
    CommitProtocol  <--implements----------------------+        |
                                                                +-- SynchronizationProofs <-- BoardProofs

    FileLock  <--instance--  BoardServer <-- Lifecycle <-- MCLifecycle, LifecycleProofs
    FileLock  <--instance--  FileOperations <-- MCFileOperations, FileOperationsProofs
    ReplaceAlgorithm <-- MCReplaceAlgorithm, ReplaceAlgorithmProofs
    ReadLine         <-- ReadLineProofs
    Configuration    <-- ConfigurationProofs

(`A <-- B`: B extends A.)

**AccessControl** is the readers/writer lock: the three fields of `AccessData`, the set
`asleep` of threads in `pthread_cond_wait(&cond, &mut)`, and `pc`. Since all accesses are
made with `mut` held, each region between lock and unlock-or-wait is one action:
`RequestWrite` and `RetryWrite` (the loop of `acquireWriteLock` before and after a wakeup),
`releaseWriteLock`, `RequestRead`, `RetryRead`, `FinishRead` (the regions of
`readMessageFromFile`), and `SpuriousWakeup`, which POSIX allows. **FileLock** is what
callers rely on: enter and leave in one step. It justifies the single flag
`writer_active[n]` the other modules use for the write lock.

**BulletinBoard** has the nodes, the requests, and per node `state`, `file`, `message_number` and `writer_active`; it
defines `writeOperation`, `optimalReplaceAlgorithm`, the undo closures (as records: cut the file to a length, or
restore a line), and the two validity tests, which differ: `ArgumentsValid` is about `message_number`,
`MessageMissing` about the file. `optimalReplaceAlgorithm` is one step with respect to the other threads, which the
lock keeps out, but not with respect to a kill: `CutShort` gives the files a rewriting that was stopped can leave.
These are the lines before the one replaced, the old line or the new one, and the rest of the file in two overlapping
parts with a piece of a line (`Torn`) between them or without; `NothingLost` of `ReplaceAlgorithm` is the same
statement for bytes. `damaged` records which lines may have been hit, `wrote` the number each WRITE was answered.

**Sockets** has the connections. A `communicateWithPeer` thread is named by the pair
`<<t, p>>` of request and peer, and owns one connection, so the pair names the connection
too. Data is delivered in order, sends to an end that is gone are lost (nobody looks at
the result of `send`), `recv_nonblock` returns a message, its timeout, 0 after a close,
or -1 after a reset. A reset happens only when a process ends with data unread or with
connections not yet accepted; an orderly `shutdown` shows as 0.

**PeerCommunication** is the master: actions on requests `t` for the controller, and on
threads `th` for `communicateWithPeer`. The value of `pc[th]` in capitals is the
`currentStatus` of the code while it is in `recv_nonblock`; the others are the points
between its regions. `peerCommunicationMutex` is visible only where its holder blocks,
that is during the master's operation: `MutexFree`. The statistics of `t` are
`precommitPending`, `shouldAbort`, `commitPending`, `didFail` and `completion` (the
completion message: empty, WROTE or ERROR). `lastSent` records messages for the properties.

**SyncServer** is the peer: `status[n]` is `currentStatus` with three more values for
the places outside `recv_nonblock` (`accept`, `committing`: waiting for the write lock,
`performed`: before the acknowledgement is sent), `conn[n]` the connection, `undo[n]` the closure.
`fate` records what became of an operation, for the properties and the refinement.

**Synchronization** composes them and adds the end of a process (`Kill` between two steps, `KillInRewriting` in
the middle of a REPLACE or of the closure that takes one back, or a failed `assert`)
and its restart, which counts the lines of the file anew. A REPLACE of a torn line, which need not have the
tokens that `getMessageNumberInfo` indexes, ends the process or goes on (`Garbled`). All properties of the commit are here.
**CommitProtocol** is the abstract specification: peers apply, keep or undo, the master
acts once and only after all peers have applied, a peer keeps only what the master
has performed. It allows a peer to undo after the master's success, because the program
does (`protocol2pc.txt`, flow 6, describes it).

**BoardServer** is the session loop of `handle_bulletin_board_client` for every board thread. `pc` says
where a thread is (`accept`, `read`: in `readlineFromSocket`, `busy`: a command is in `req`, `waiting` for the lock of
the file, `reading`, `writing`, `closing`, `exited`, `none`), `cancelable` is its cancel state, `cancelled` whether
`pthread_cancel` was called. Each result of `readlineFromSocket` has an action: `ReceiveCommand`,
`ReceiveEof`, and `ReceiveError`, which goes on with the old `req`. `Reject` is the `continue` after a REPLACE that is
turned down; `ActOnCancel` ends the thread with `cleanup_handler`. The lock is an instance of `FileLock`.

**Lifecycle** adds the signals. `super_sighup_handler` and `super_sigquit_handler` are the sequences of calls the two
functions make, and `handler` is what is left of the one that runs: `KillThread` and `JoinThread` are the loop of
`killThreads`, `CloseMasterSocket`, `startBulletinBoardServer` and `startSyncServer` the other calls; either port may
fail to be bound again. The synchronization thread is here too, reduced to where it can be cancelled and where it
holds the lock.

**FileOperations** is one node with READ, WRITE and REPLACE by board threads and by the synchronization thread. Each
operation is `Start` (a board thread validates the number; for the synchronization thread the master has, against its own
`message_number`, so any number may come), `Access`, the wait for the lock, and the operation with the lock held. A text is the
sequence of parts into which '/' divides it, which is all `getMessageNumberInfo` sees of it; `undo` is the closure;
`board` records the lines of final operations.

**ReplaceAlgorithm** is `optimalReplaceAlgorithm` byte for byte: `SkipLine` and `FindLine` are the loop of
`obtainLengthOfLineToBeReplaced`, whose `readline` stops at the end of a line, of the file or of its buffer
(`StopsAt`); then `Overwrite` (equal lengths), `StartBackward`, `Backward`, `Truncate` (shorter) or `StartForward`,
`Forward`, `PutLine` (longer). `reader` and `writer` are the offsets of the two descriptors. `ReplacedAt` is the
reference definition. The files may have lines longer than the buffer, because the program stores them: REPLACE has a
buffer of 4096 bytes (`file-operations.cpp:219`), and a WRITE after a cut line makes one line of two. The new line is
always complete: a command has at most 255 bytes (`board-server.cpp:63`).

**ReadLine** is `readlineFromSocket` with its `residue`: one action per byte read, and `Arrive` for the network.
`Split` is the reference: the lines a client has sent.

**Configuration** is the start (`main`) and the reload (`super_sighup_handler`) of the settings. The action `Edit`
changes the file at any time, between the four reads of a reload too. `Started` is what `main` makes of a file and the
command line.

Definitions named `Bug...` are faulty variants of the definition that follows them. They are
used by no specification; `PROJECT.json` says which property each of them breaks, which
shows that the property depends on that piece of the code.

## 3. The runs

| run | instance | asks |
|---|---|---|
| `access_control` | 4 threads | exclusion, exact counters, no lost wakeup, both liveness properties, the refinement of FileLock. Four threads allow a reader inside, one queued, and two writers at once |
| `one_request` | 3 nodes, one WRITE on n1, which has all three as peers (bbserv.conf names the node itself, too); `access()` may fail at n1 and n2 | all interleavings of three threads of a request with refused connections, timeouts and failures, and the lock cycle within a process: decisions, types, the lock, every way a thread can end against the ones that wait for it, the answer to the client, the refinement of CommitProtocol |
| `two_masters` | 2 nodes, a WRITE through n1, a WRITE and a REPLACE of line 0 through n2, a file of one line, `access()` may fail at n1 | the cross-node lock cycle; equal replicas in one order; hidden operations; undo against other writers |
| `shared_master` | 3 nodes, 2 WRITEs on n1 at once (four threads), symmetric | wakeups, the single operation and the replicas of requests that share the mutex and the condition variable |
| `crash` | 3 nodes: n1 and n2 are peers of each other, n3 is a replica of n1 without peers, where `access()` may fail; a WRITE on n1, REPLACEs on n2 and n3; n1 may be killed, also while it rewrites its file, and restarted; empty files | settled flags, numbers and answered WRITEs over restarts and in damaged files, the two automata, the lock, the refinement; the local path of the board server against the synchronized one; all three asserts |
| `lifecycle` | 2 board threads and the synchronization thread, 2 sessions, one command (a client that resets the connection causes more, since `req` is executed again), two commits, two signals; 1.1 million states | cancellation and joins at every point of a session and of a commit, and a second signal after what the first has left |
| `operations` | 2 board threads (symmetric) and the synchronization thread, 4 requests, texts with and without '/', permissions that change; 6.8 million states | what readers see, what is answered, what an undo may cut |
| `replace_algorithm` | files of 1 to 6 bytes of two letters and newlines, new lines of 2 to 5 bytes, `readline` returns at most 4 | the bytewise replace against the reference, what it leaves when it is stopped, and a bound on its steps |
| `read_line` | inputs up to 6 bytes of two letters, CR and LF; lines of at most 3 bytes; every segmentation | commands against the reference |
| `configuration` | files of up to 2 lines, one option, one edit, two values | reload against a start with the same file and command line |
| `peer_killed`, `dirty_replace` | small instances | expected violations, section 6 |

The properties, in the order of their importance:

* `DecisionsAgree`: within a request no peer is sent ABORT while another is sent COMMIT or
  a later message, and none SUCCESS_NOOP while another is sent UNSUCCESS_UNDO.
* `FlagsSettled`: when a thread is at one of the unlocked reads, no step changes what it reads.
* `UncommittedStaysLocked`: text of a request is in a file only if it is final there or the
  synchronization thread holds the write lock for it, so nobody reads what may be undone.
* `LockOwned`: the lock is held exactly between a peer's operation and its final step.
* `NumbersExact`, `WrittenOnce`, `AnsweredWriteStays`: what clients rely on. The last is about the very line whose
  number was answered: it is there, with the text of the WRITE or of a REPLACE of that line. All three except the
  contents of lines that a REPLACE cut short may have hit (`Intact`), and nothing else: the lines before it and those
  written after the restart are covered.
* `ReplicasAgree`: at rest all files are equal, if no peer has undone what the master performed.
* `MessagesExpected`: the branch "Invalid Command received from Peer" is dead code.
* `NobodyForgotten`: while a thread of a request sleeps, another one of the request is awake and has yet to count down or to
  notify. The exception is a thread that has left after recv returned -1, which is
  the behaviour `peer_killed` shows; without killed processes (`one_request`) there is none, and the theorem covers both.
* `LockOwnedOrReset`: under kills, the one way in which a lock outlives its request.
* `EveryRequestAnswered`, `PeersBecomeFree`: nothing waits for ever.
* `SignalHandled`: SIGHUP and SIGQUIT end, although `killThreads` joins threads that may wait for a lock another
  thread holds; the two exceptions are a thread left uncancelable, and, from the second signal on, one that waits for
  a lock the first has left behind (section 6).
* `CommandsNotCutShort`, `LockHeldByThread`, `SocketsOwned`: what cancellation must not do.
* `ReadsFinal`, `ReadAnswersFinal`, `WroteIsWritten`, `FinalStays`: what clients of one node see, and what a failed
  `open` or `truncate` must not destroy. Each names its exceptions, which are behaviours of the code (section 6).
* `LineReplaced`, `CommandsAsSent`, `ReloadIsRestart`: algorithms against reference definitions.
* `NothingLost`: at every moment of the replace algorithm the bytes before the line are in place, the old or the new
  line is whole, and every byte behind it is in its old or in its new place.
* `StepsBounded`: every step of the replace algorithm makes a natural number smaller. With the run's check for
  deadlock, which `Return` makes one of the algorithm alone, the loops end. The file grows under the loop of the third case, which therefore must end by offset, not at the end of the
  file.

`LockOwned`, `UncommittedStaysLocked` and `EveryRequestAnswered` are checked without killed
processes; with them the first and the last fail (section 6), and the other fails
since the file of a killed node keeps an operation nobody undoes. `ReplicasAgree` is likewise
for runs without crashes.

`lifecycle`, `operations`, `read_line` and `configuration` do not check for deadlock: their
clients, requests, inputs and edits run out. That nothing hangs is the subject of `SignalHandled`.

## 4. Fairness

`FairSpec` assumes weak fairness of every thread's own steps: the kernel schedules runnable
threads, and `recv_nonblock` returns after at most seven seconds, so a thread in it always
has a step. Nothing is assumed of clients, of kills and restarts, of spurious wakeups, or of who wins
a race: a message that has arrived may still be missed by the timeout, every time. Waiting for
a lock is only weakly fair: a thread may be overtaken as long as the lock is taken
again and again; with finitely many requests that ends. In `AccessControl` a request to enter is
never obligatory, but a thread inside leaves.

In `Lifecycle` every board thread, the synchronization thread (its `recv_nonblock` returns) and the main thread keep
running, and a cancelled thread that can act on the cancellation does so at its next cancellation point. Clients,
masters and the administrator owe nothing: a client may stay silent for ever, which is what makes `SignalHandled`
hard.

## 5. The proofs

`AccessControlProofs`, for any finite set of threads: `TypeCorrect`, `CountersAreExact`,
`MutualExclusion`, `WakeupsAreNotLost`, and `Refinement` (`AccessControl` implements `FileLock`).
The inductive invariant is the conjunction of the type invariant, `CountersExact`,
`SleepersWait` (sleepers are in a waiting loop), `Exclusion` and `NoLostWakeup`. The loops
test counters, not threads, so exclusion needs the counters to be exact; and the last
reader's broadcast is enough only because a reader sleeps for a writer, never for a reader.

`SynchronizationProofs`, for any nodes, peers and requests, crashes and failed asserts included:
`DecisionAgreement` (`DecisionsAgree` always holds) and `FlagsAreSettled` (`FlagsSettled` holds).
The argument: `precommitPending` is the number of threads that have not counted a READY
(`Unready`), and `shouldAbort` is set only by a thread that has not and never will, which stays
behind in `Unready`. So a thread that passes the wait with the counter at 0 knows that nobody has aborted
and nobody can; one that passes it because of `shouldAbort` knows that the counter never reaches 0, so
nobody sends COMMIT. The same holds for the second phase with `commitPending`, `didFail` and `Uncommitted`, and
the mutex makes `completion` final once written. `IInv` states this as `Positions` (the last message sent
follows from the place of the thread), `PhaseOne`, `PhaseTwo` and `OneMasterOp`.

`NoWakeupIsLost`, in the same module, adds that a sleeper's condition is false (`Sleepers`): a thread falls asleep
under the mutex only when its counter and flag tell it to, and whoever brings the counter to 0 or sets the flag first
wakes the whole process.

Then the connections: `MessagesAreExpected`, and `CommitProtocolImplemented`, the refinement of `CommitProtocol`. The
invariant `CInv` says for each connection where the peer stands with it (not there, in the backlog, or in one of the
statuses of its server) and so what the master's thread can have sent, and what is under way in either direction:
never more than one message. A thread has counted a COMMIT_SUCCESS only if its peer has performed the operation; with
`commitPending` = 0 for all of them the master's operation is a `MasterActs` step. A crash leaves every connection in
one of the same situations (`Fades`).

`NobodyIsForgotten` puts the three together. A sleeper's condition is false (`Sleepers`), so in the first phase the
counter is not 0 and `shouldAbort` is not set; the counter is the number of threads in `Unready`, so one of those is
left. It is not asleep, because sleepers have counted. It has not ended either: `QInv` says that a thread that has
ended before it counted has set `shouldAbort`, or its connection is reset. The second phase is the same with
`commitPending`, `didFail` and `Uncommitted`. `QInv` has the other half of the exception, too: an end of a connection
that was reset stays reset, since no server has it in its backlog or serves it (`ResetsLeft`), which `CInv` is needed
for. With `NoWakeupIsLost` this is the part of `EveryRequestAnswered` that needs no fairness: no thread sleeps with
nobody left to wake it.

`BoardProofs` follows one node. Three invariants build on each other.

* `BInv`: while the server of a node holds an operation it holds the write lock, so nobody else changes the file, and
  the closure fits the file it will be run on (`Fits`: cut exactly the last line, or restore the line of the REPLACE).
  A kill in the middle of a rewriting leaves a longer or an equal number of lines, and those before the one replaced
  as they were; everything behind is `damaged`, and stays so; what is written after the restart comes behind it. From
  it: `TypeCorrect`, `NumbersAreExact`, `LocksAreOwnedOrReset`.
* `TInv`: the text of a request is in a file for a reason (`Justified`: the master has performed it, it was kept, it
  is held, or a crash has left it), a WRITE in one line and a REPLACE in the line it names (`Placed`), and the line
  with the number of an answered WRITE survives the closure too (`Stays`). The text a closure of a REPLACE would put
  back is treated as a line of the file, since it can become one. From it: `WritesAreStoredOnce`,
  `AnsweredWritesStay`.
* `RInv`: an operation that is held counts from the moment its master has performed it. Counted so, the contents of
  all files change at the same step, the master's own operation, and no other step changes any of them: performing at
  a peer adds something that does not count, an undo takes it away, SUCCESS_NOOP keeps what counts already. From it:
  `ReplicasStayEqual`.

The first theorems hold with crashes and failed asserts. Four have a hypothesis, because the code needs it:

* `Calm`: nobody is killed (`Fragile` = {}), and every REPLACE names one of the lines of the start. Under it
  `LocksAreOwned`, `NoAssertFails` and `UncommittedIsLocked` hold. Kills break the first and the last (section 6); the
  condition on REPLACE is what `dirty_replace` shows to be necessary for the second.
* `Complete`, for `ReplicasStayEqual`, in addition: every request is for all nodes (the home of a request and its
  peers are all nodes). Otherwise some node never hears of it.

The instances of `one_request`, `two_masters` and `shared_master` satisfy both.

`LifecycleProofs`, for any number of threads, clients, commands, commits and signals: `SocketsAreOwned`,
`LockIsHeldByThread`, `CommandsAreNotCutShort`. The invariant: a command keeps its thread uncancelable (`Shielded`),
board threads hold the lock only in such a place (`Holders`), the synchronization thread ends, by cancellation or for
want of a socket, only after a signal (`AfterSignal`), and when a handler starts threads the old ones are gone
(`Restarts`).

`FileOperationsProofs`, for any threads and requests and with permissions that change at any time: `ReadsAreFinal`,
`FinalLinesStay`, `AnsweredIsWritten`, `ReadAnswersAreFinal`. The file and the lines of the final operations differ
only while the synchronization thread awaits the last word, with the lock (`Places`), and only by what the closure
will take back (`UndoFits`); what holds even when a file could not be opened is separate (`UndoLeavesFinal`).

`ReplaceAlgorithmProofs`, for files, lines and numbers of any size: `LineIsReplaced` and `NothingIsLost`. Both are
about files where the scan can find the line (`Findable`: the line exists, and none up to it is longer than the
buffer), so what is invariant is `Findable => IInv`, and `Findable` depends on the input only. The scan keeps its
offset at the beginning of a line and counts the newlines before it; in both loops the file is the part that is as it
should be at the end, the part that is still as it was, and between `reader` and `writer` bytes that do not matter any
more. `NothingIsLost` reads off the same invariant that those bytes are copies: a byte is overwritten only after it
was moved. `StepsAreBounded` gives the bound on the number of steps for every file, with an invariant of its own
(`Numbers`), and `ScanIsNeverStuck` that the scan has a line to read until it finds the one it looks for.

`ReadLineProofs`, for inputs and line lengths of any size and any segmentation: `CommandsAreAsSent`. The reference is
a recursive function, `Splits`, of the number of bytes; the invariant says that at every place of the loop `commands`
and `buf` are `Splits[read]` (`InStep`), or will be when the line just completed is returned (`LineEnded`); the
residue is the single byte `buf` may hold when a call begins.

`ConfigurationProofs`, for files of any length: `ReloadsAreRestarts`. `LastLineCounts` and `PeersCollected` say what
reading a whole file gives: the last line of a key, and all peers after those that were there. Where a key that is
read on its own is in the file once, its first line is the last (`ReadsAgree`), so the two ways of reading agree; a
command line that does not give the key changes nothing of what a start makes of the file; and the invariant says
which settings have been read again at each step of the handler.

Both modules need induction over the input. The library's induction theorems have an operator as a parameter, which
the provers cannot instantiate; here induction is stated for a *set* of numbers (`Induction`, from the least number
principle of a well-founded relation), and that a recursive function exists and satisfies its equation is derived from
it (`Recursion`, `SplitsEquation`, `AfterEquation`). The two modules share nothing else, so each has these three short
lemmas of its own.

The assumptions are those of the modules: finite sets of nodes, requests and threads, a home for every request,
peers that are nodes. TLC evaluates them in every run.

Only model-checked: `EveryRequestAnswered`, `PeersBecomeFree`, `SignalHandled` and, of `AccessControl`,
`WriterGetsIn` and `ReadersGetIn`. Liveness under fairness is beyond the prover. Every safety property of a passing
run is proved.

## 6. What the checks found

Two runs show a statement of the repository violated:

* `peer_killed`: when `recv_nonblock` returns -1 the master's thread leaves without notifying the
  others (`peer-communication.cpp:120` and `:198`), which then wait for ever with their client.
* `dirty_replace`: a REPLACE is validated against a message number that is not final
  (`file-operations.cpp:304`), and can reach the assert that "should never happen".

Other properties hold only with an exception that is part of their statement. Each exception is a behaviour of the
code; without it TLC finds the property violated:

* `LockOwnedOrReset` (`LockOwned` with killed masters): on -1 a peer that has performed an operation neither undoes it nor
  releases the write lock (`sync-server.cpp:75` and `:129`).
* `LockHeldByThread`: a signal that comes between a peer's operation and the final message cancels the synchronization thread, and
  the lock stays taken (`sync-server.cpp:126`; `cleanup_handler` closes the socket only).
* `SignalHandled`: the `continue` after a rejected REPLACE (`board-server.cpp:100`) skips the call that enables
  cancellation. If the client then stays silent, the handler waits in `pthread_join` for ever. And after a signal that
  left the lock taken (the case of `LockHeldByThread`) the next command waits for the lock with cancellation disabled,
  so the next signal waits for that thread for ever. `Stuck` allows this from the second signal on only.
* `NumbersExact`, `WrittenOnce` and `AnsweredWriteStays`: a process killed in the middle of a REPLACE, or of the undo
  of one, leaves the lines from there on in pieces, twice or under other numbers (`file-operations.cpp:256` and
  `:273`).
* `ReadAnswersFinal`: a READ accepted because of a WRITE that is undone while the READ waits is answered with another
  line, or with an uninitialised buffer (`file-operations.cpp:135`).
* `WroteIsWritten`: the file becomes inaccessible between `access` and `open`, nothing is written, WROTE is answered
  (`file-operations.cpp:109`); `ReadsFinal` excepts such files.
* `ReadsFinal`: the undo of a REPLACE restores the message up to its first '/' (`file-operations.cpp:353`).
* `LineReplaced`: a line longer than 255 bytes at or before the one to replace is returned by `readline` in pieces,
  each of which counts as a line with a newline of its own, so the wrong bytes are replaced
  (`file-operations.cpp:206`). And a last line that `writeOperation` has cut has no newline, but its length is counted
  with one; a shorter line in its place loses its own newline (`file-operations.cpp:209`).
* `CommandsAsSent` is about commands that are not empty: when the bytes of a line end arrive apart, the second one
  becomes an empty command (`tcp-utils.cpp:148`). A single byte after the last line end is lost with the connection.
* `ReloadIsRestart`: a setting that both the file and the command line give has the command line's value after a
  start, and the file's after a reload; the peers of the command line are lost when the file has some. And of a
  repeated key the last line counts at the start, at a reload the first one for DEBUG, BBFILE and SYNCPORT.

Two behaviours are in the model, but no property is about them: after a reset of the connection a thread executes once
more what is in `req` (`ReceiveError`; `board-server.cpp:70`), and after a failed bind the new threads end in `accept`
(`AcceptFails`, `SyncAcceptFails`; `utilities.cpp:30`).

The anomaly the documentation admits, a late undo, is part of the model (`LateUndo`) and of the
abstract specification.

## 7. Bounds, abstractions and what is not modelled

Bounds of the commit: nodes (2 or 3), requests (1 to 3, each made once), `tmax`, the initial length of the files (0 or
1). No counter needs a cap: each request is made once, so files and numbers stay small. Two threads of a request show
all waiting and waking, three (`one_request`) two that decide because of a third that failed; two masters are enough
for a lock cycle; the REPLACE of line 0 meets the WRITE both when line 0 exists from the start and when that WRITE
creates it.

Bounds of the rest. `Budget`: how often clients connect (2) and send (1), masters commit (2), signals come (2); that
is a session before and one after the first signal, or two at a time, a WRITE that waits for a commit, and a second
signal that finds the lock the first may have left behind. A reset connection makes its thread execute `req`, or what
the stack holds, once more, which counts as no command, so that two threads can be in a command. `MaxRequests` (4): an
operation that is undone, one validated meanwhile, one that follows, one that reads. `Sizes`, `Lengths`, `LineMax`:
three lines, the first, a middle and the last one replaced, by a line shorter, equal and longer by one, two and three;
lines longer than `readline` returns, first or last. `MaxInput` (6), `ALEN` (3): a full line, a residue, and line ends
of two bytes. `MaxLines` (2), `MaxEdits` (1): a key twice, two peers, a file changed between two reads.

Abstractions of the commit: lines are records of number and text, and a request stands for the user and text it posts,
so lengths, '/' in texts, and truncation at 255 bytes do not occur. `optimalReplaceAlgorithm` is one step unless a
kill stops it (it runs with the lock held; its bytes are in `ReplaceAlgorithm`). In `crash` files are empty at the
start, so a rewriting that is cut short has few lines behind it; the theorems have no such bound, nor has
`NothingLost`. The piece of a line where two parts of a damaged file meet counts as one torn line. `access()` fails at
the nodes in `Faulty`, at any time; `open` after a successful `access()` succeeds. Readers are left out of
`Synchronization`, where they could only delay writers. `peersList` has no duplicates. The backlog is not limited; a
connection that does not fit is covered by `ConnectionRefused`, which is always possible. The race on the tree of
`threadIdStatsMapping` is not modelled. When a process ends, data in flight is lost with its sockets; a power failure
that loses written data is not considered.

Abstractions of the rest. In `BoardServer` a command is its kind, a line arrives whole, and a client is accepted when
it connects; the user name is not kept. That the synchronization of a WRITE with the peers ends is taken from
`Synchronization`. In `Lifecycle` the synchronization thread does not meet -1, and what its cancellation in the middle
of an undo leaves in the file is not kept. In `FileOperations` permissions change between operations, not within one,
and read and write permission change together. So a file that can only be written does not occur: there a WRITE takes
-1 as the size before it, and its undo leaves the line in the file (`file-operations.cpp:99`). An uninitialised buffer
reads as `Junk`. In `ReplaceAlgorithm` every `open` succeeds. In `Configuration` at most one option is given, and
DAEMON, which only the start uses, is left out.

Not modelled: logging (`logger.cpp`), formatting and tokenizing as such, daemonizing and the pid file, and the
functions of `tcp-utils.cpp` nobody calls, since no modelled state depends on them; a second signal while a handler
runs, which the kernel may give to any thread and the program does not define; the race on `threadIdStatsMapping`,
whose outcome is a corrupted tree; a failing `pthread_create`; the endless loop when the board file cannot be opened
to be counted, which is visible in the code; and the truncation of a COMMIT of more than 242 bytes by
`sendMessageToSocket`, for which replicas would have to be compared byte by byte.

## 8. Plan

1. *Done*: AccessControl, BulletinBoard, Sockets, PeerCommunication, SyncServer, Synchronization,
   the abstractions FileLock and CommitProtocol, the proofs of section 5.
2. *Done*: ReplaceAlgorithm, FileOperations, ReadLine, BoardServer, Lifecycle, Configuration.
3. *Done*: kills in the middle of a rewriting, a second signal, lines longer than `readline` returns, the command line
   at a reload.
4. *Done*: the proofs of section 5, for every safety property of the commit, of the lifecycle, of the file operations
   and of the replace algorithm.
5. *Done*: the proofs about data of any size (`ReadLineProofs`, `ConfigurationProofs`), and what can be said about
   progress without fairness (`NobodyIsForgotten`, `StepsAreBounded`, `ScanIsNeverStuck`).
6. Left: read and write permission that change separately; a measure like `StepsLeft` for a whole request, whose
   timeouts and retested conditions would have to be bounded; the hazards without a property.
