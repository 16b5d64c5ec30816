---------------------------- MODULE LifecycleProofs ----------------------------
(***************************************************************************)
(* Proofs about Lifecycle, for any number of threads, clients, commands,   *)
(* commits and signals: no signal cuts a command short, no socket outlives *)
(* its session, and no thread that ends takes the lock of the board file   *)
(* with it, except the synchronization thread that a signal has cancelled. *)
(*                                                                         *)
(* The argument: a command that was received keeps its thread from being   *)
(* cancelled (Shielded), the lock is held by board threads only in such a  *)
(* place (Holders), and when the handler creates threads the old ones are  *)
(* gone, so that a new thread inherits neither (Restarts).                 *)
(***************************************************************************)
EXTENDS Lifecycle, TLAPS

-----------------------------------------------------------------------------
(* The inductive invariant.                                                *)

Everyone == Threads \cup {Sync}

BoardPlaces == {"none", "accept", "exited"} \cup InSession
SyncPlaces == {"none", "accept", "recv", "waiting", "AWAITING", "undoing", "exited"}

\* What is left of a handler after some of its calls.
HupStates ==
    { super_sighup_handler,
      <<"closeBoard", "killSync", "closeSync", "startBoard", "startSync">>,
      <<"killSync", "closeSync", "startBoard", "startSync">>,
      <<"closeSync", "startBoard", "startSync">>,
      <<"startBoard", "startSync">>,
      <<"startSync">> }

QuitStates ==
    { super_sigquit_handler,
      <<"closeBoard", "killSync", "closeSync", "exit">>,
      <<"killSync", "closeSync", "exit">>,
      <<"closeSync", "exit">>,
      <<"exit">> }

HandlerStates == {<<>>} \cup HupStates \cup QuitStates

\* The handler has joined the board threads and has not started new ones.
BoardDown ==
    (HupStates \cup QuitStates) \ {super_sighup_handler, super_sigquit_handler, <<"startSync">>}

LifecycleTypeOK ==
    /\ listening \in BOOLEAN /\ syncListening \in BOOLEAN
    /\ pc \in [Everyone -> BoardPlaces \cup SyncPlaces]
    /\ \A th \in Threads : pc[th] \in BoardPlaces
    /\ pc[Sync] \in SyncPlaces
    /\ cancelable \in [Everyone -> BOOLEAN]
    /\ cancelled \in [Everyone -> BOOLEAN]
    /\ socket \in [Threads -> BOOLEAN]
    /\ readers \in SUBSET Everyone
    /\ writers \in SUBSET Everyone
    /\ left \in [clients : Nat, commands : Nat, commits : Nat, signals : Nat]
    /\ left["signals"] <= Budget["signals"]
    /\ handler \in HandlerStates
    /\ joining \in SUBSET Everyone

\* From the receipt of a command to its answer the thread cannot be cancelled.
Shielded ==
    \A th \in Threads :
        pc[th] \in {"busy", "waiting", "reading", "writing"} => ~cancelable[th]

\* Threads are cancelled, and end for that reason, after a signal only.
Signalled == left["signals"] < Budget["signals"]

AfterSignal ==
    /\ handler # <<>> => Signalled
    /\ cancelled[Sync] => Signalled
    /\ pc[Sync] \in {"none", "exited"} => Signalled
    /\ ~syncListening => Signalled

\* Who is inside is where it says it is; the synchronization thread at least
\* until the first signal.
Holders ==
    /\ \A th \in Threads : th \in readers <=> pc[th] = "reading"
    /\ \A th \in Threads : th \in writers <=> pc[th] = "writing"
    /\ Sync \notin readers
    /\ pc[Sync] \in {"AWAITING", "undoing"} => Sync \in writers
    /\ Sync \in writers => Signalled \/ pc[Sync] \in {"AWAITING", "undoing"}

\* Many readers or one writer.
Exclusive ==
    /\ \A a, b \in writers : a = b
    /\ readers = {} \/ writers = {}

\* New threads find no old ones.
Restarts == handler \in BoardDown => \A th \in Threads : pc[th] = "none"

IInv ==
    /\ LifecycleTypeOK /\ SocketsOwned /\ Shielded /\ AfterSignal /\ Holders /\ Exclusive
    /\ Restarts

-----------------------------------------------------------------------------
(* Facts about the operators.                                              *)

\* What clients and masters use up leaves the number of signals alone.
LEMMA SpendFacts ==
    ASSUME LifecycleTypeOK, NEW what \in {"clients", "commands", "commits", "signals"},
           Spend(what)
    PROVE  /\ left' \in [clients : Nat, commands : Nat, commits : Nat, signals : Nat]
           /\ what # "signals" => left'["signals"] = left["signals"]
           /\ what = "signals" => left'["signals"] < left["signals"]
BY DEF Spend, LifecycleTypeOK

\* A handler goes through its calls in order: the board threads are down from
\* the end of killBoard until startBoard.
LEMMA HandlerFacts ==
    ASSUME NEW h \in HandlerStates, h # <<>>
    PROVE  /\ Tail(h) \in HandlerStates
           /\ Tail(h) \in BoardDown /\ h \notin BoardDown => Head(h) = "killBoard"
           /\ Head(h) = "startBoard" => h \in BoardDown /\ Tail(h) \notin BoardDown
<1> USE DEF HandlerStates, HupStates, QuitStates, BoardDown, super_sighup_handler,
            super_sigquit_handler
<1>1. CASE h = <<"killBoard", "closeBoard", "killSync", "closeSync", "startBoard", "startSync">>
  BY <1>1
<1>2. CASE h = <<"closeBoard", "killSync", "closeSync", "startBoard", "startSync">>
  BY <1>2
<1>3. CASE h = <<"killSync", "closeSync", "startBoard", "startSync">>
  BY <1>3
<1>4. CASE h = <<"closeSync", "startBoard", "startSync">>
  BY <1>4
<1>5. CASE h = <<"startBoard", "startSync">>
  BY <1>5
<1>6. CASE h = <<"startSync">>
  BY <1>6
<1>7. CASE h = <<"killBoard", "closeBoard", "killSync", "closeSync", "exit">>
  BY <1>7
<1>8. CASE h = <<"closeBoard", "killSync", "closeSync", "exit">>
  BY <1>8
<1>9. CASE h = <<"killSync", "closeSync", "exit">>
  BY <1>9
<1>10. CASE h = <<"closeSync", "exit">>
  BY <1>10
<1>11. CASE h = <<"exit">>
  BY <1>11
<1> QED BY <1>1, <1>2, <1>3, <1>4, <1>5, <1>6, <1>7, <1>8, <1>9, <1>10, <1>11

\* Every signal starts with the threads that are there.
LEMMA HandlerStarts ==
    /\ super_sighup_handler \in HandlerStates \ BoardDown
    /\ super_sigquit_handler \in HandlerStates \ BoardDown
    /\ super_sighup_handler # <<>> /\ super_sigquit_handler # <<>>
BY DEF HandlerStates, HupStates, QuitStates, BoardDown, super_sighup_handler, super_sigquit_handler

-----------------------------------------------------------------------------
(* Every step keeps the invariant.                                         *)

\* A step of a board thread, or of its client.
LEMMA BoardKeepsInvariant ==
    ASSUME IInv, NEW th \in Threads, BoardStep(th) \/ ClientStep(th),
           UNCHANGED mainVars
    PROVE  IInv'
<1> USE ServerAssumption DEF IInv, LifecycleTypeOK, SocketsOwned, Shielded, AfterSignal,
            Signalled, Holders, Exclusive, Restarts, Everyone, BoardPlaces, InSession, Goto,
            SetCancelState, sessionVars, lockVars, mainVars
<1>1. CASE Accept(th)
  <2>1. Spend("clients")
    BY <1>1 DEF Accept
  <2>2. /\ left' \in [clients : Nat, commands : Nat, commits : Nat, signals : Nat]
        /\ left'["signals"] = left["signals"]
    BY <2>1, SpendFacts
  <2> QED BY <1>1, <2>2 DEF Accept
<1>2. CASE AcceptFails(th)
  BY <1>2 DEF AcceptFails, Exit
<1>3. CASE ReceiveCommand(th)
  BY <1>3 DEF ReceiveCommand, TakeLine
<1>4. CASE ReceiveError(th)
  BY <1>4 DEF ReceiveError
<1>5. CASE ReceiveEof(th)
  BY <1>5 DEF ReceiveEof
<1>6. CASE Answer(th)
  BY <1>6 DEF Answer
<1>7. CASE Reject(th)
  BY <1>7 DEF Reject
<1>8. CASE Quit(th)
  BY <1>8 DEF Quit
<1>9. CASE AskForFile(th)
  BY <1>9 DEF AskForFile
<1>10. CASE EnterFile(th)
  BY <1>10 DEF EnterFile, Lock!EnterRead, Lock!EnterWrite
<1>11. CASE LeaveFile(th)
  BY <1>11 DEF LeaveFile, Lock!LeaveRead, Lock!LeaveWrite
<1>12. CASE Close(th)
  BY <1>12 DEF Close, CloseSocket
<1>13. CASE ActOnCancel(th)
  BY <1>13 DEF ActOnCancel, EndThread, Exit, CloseSocket
<1>14. CASE \E c \in Kinds : ClientSends(th, c)
  <2>1. Spend("commands")
    BY <1>14 DEF ClientSends
  <2>2. /\ left' \in [clients : Nat, commands : Nat, commits : Nat, signals : Nat]
        /\ left'["signals"] = left["signals"]
    BY <2>1, SpendFacts
  <2> QED BY <1>14, <2>2 DEF ClientSends
<1>15. CASE \E how \in Ends : ClientEnds(th, how)
  BY <1>15 DEF ClientEnds
<1> QED
  BY <1>1, <1>2, <1>3, <1>4, <1>5, <1>6, <1>7, <1>8, <1>9,
     <1>10, <1>11, <1>12, <1>13, <1>14, <1>15 DEF BoardStep, ClientStep

\* A step of the synchronization thread.
LEMMA SyncKeepsInvariant ==
    ASSUME IInv, SyncAccepts \/ SyncStep
    PROVE  IInv'
<1> USE ServerAssumption DEF IInv, LifecycleTypeOK, SocketsOwned, Shielded, AfterSignal,
            Signalled, Holders, Exclusive, Restarts, Everyone, BoardPlaces, InSession, Goto,
            SetCancelState, sessionVars, lockVars, mainVars, SyncGoto, SyncPlaces
<1>1. CASE SyncAccepts
  <2>1. Spend("commits")
    BY <1>1 DEF SyncAccepts
  <2>2. /\ left' \in [clients : Nat, commands : Nat, commits : Nat, signals : Nat]
        /\ left'["signals"] = left["signals"]
    BY <2>1, SpendFacts
  <2> QED BY <1>1, <2>2 DEF SyncAccepts
<1>2. CASE SyncEnds
  BY <1>2 DEF SyncEnds
<1>3. CASE ReceiveCommit
  BY <1>3 DEF ReceiveCommit
<1>4. CASE PerformCommit
  BY <1>4 DEF PerformCommit, Lock!EnterWrite
<1>5. CASE ReceiveFinal
  BY <1>5 DEF ReceiveFinal, Lock!LeaveWrite
<1>6. CASE LoseMaster
  BY <1>6 DEF LoseMaster
<1>7. CASE UndoAndRelease
  BY <1>7 DEF UndoAndRelease, Lock!LeaveWrite
<1>8. CASE SyncActsOnCancel
  BY <1>8 DEF SyncActsOnCancel
<1>9. CASE SyncAcceptFails
  BY <1>9 DEF SyncAcceptFails
<1> QED BY <1>1, <1>2, <1>3, <1>4, <1>5, <1>6, <1>7, <1>8, <1>9 DEF SyncStep

\* A signal arrives.
LEMMA SignalKeepsInvariant ==
    ASSUME IInv, Signal
    PROVE  IInv'
<1> USE ServerAssumption DEF IInv, LifecycleTypeOK, SocketsOwned, Shielded, AfterSignal,
            Signalled, Holders, Exclusive, Restarts, Everyone, BoardPlaces, InSession, Goto,
            SetCancelState, sessionVars, lockVars, mainVars
<1>1. Spend("signals")
  BY DEF Signal
<1>2. /\ left' \in [clients : Nat, commands : Nat, commits : Nat, signals : Nat]
      /\ left'["signals"] < left["signals"]
  BY <1>1, SpendFacts
<1>3. left["signals"] \in Nat /\ left'["signals"] \in Nat /\ Budget["signals"] \in Nat
  BY <1>2
<1>4. handler' \in HandlerStates \ BoardDown
  BY HandlerStarts DEF Signal
<1> QED BY <1>2, <1>3, <1>4 DEF Signal

\* A step of the handler.
LEMMA MainKeepsInvariant ==
    ASSUME IInv, MainStep
    PROVE  IInv'
<1> USE ServerAssumption DEF IInv, LifecycleTypeOK, SocketsOwned, Shielded, AfterSignal,
            Signalled, Holders, Exclusive, Restarts, Everyone, BoardPlaces, InSession, Goto,
            SetCancelState, sessionVars, lockVars, mainVars, SyncPlaces, NextCall
<1>1. CASE KillThread
  BY <1>1 DEF KillThread, ThreadsOf
<1>2. CASE JoinThread
  BY <1>2 DEF JoinThread
<1>3. CASE AllKilled
  BY <1>3, HandlerFacts DEF AllKilled, ThreadsOf
<1>4. CASE CloseMasterSocket
  BY <1>4, HandlerFacts DEF CloseMasterSocket
<1>5. CASE startBulletinBoardServer
  <2>1. PICK started \in SUBSET Threads : createThreads(started)
    BY <1>5 DEF startBulletinBoardServer
  <2>2. /\ pc' = [x \in Everyone |-> IF x \in started THEN "accept" ELSE pc[x]]
        /\ cancelable' = [x \in Everyone |-> cancelable[x] \/ x \in started]
        /\ cancelled' = [x \in Everyone |-> cancelled[x] /\ x \notin started]
    BY <2>1 DEF createThreads
  <2>3. /\ \A x \in Threads : pc[x] = "none"
        /\ handler' \in HandlerStates /\ handler' \notin BoardDown
        /\ handler # <<>>
    BY <1>5, HandlerFacts DEF startBulletinBoardServer
  <2>4. listening' \in BOOLEAN
    BY <1>5, BindAssumption DEF startBulletinBoardServer, passivesocket
  <2>5. LifecycleTypeOK'
    BY <1>5, <2>2, <2>3, <2>4 DEF startBulletinBoardServer
  <2>6. \A x \in Threads : pc'[x] \in {"none", "accept"}
    BY <2>2, <2>3
  <2>7. Sync \notin started
    BY <2>1
  <2>8. pc'[Sync] = pc[Sync] /\ cancelled'[Sync] = cancelled[Sync]
    BY <2>2, <2>7
  <2>9. UNCHANGED <<syncListening, sessionVars, lockVars, left>>
    BY <1>5 DEF startBulletinBoardServer
  <2>10. SocketsOwned' /\ Shielded' /\ Restarts'
    BY <2>3, <2>6, <2>9
  <2>11. AfterSignal' /\ Holders' /\ Exclusive'
    BY <2>3, <2>6, <2>8, <2>9
  <2> QED BY <2>5, <2>10, <2>11
<1>6. CASE startSyncServer
  <2>1. syncListening' \in BOOLEAN
    BY <1>6, BindAssumption DEF startSyncServer, passivesocket
  <2>2. /\ pc' = [x \in Everyone |-> IF x = Sync THEN "accept" ELSE pc[x]]
        /\ cancelable' = [x \in Everyone |-> cancelable[x] \/ x = Sync]
        /\ cancelled' = [x \in Everyone |-> cancelled[x] /\ x # Sync]
    BY <1>6 DEF startSyncServer, createThreads
  <2>3. handler # <<>> /\ handler' \in HandlerStates /\ handler' = Tail(handler)
    BY <1>6, HandlerFacts DEF startSyncServer
  <2>4. handler' \in BoardDown => \A x \in Threads : pc[x] = "none"
    BY <1>6, <2>3, HandlerFacts DEF startSyncServer
  <2>5. \A x \in Threads : pc'[x] = pc[x] /\ cancelable'[x] = cancelable[x]
    BY <2>2
  <2>6. pc'[Sync] = "accept" /\ ~cancelled'[Sync]
    BY <2>2
  <2>7. LifecycleTypeOK'
    BY <1>6, <2>1, <2>2, <2>3 DEF startSyncServer
  <2> QED BY <1>6, <2>3, <2>4, <2>5, <2>6, <2>7 DEF startSyncServer
<1> QED BY <1>1, <1>2, <1>3, <1>4, <1>5, <1>6 DEF MainStep

\* A step that changes nothing.
LEMMA StutterKeepsInvariant ==
    ASSUME IInv, UNCHANGED vars
    PROVE  IInv'
<1> USE ServerAssumption DEF IInv, LifecycleTypeOK, SocketsOwned, Shielded, AfterSignal,
            Signalled, Holders, Exclusive, Restarts, Everyone, BoardPlaces, InSession, Goto,
            SetCancelState, sessionVars, lockVars, mainVars
<1> QED BY DEF vars

-----------------------------------------------------------------------------
(* The theorems.                                                           *)

\* The invariant holds in every reachable state, whatever the clients, the
\* masters and the administrator do.
THEOREM LifecycleInvariant == Spec => []IInv
<1>1. Init => IInv
  <2> SUFFICES ASSUME Init PROVE IInv
    OBVIOUS
  <2> USE ServerAssumption DEF Init, BoardInit, Lock!Init
  <2>1. LifecycleTypeOK
    BY DEF LifecycleTypeOK, Everyone, BoardPlaces, SyncPlaces, HandlerStates
  <2>2. SocketsOwned /\ Shielded
    BY DEF SocketsOwned, Shielded, InSession
  <2>3. AfterSignal /\ Holders /\ Exclusive
    BY DEF AfterSignal, Holders, Exclusive
  <2>4. Restarts
    BY DEF Restarts, BoardDown, HupStates, QuitStates
  <2> QED BY <2>1, <2>2, <2>3, <2>4 DEF IInv
<1>2. IInv /\ [Next]_vars => IInv'
  BY BoardKeepsInvariant, SyncKeepsInvariant, SignalKeepsInvariant, MainKeepsInvariant,
     StutterKeepsInvariant DEF Next
<1> QED BY <1>1, <1>2, PTL DEF Spec

\* A client socket is open exactly while its session lasts, in whichever place
\* a cancellation, an end of the connection or a restart finds the thread.
THEOREM SocketsAreOwned == Spec => []SocketsOwned
<1>1. IInv => SocketsOwned
  BY DEF IInv
<1> QED BY <1>1, LifecycleInvariant, PTL

\* The lock of the board file is held by a thread in a place where it will release
\* it, or was left behind by the synchronization thread that a signal has cancelled.
THEOREM LockIsHeldByThread == Spec => []LockHeldByThread
<1>1. IInv => LockHeldByThread
  BY ServerAssumption DEF IInv, LifecycleTypeOK, Holders, AfterSignal, Signalled, Everyone,
     LockHeldByThread
<1> QED BY <1>1, LifecycleInvariant, PTL

\* No signal ends a thread between the receipt of a command and its answer.
THEOREM CommandsAreNotCutShort == Spec => CommandsNotCutShort
<1>1. ASSUME IInv, [Next]_vars, NEW th \in Threads,
             pc[th] \in {"busy", "waiting", "reading", "writing"}
      PROVE  pc'[th] # "exited"
  <2> USE <1>1, ServerAssumption DEF IInv, LifecycleTypeOK, Shielded, Everyone, Goto
  <2>1. ASSUME NEW b \in Threads, BoardStep(b) \/ ClientStep(b)
        PROVE  pc'[th] # "exited"
    <3>1. CASE b = th
      BY <2>1, <3>1 DEF BoardStep, ClientStep, AcceptFails, Accept, ReceiveCommand, TakeLine,
         ReceiveError, ReceiveEof, Answer, Reject, Quit, AskForFile, EnterFile, LeaveFile,
         Close, ActOnCancel, EndThread, ClientSends, ClientEnds
    <3>2. CASE b # th
      BY <2>1, <3>2 DEF BoardStep, ClientStep, AcceptFails, Exit, Accept, ReceiveCommand, TakeLine,
         ReceiveError, ReceiveEof, Answer, Reject, Quit, AskForFile, EnterFile, LeaveFile,
         Close, ActOnCancel, EndThread, ClientSends, ClientEnds
    <3> QED BY <3>1, <3>2
  <2>2. CASE SyncAccepts \/ SyncStep
    BY <2>2 DEF SyncStep, SyncGoto, SyncAccepts, SyncAcceptFails, SyncEnds, ReceiveCommit,
       PerformCommit, ReceiveFinal, LoseMaster, UndoAndRelease, SyncActsOnCancel
  <2>3. CASE Signal
    BY <2>3 DEF Signal
  <2>4. CASE MainStep
    BY <2>4 DEF MainStep, KillThread, JoinThread, AllKilled, CloseMasterSocket,
       startBulletinBoardServer, startSyncServer, createThreads
  <2>5. CASE UNCHANGED vars
    BY <2>5 DEF vars
  <2> QED BY <2>1, <2>2, <2>3, <2>4, <2>5 DEF Next
<1>2. IInv /\ [Next]_vars =>
        [\A th \in Threads :
            pc[th] \in {"busy", "waiting", "reading", "writing"} => pc'[th] # "exited"]_vars
  BY <1>1
<1> QED BY <1>2, LifecycleInvariant, PTL DEF Spec, CommandsNotCutShort
=============================================================================
