----------------------------- MODULE BoardServer -----------------------------
(***************************************************************************)
(* The threads of the board server and their client sessions               *)
(* (handle_bulletin_board_client), with what pthread_cancel does to them.  *)
(*                                                                         *)
(* A thread loops over accept and a session; a session loops over          *)
(* readlineFromSocket and a command.  A command is kept as its kind: USER  *)
(* stands for every command answered without the board file (malformed     *)
(* ones too), REJECTED for a REPLACE that areReplaceArgumentsValid turns   *)
(* down.  A WRITE or REPLACE may also be answered without the lock, when   *)
(* access() or the synchronization with the peers has failed; that the     *)
(* latter ends is a property of module Synchronization.  Lines arrive      *)
(* whole here (ReadLine has the bytes), and connecting and accepting are   *)
(* one step: a client in the backlog has no thread yet.                    *)
(***************************************************************************)
EXTENDS Naturals, Sequences, FiniteSets

CONSTANTS
    Threads,      \* identities for the board threads, at most THMAX at a time
    Sync,         \* the synchronization thread
    Kinds,        \* the kinds of commands clients send
    Ends,         \* how clients end a session: "eof", "reset"
    Budget        \* how often clients connect and send, masters commit, signals come

ASSUME ServerAssumption ==
    /\ IsFiniteSet(Threads)
    /\ Sync \notin Threads
    /\ Kinds \subseteq {"USER", "READ", "WRITE", "REPLACE", "REJECTED", "QUIT"}
    /\ Ends \subseteq {"eof", "reset"}
    /\ Budget \in [clients : Nat, commands : Nat, commits : Nat, signals : Nat]

VARIABLES
    listening,    \* the master socket of the board accepts connections
    pc,           \* what each thread is doing; "none": no such thread
    cancelable,   \* the cancel state: PTHREAD_CANCEL_ENABLE
    cancelled,    \* pthread_cancel was called for the thread
    socket,       \* slave_socket is open
    req,          \* the buffer req, which nothing clears; "junk" at first
    inbox,        \* the lines the client has sent and the server has not read
    clientEnd,    \* "open", or the end the client has made of the connection
    readers,      \* the threads that read the board file
    writers,      \* the threads that hold its write lock
    left          \* what is left of Budget

sessionVars == <<socket, req, inbox, clientEnd>>
lockVars == <<readers, writers>>

Lock == INSTANCE FileLock WITH Threads <- Threads \cup {Sync}

\* "busy": a command is in req; "waiting": in acquireWriteLock, or the loop of READ.
InSession == {"read", "busy", "waiting", "reading", "writing", "closing"}

\* THMAX of the identities are started, the others are not in use.
BoardInit(started) ==
    /\ listening = TRUE
    /\ pc = [th \in Threads \cup {Sync} |->
               IF th \in started \cup {Sync} THEN "accept" ELSE "none"]
    /\ cancelable = [th \in Threads \cup {Sync} |-> TRUE]
    /\ cancelled = [th \in Threads \cup {Sync} |-> FALSE]
    /\ socket = [th \in Threads |-> FALSE]
    /\ req = [th \in Threads |-> "junk"]
    /\ inbox = [th \in Threads |-> <<>>]
    /\ clientEnd = [th \in Threads |-> "open"]
    /\ Lock!Init
    /\ left = Budget

Goto(th, place) == pc' = [pc EXCEPT ![th] = place]

\* The thread ends, and its stack goes with it.
Exit(th) == Goto(th, "exited") /\ req' = [req EXCEPT ![th] = "junk"]

SetCancelState(th, state) == cancelable' = [cancelable EXCEPT ![th] = state]

Spend(what) == left[what] > 0 /\ left' = [left EXCEPT ![what] = @ - 1]

\* shutdown and close: the connection is gone, with what the client has sent.
CloseSocket(th) ==
    /\ socket' = [socket EXCEPT ![th] = FALSE]
    /\ inbox' = [inbox EXCEPT ![th] = <<>>]
    /\ clientEnd' = [clientEnd EXCEPT ![th] = "open"]

-----------------------------------------------------------------------------
(* Clients.                                                                *)

ClientSends(th, c) ==
    /\ pc[th] \in InSession /\ clientEnd[th] = "open"
    /\ Spend("commands")
    /\ inbox' = [inbox EXCEPT ![th] = Append(@, c)]
    /\ UNCHANGED <<listening, pc, cancelable, cancelled, socket, req, clientEnd, lockVars>>

ClientEnds(th, how) ==
    /\ pc[th] \in InSession /\ clientEnd[th] = "open"
    /\ clientEnd' = [clientEnd EXCEPT ![th] = how]
    /\ UNCHANGED <<listening, pc, cancelable, cancelled, socket, req, inbox, lockVars, left>>

-----------------------------------------------------------------------------
(* The steps of a board thread.                                            *)

\* accept returns, the cleanup handler is pushed, the greeting is sent.
Accept(th) ==
    /\ pc[th] = "accept" /\ listening
    /\ Spend("clients")
    /\ Goto(th, "read")
    /\ socket' = [socket EXCEPT ![th] = TRUE]
    /\ UNCHANGED <<listening, cancelable, cancelled, req, inbox, clientEnd, lockVars>>

\* accept fails on a descriptor that does not listen, and the thread returns.
AcceptFails(th) ==
    /\ pc[th] = "accept" /\ ~listening
    /\ Exit(th)
    /\ UNCHANGED <<listening, cancelable, cancelled, socket, inbox, clientEnd, lockVars, left>>

TakeLine(th) ==
    /\ pc[th] = "read" /\ inbox[th] # <<>>
    /\ Goto(th, "busy")
    /\ req' = [req EXCEPT ![th] = Head(inbox[th])]
    /\ inbox' = [inbox EXCEPT ![th] = Tail(@)]
    /\ UNCHANGED <<listening, cancelled, socket, clientEnd, lockVars, left>>

BugReceiveCancelable(th) == TakeLine(th) /\ UNCHANGED cancelable

\* readlineFromSocket returns a line; from here on cancellation is disabled.
ReceiveCommand(th) == TakeLine(th) /\ SetCancelState(th, FALSE)

\* It returns -1, which is not recv_nodata: the loop goes on with what is in
\* req, at first whatever the stack holds.  The kernel reports the error once.
ReceiveError(th) ==
    /\ pc[th] = "read" /\ inbox[th] = <<>> /\ clientEnd[th] = "reset"
    /\ Goto(th, "busy")
    /\ SetCancelState(th, FALSE)
    /\ \E c \in IF req[th] = "junk" THEN Kinds ELSE {req[th]} :
           req' = [req EXCEPT ![th] = c]
    /\ clientEnd' = [clientEnd EXCEPT ![th] = "eof"]
    /\ UNCHANGED <<listening, cancelled, socket, inbox, lockVars, left>>

\* It returns recv_nodata: the loop ends.
ReceiveEof(th) ==
    /\ pc[th] = "read" /\ inbox[th] = <<>> /\ clientEnd[th] = "eof"
    /\ Goto(th, "closing")
    /\ UNCHANGED <<listening, cancelable, cancelled, sessionVars, lockVars, left>>

\* A command is answered without the board file.
Answer(th) ==
    /\ pc[th] = "busy" /\ req[th] \in {"USER", "READ", "WRITE", "REPLACE"}
    /\ Goto(th, "read")
    /\ SetCancelState(th, TRUE)
    /\ UNCHANGED <<listening, cancelled, sessionVars, lockVars, left>>

\* A rejected REPLACE is answered and continues the loop, past the statement
\* that enables cancellation.
Reject(th) ==
    /\ pc[th] = "busy" /\ req[th] = "REJECTED"
    /\ Goto(th, "read")
    /\ UNCHANGED <<listening, cancelable, cancelled, sessionVars, lockVars, left>>

Quit(th) ==
    /\ pc[th] = "busy" /\ req[th] = "QUIT"
    /\ Goto(th, "closing")
    /\ UNCHANGED <<listening, cancelable, cancelled, sessionVars, lockVars, left>>

\* access() has succeeded (and the peers have, if there are any).
AskForFile(th) ==
    /\ pc[th] = "busy" /\ req[th] \in {"READ", "WRITE", "REPLACE"}
    /\ Goto(th, "waiting")
    /\ UNCHANGED <<listening, cancelable, cancelled, sessionVars, lockVars, left>>

EnterFile(th) ==
    /\ pc[th] = "waiting"
    /\ \/ req[th] = "READ" /\ Lock!EnterRead(th) /\ Goto(th, "reading")
       \/ req[th] \in {"WRITE", "REPLACE"} /\ Lock!EnterWrite(th) /\ Goto(th, "writing")
    /\ UNCHANGED <<listening, cancelable, cancelled, sessionVars, left>>

\* The operation is done, the lock released and the answer sent.
LeaveFile(th) ==
    /\ \/ pc[th] = "reading" /\ Lock!LeaveRead(th)
       \/ pc[th] = "writing" /\ Lock!LeaveWrite(th)
    /\ Goto(th, "read")
    /\ SetCancelState(th, TRUE)
    /\ UNCHANGED <<listening, cancelled, sessionVars, left>>

\* BYE, shutdown, close, and back to the head of the outer loop.
Close(th) ==
    /\ pc[th] = "closing"
    /\ Goto(th, "accept")
    /\ SetCancelState(th, TRUE)
    /\ CloseSocket(th)
    /\ UNCHANGED <<listening, cancelled, req, lockVars, left>>

EndThread(th) ==
    /\ cancelled[th] /\ cancelable[th]
    /\ pc[th] \in {"accept"} \cup InSession
    /\ Exit(th)
    /\ UNCHANGED <<listening, cancelable, cancelled, lockVars, left>>

BugCancelLeavesSocket(th) == EndThread(th) /\ UNCHANGED <<socket, inbox, clientEnd>>

\* A cancelled thread ends at its next cancellation point (accept, read, poll,
\* recv, send, open, write and others, so everywhere), if its state allows it;
\* in a session cleanup_handler closes the socket.
ActOnCancel(th) == EndThread(th) /\ CloseSocket(th)

\* Everything a board thread does by itself.
BoardStep(th) ==
    \/ AcceptFails(th) \/ ReceiveCommand(th) \/ ReceiveError(th) \/ ReceiveEof(th)
    \/ Answer(th) \/ Reject(th) \/ Quit(th) \/ AskForFile(th)
    \/ EnterFile(th) \/ LeaveFile(th) \/ Close(th) \/ ActOnCancel(th)

ClientStep(th) ==
    \/ Accept(th)
    \/ \E c \in Kinds : ClientSends(th, c)
    \/ \E how \in Ends : ClientEnds(th, how)
=============================================================================
