------------------------------- MODULE Sockets -------------------------------
(***************************************************************************)
(* The TCP connections between a master's communicateWithPeer threads and  *)
(* the synchronization servers of its peers: tcp-utils.cpp and the kernel  *)
(* as the code uses them.                                                  *)
(*                                                                         *)
(* One thread serves one peer in one request, and owns one connection, so  *)
(* a thread <<t, p>> also names its connection.  TCP loses and reorders    *)
(* nothing, and an end sends again only after it has had an answer, so a   *)
(* recv returns one whole message.  Whatever is under way may be late, and *)
(* recv_nonblock then returns recv_nodata, its timeout.                    *)
(*                                                                         *)
(* An end that is shut down and closed shows as end of file at the other   *)
(* end, after the data already sent; an end that disappears with its       *)
(* process while it has unread data, or while it still waits to be         *)
(* accepted, is reset and shows as an error.  What is sent to an end that  *)
(* is no longer open is lost: SIGPIPE is ignored, and the callers never    *)
(* look at the result of send.                                             *)
(***************************************************************************)
EXTENDS BulletinBoard

CONSTANT NoThread

Threads == {th \in Txns \X Nodes : th[2] \in Peers[Home[th[1]]]}

ThreadsOf(t) == {th \in Threads : th[1] = t}

ASSUME SocketsAssumption == NoThread \notin Threads

MasterMessages == {"PRECOMMIT", "ABORT", "COMMIT", "SUCCESS_NOOP", "UNSUCCESS_UNDO"}
PeerMessages == {"READY", "COMMIT_SUCCESS", "COMMIT_UNSUCCESS"}
Ends == {"none", "open", "closed", "reset"}

VARIABLES
    backlog,     \* backlog[n]: connections made to n and not yet accepted, in order
    toPeer,      \* toPeer[th]: data the master has sent and the peer has not read
    toMaster,    \* toMaster[th]: the same in the other direction
    masterEnd,   \* masterEnd[th]: the master's end of the connection
    peerEnd      \* peerEnd[th]: the peer's end

sockVars == <<backlog, toPeer, toMaster, masterEnd, peerEnd>>

SocketsInit ==
    /\ backlog = [n \in Nodes |-> <<>>]
    /\ toPeer = [th \in Threads |-> <<>>]
    /\ toMaster = [th \in Threads |-> <<>>]
    /\ masterEnd = [th \in Threads |-> "none"]
    /\ peerEnd = [th \in Threads |-> "none"]

-----------------------------------------------------------------------------

\* connectbyport: the kernel of the peer queues the connection by itself.
Connect(th) ==
    /\ masterEnd' = [masterEnd EXCEPT ![th] = "open"]
    /\ peerEnd' = [peerEnd EXCEPT ![th] = "open"]
    /\ backlog' = [backlog EXCEPT ![th[2]] = Append(@, th)]
    /\ UNCHANGED <<toPeer, toMaster>>

\* send by the master: lost if the peer's end is gone.
SendToPeer(th, m) ==
    toPeer' = IF peerEnd[th] = "open" THEN [toPeer EXCEPT ![th] = Append(@, m)] ELSE toPeer

\* send by the peer: lost if the master's end is gone.
SendToMaster(th, m) ==
    toMaster' = IF masterEnd[th] = "open" THEN [toMaster EXCEPT ![th] = Append(@, m)] ELSE toMaster

\* What recv_nonblock finds: a message, or an error (-1) where the other end was
\* reset.  The timeout (recv_nodata) may come first in any case.
MasterGets(th, m) == toMaster[th] # <<>> /\ Head(toMaster[th]) = m
MasterGetsError(th) == toMaster[th] = <<>> /\ peerEnd[th] = "reset"

PeerGets(th, m) == toPeer[th] # <<>> /\ Head(toPeer[th]) = m
PeerGetsError(th) == toPeer[th] = <<>> /\ masterEnd[th] = "reset"
=============================================================================
