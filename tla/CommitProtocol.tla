---------------------------- MODULE CommitProtocol ----------------------------
(***************************************************************************)
(* What a synchronization promises, without threads, messages or timeouts. *)
(* The master performs a request only after every peer has performed it,   *)
(* and decides once; a peer makes its operation permanent only after the   *)
(* master has succeeded.  A peer may take its operation back at any time   *)
(* before that, even after the master has succeeded: the late undo that    *)
(* protocol2pc.txt describes in flow 6.                                    *)
(***************************************************************************)
CONSTANTS Txns, Threads   \* requests; participants <<t, p>>

VARIABLES
    fate,      \* fate[th]: the operation of th at its peer
    outcome    \* outcome[t]: the result of the master's own operation, or ""

commitVars == <<fate, outcome>>

Init ==
    /\ fate = [th \in Threads |-> "none"]
    /\ outcome = [t \in Txns |-> ""]

PeerApplies(th) ==
    /\ fate[th] = "none"
    /\ fate' = [fate EXCEPT ![th] = "applied"]
    /\ UNCHANGED outcome

PeerKeeps(th) ==
    /\ fate[th] = "applied"
    /\ outcome[th[1]] = "WROTE"
    /\ fate' = [fate EXCEPT ![th] = "kept"]
    /\ UNCHANGED outcome

PeerUndoes(th) ==
    /\ fate[th] = "applied"
    /\ fate' = [fate EXCEPT ![th] = "undone"]
    /\ UNCHANGED outcome

MasterActs(t) ==
    /\ outcome[t] = ""
    /\ \A th \in Threads : th[1] = t => fate[th] # "none"
    /\ \E r \in {"WROTE", "ERROR"} : outcome' = [outcome EXCEPT ![t] = r]
    /\ UNCHANGED fate

Next ==
    \/ \E th \in Threads : PeerApplies(th) \/ PeerKeeps(th) \/ PeerUndoes(th)
    \/ \E t \in Txns : MasterActs(t)

Spec == Init /\ [][Next]_commitVars
=============================================================================
