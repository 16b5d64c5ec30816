------------------------------- MODULE FileLock -------------------------------
(***************************************************************************)
(* What the access control of the bulletin board file promises to the code *)
(* that uses it: threads enter and leave as readers or as the writer, in   *)
(* one step each, many readers or one writer at a time.  The modules that  *)
(* model the rest of the server use the write lock in this abstract form;  *)
(* AccessControl is shown to implement it.                                 *)
(***************************************************************************)
CONSTANT Threads

VARIABLES readers, writers   \* the threads inside, per role

lockVars == <<readers, writers>>

Init == readers = {} /\ writers = {}

EnterRead(th) ==
    /\ writers = {}
    /\ th \notin readers
    /\ readers' = readers \cup {th}
    /\ UNCHANGED writers

EnterWrite(th) ==
    /\ readers = {} /\ writers = {}
    /\ writers' = {th}
    /\ UNCHANGED readers

LeaveRead(th) ==
    /\ th \in readers
    /\ readers' = readers \ {th}
    /\ UNCHANGED writers

LeaveWrite(th) ==
    /\ th \in writers
    /\ writers' = {}
    /\ UNCHANGED readers

Next ==
    \E th \in Threads :
        EnterRead(th) \/ EnterWrite(th) \/ LeaveRead(th) \/ LeaveWrite(th)

Spec == Init /\ [][Next]_lockVars
=============================================================================
