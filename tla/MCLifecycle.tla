----------------------------- MODULE MCLifecycle -----------------------------
(***************************************************************************)
(* What clients, masters and the administrator do in the runs of Lifecycle. *)
(***************************************************************************)
EXTENDS Lifecycle

\* A commit before the first signal or after it, and a session before the second.
TwoSignals == [clients |-> 2, commands |-> 1, commits |-> 2, signals |-> 2]
=============================================================================
