--------------------------- MODULE MCSynchronization ---------------------------
(***************************************************************************)
(* Clusters for model checking: who receives which request, and who is a   *)
(* peer of whom.                                                           *)
(***************************************************************************)
EXTENDS Synchronization, TLC

CONSTANTS n1, n2, n3, t1, t2, t3

Write == [op |-> "WRITE", num |-> 0]
Replace(k) == [op |-> "REPLACE", num |-> k]

\* All requests on n1.
OneHome == [t \in Txns |-> n1]

\* The first request on n1, the others on n2.
TwoHomes == [t \in Txns |-> IF t = t1 THEN n1 ELSE n2]

\* One request on each node.
ThreeHomes == [t \in Txns |-> CASE t = t1 -> n1 [] t = t2 -> n2 [] OTHER -> n3]

\* Every node has all the others as peers.
Mesh == [n \in Nodes |-> Nodes \ {n}]

\* n1 has all nodes as peers; itself too, as in bbserv.conf.
Everybody == [n \in Nodes |-> IF n = n1 THEN Nodes ELSE {}]

\* n1 and n2 are peers of each other, n3 is a replica of n1 without peers.
PairAndReplica ==
    [n \in Nodes |-> CASE n = n1 -> {n2, n3} [] n = n2 -> {n1} [] OTHER -> {}]

AllWrite == [t \in Txns |-> Write]
\* The last request is a REPLACE.
TwoWritesAndReplace == [t \in Txns |-> IF t = t3 THEN Replace(0) ELSE Write]
\* All but the first are.
WriteAndReplaces == [t \in Txns |-> IF t = t1 THEN Write ELSE Replace(0)]

\* Under OneHome and Mesh the nodes other than n1 may be exchanged where they
\* have the same faults, and under AllWrite the requests may.
Exchangeable == Permutations({n2, n3}) \cup Permutations({t1, t2})
=============================================================================
