---------------------------- MODULE BulletinBoard ----------------------------
(***************************************************************************)
(* The replicated bulletin board: the server processes (nodes), the client *)
(* requests that change the board, and each node's board file with the two *)
(* operations of file-operations.cpp on it, writeOperation and             *)
(* replaceOperation, and their undo closures.                              *)
(*                                                                         *)
(* A board file is the sequence of its lines; a line keeps the number and  *)
(* the text it was written with.  The text a request posts (user and       *)
(* message) is represented by the request itself.  The access control is   *)
(* used in the form of module FileLock, as the flag writer_active: readers *)
(* change nothing and only delay writers, and every wait here may last.    *)
(***************************************************************************)
EXTENDS Naturals, Sequences, FiniteSets

CONSTANTS
    Nodes,          \* the server processes
    Txns,           \* the WRITE and REPLACE requests clients make
    Home,           \* Home[t]: the node that receives request t (its master)
    Peers,          \* Peers[n]: the peersList of node n
    Command,        \* Command[t]: the operation and, for REPLACE, its message number
    InitialLength,  \* number of lines in every board file at the start
    Old,            \* the text of those lines
    Torn,           \* the text of a line pieced together by a rewriting cut short
    Faulty          \* the nodes where access(bbfile) may fail

Commands == [op : {"WRITE"}, num : {0}] \cup [op : {"REPLACE"}, num : Nat]

ASSUME BoardAssumption ==
    /\ IsFiniteSet(Nodes)
    /\ IsFiniteSet(Txns)
    /\ Home \in [Txns -> Nodes]
    /\ Peers \in [Nodes -> SUBSET Nodes]
    /\ Command \in [Txns -> Commands]
    /\ InitialLength \in Nat
    /\ Old \notin Txns
    /\ Torn \notin Txns \cup {Old}
    /\ Faulty \subseteq Nodes

Texts == Txns \cup {Old, Torn}

Lines == [number : Nat, text : Texts]

\* An undo closure: none, truncate to num lines, or restore line num to text.
Undos == [kind : {"none", "truncate", "restore"}, num : Nat, text : Texts]

NoUndo == [kind |-> "none", num |-> 0, text |-> Old]

VARIABLES
    state,           \* state[n]: "up", "down" (killed) or "aborted" (failed assert)
    file,            \* file[n]: the lines of the board file of n
    message_number,  \* message_number[n]: the number the next WRITE on n gets
    writer_active,   \* writer_active[n]: the write lock of n is held
    wrote,           \* wrote[t]: the number in the answer WROTE of request t
    damaged          \* history: damaged[n] are the lines of n that a rewriting
                     \* cut short may have hit

boardVars == <<state, file, message_number, writer_active, wrote, damaged>>

BoardInit ==
    /\ state = [n \in Nodes |-> "up"]
    /\ file = [n \in Nodes |->
                 [i \in 1 .. InitialLength |-> [number |-> i - 1, text |-> Old]]]
    /\ message_number = [n \in Nodes |-> InitialLength]
    /\ writer_active = [n \in Nodes |-> FALSE]
    /\ wrote = [t \in Txns |-> 0]
    /\ damaged = [n \in Nodes |-> {}]

-----------------------------------------------------------------------------

\* areReplaceArgumentsValid: the number is compared with message_number, which
\* counts the lines of operations that are not yet final too.
ArgumentsValid(n, t) ==
    Command[t].op = "REPLACE" => Command[t].num < message_number[n]

\* getMessageNumberInfo runs off the end of the file into assert(false).
MessageMissing(n, t) ==
    Command[t].op = "REPLACE" /\ Command[t].num >= Len(file[n])

\* The line need not have the three tokens getMessageNumberInfo indexes.  If it
\* has not, the behaviour is undefined: the process ends, or goes on with any text.
Garbled(n, t) ==
    /\ Command[t].op = "REPLACE"
    /\ Command[t].num < Len(file[n])
    /\ file[n][Command[t].num + 1].text = Torn

\* writeOperation appends a line, in the critical region.
writeOperation(n, t) ==
    /\ file' = [file EXCEPT ![n] = Append(@, [number |-> message_number[n], text |-> t])]
    /\ message_number' = [message_number EXCEPT ![n] = @ + 1]

\* optimalReplaceAlgorithm puts text x in line k, by rewriting the line in place
\* and moving what follows it.
optimalReplaceAlgorithm(n, k, x) ==
    /\ file' = [file EXCEPT ![n][k + 1] = [number |-> k, text |-> x]]
    /\ UNCHANGED message_number

BugTruncateFirst(n, k, x) ==
    /\ file' = [file EXCEPT ![n] = SubSeq(@, 1, k)]
    /\ damaged' = [damaged EXCEPT ![n] = @ \cup (k + 1 .. Len(file[n]))]

\* The loops of optimalReplaceAlgorithm move what follows line k a byte at a time,
\* and truncate last.  Stopped in between they leave the lines up to k, the old line
\* or the new one, and two parts of the rest: its first a lines and what comes after
\* its first b lines, which overlap, with or without a piece of a line where they
\* meet.  (A same length, and the line itself, take one call of write.)
CutShort(n, k, x) ==
    LET old == file[n][k + 1]
        rest == SubSeq(file[n], k + 2, Len(file[n]))
    IN  \E l \in {old, [number |-> k, text |-> x]},
           p \in {<<>>, <<[number |-> k, text |-> Torn]>>},
           a, b \in 0 .. Len(rest) :
            /\ b <= a + Len(p)
            /\ l = old /\ p # <<>> => b > 0
            /\ file' = [file EXCEPT ![n] = SubSeq(@, 1, k) \o <<l>> \o SubSeq(rest, 1, a)
                                             \o p \o SubSeq(rest, b + 1, Len(rest))]
            /\ damaged' = [damaged EXCEPT ![n] = @ \cup (k + 1 .. Len(file'[n]))]

\* The number the operation of request t on node n answers with.
NumberOf(n, t) ==
    IF Command[t].op = "WRITE" THEN message_number[n] ELSE Command[t].num

\* The operation of request t on the file of n.
Perform(n, t) ==
    \/ Command[t].op = "WRITE" /\ writeOperation(n, t)
    \/ Command[t].op = "REPLACE" /\ optimalReplaceAlgorithm(n, Command[t].num, t)

\* The closure either operation hands out before it changes the file.
UndoOf(n, t) ==
    IF Command[t].op = "WRITE"
    THEN [kind |-> "truncate", num |-> Len(file[n]), text |-> Old]
    ELSE [kind |-> "restore", num |-> Command[t].num,
          text |-> file[n][Command[t].num + 1].text]

\* The closure of writeOperation: truncate, and take the number back.
undoWrite(n, u) ==
    /\ file' = [file EXCEPT ![n] = SubSeq(@, 1, u.num)]
    /\ message_number' = [message_number EXCEPT ![n] = @ - 1]

\* Running a closure.
Undo(n, u) ==
    \/ u.kind = "truncate" /\ undoWrite(n, u)
    \/ u.kind = "restore" /\ optimalReplaceAlgorithm(n, u.num, u.text)
=============================================================================
