--------------------------- MODULE FileOperations ---------------------------
(***************************************************************************)
(* The three operations of file-operations.cpp on the board file of one    *)
(* node: readMessageFromFile, writeOperation and replaceOperation, with    *)
(* what each tests before it waits for the lock and uses after it, for     *)
(* board threads and for the synchronization thread, which keeps the lock  *)
(* until its operation is final or undone.                                 *)
(*                                                                         *)
(* A text is the sequence of the parts '/' divides "user/message" into:    *)
(* <<user, message>>, longer if the message has '/' in it, only <<user>>   *)
(* if it has nothing else.  The permissions of the file may change at any  *)
(* time, read and write together (chmod ug-rw, the fault protocol2pc.txt   *)
(* tests with), except within an operation.  Reading an uninitialised      *)
(* buffer gives Junk.                                                      *)
(***************************************************************************)
EXTENDS Naturals, Sequences, FiniteSets

CONSTANTS
    Boards,        \* the board threads
    Sync,          \* the synchronization thread
    Messages,      \* the texts clients post
    MayChange,     \* whether the permissions of the file change
    MaxRequests    \* bound on the requests made

ASSUME OperationsAssumption ==
    /\ IsFiniteSet(Boards)
    /\ Sync \notin Boards
    /\ \A m \in Messages : m \in Seq(STRING) /\ Len(m) > 0
    /\ MayChange \in BOOLEAN
    /\ MaxRequests \in Nat

Threads == Boards \cup {Sync}

Junk == <<"junk", "junk">>

\* REPLACE takes a message without '/', READ takes none.
Requests ==
    [op : {"READ"}, num : 0 .. MaxRequests, text : {<<>>}]
      \cup [op : {"WRITE"}, num : {0}, text : Messages]
      \cup [op : {"REPLACE"}, num : 0 .. MaxRequests, text : {m \in Messages : Len(m) = 2}]

VARIABLES
    file,             \* the lines of the board file
    message_number,   \* the number of the next line
    permitted,        \* access() and open() succeed
    alive,            \* FALSE after an assert or a crash
    readers, writers, \* the lock, in the form of FileLock
    pc, request,      \* what each thread does, and for which request
    undo,             \* the closure of the operation that is not final
    answer,           \* what the last request of each thread was answered
    board,            \* the lines of the final operations, for the properties
    unopened,         \* an operation or an undo found the file inaccessible, for the properties
    made              \* the number of requests made

vars == <<file, message_number, permitted, alive, readers, writers, pc, request,
          undo, answer, board, unopened, made>>

Lock == INSTANCE FileLock

Line(n, m) == [number |-> n, text |-> m]
Nothing == [op |-> "READ", num |-> 0, text |-> <<>>]

Init ==
    /\ file = <<>> /\ board = <<>>
    /\ message_number = 0
    /\ permitted = TRUE /\ alive = TRUE
    /\ Lock!Init
    /\ pc = [th \in Threads |-> "idle"]
    /\ request = [th \in Threads |-> Nothing]
    /\ undo = [kind |-> "none", num |-> 0, text |-> <<>>]
    /\ answer = [th \in Threads |-> [code |-> "none", line |-> Line(0, <<>>)]]
    /\ unopened = FALSE
    /\ made = 0

Answer(th, code, line) ==
    /\ answer' = [answer EXCEPT ![th] = [code |-> code, line |-> line]]
    /\ pc' = [pc EXCEPT ![th] = "idle"]

ChangeMode ==
    /\ MayChange
    /\ permitted' = ~permitted
    /\ UNCHANGED <<file, message_number, alive, readers, writers, pc, request, undo,
                   answer, board, unopened, made>>

-----------------------------------------------------------------------------
(* Before the lock.                                                        *)

\* The number is compared with message_number, without the lock.  For the
\* synchronization thread the master has done it, with its own message_number:
\* here the number may be anything.
Start(th, r) ==
    /\ pc[th] = "idle" /\ made < MaxRequests
    /\ th = Sync => r.op # "READ"
    /\ request' = [request EXCEPT ![th] = r]
    /\ IF th # Sync /\ r.op # "WRITE" /\ r.num >= message_number
       THEN Answer(th, "UNKNOWN", Line(r.num, <<>>))
       ELSE pc' = [pc EXCEPT ![th] = "valid"] /\ UNCHANGED answer
    /\ made' = made + 1
    /\ UNCHANGED <<file, message_number, permitted, alive, readers, writers, undo, board, unopened>>

Access(th) ==
    /\ pc[th] = "valid"
    /\ IF permitted
       THEN pc' = [pc EXCEPT ![th] = "waiting"] /\ UNCHANGED answer
       ELSE Answer(th, "ERROR", Line(request[th].num, <<>>))
    /\ UNCHANGED <<file, message_number, permitted, alive, readers, writers, request,
                   undo, board, unopened, made>>

-----------------------------------------------------------------------------
(* READ.                                                                   *)

EnterRead(th) ==
    /\ pc[th] = "waiting" /\ request[th].op = "READ"
    /\ Lock!EnterRead(th)
    /\ pc' = [pc EXCEPT ![th] = "reading"]
    /\ UNCHANGED <<file, message_number, permitted, alive, request, undo, answer, board, unopened, made>>

BugLineBefore(k) ==
    IF ~permitted \/ file = <<>> THEN Line(k, Junk)
    ELSE IF k > 0 /\ k < Len(file) THEN file[k]
    ELSE file[Len(file)]

\* What the buffer holds after the loop: the line asked for; the last line, if
\* the file ends before it; nothing that was read, if there was nothing to read.
LineRead(k) ==
    IF ~permitted \/ file = <<>> THEN Line(k, Junk)
    ELSE IF k < Len(file) THEN file[k + 1]
    ELSE file[Len(file)]

readMessageFromFile(th) ==
    /\ pc[th] = "reading"
    /\ Answer(th, "MESSAGE", LineRead(request[th].num))
    /\ Lock!LeaveRead(th)
    /\ UNCHANGED <<file, message_number, permitted, alive, request, undo, board, unopened, made>>

-----------------------------------------------------------------------------
(* WRITE and REPLACE.                                                      *)

EnterWrite(th) ==
    /\ pc[th] = "waiting" /\ request[th].op # "READ"
    /\ Lock!EnterWrite(th)
    /\ pc' = [pc EXCEPT ![th] = "writing"]
    /\ UNCHANGED <<file, message_number, permitted, alive, request, undo, answer, board, unopened, made>>

BugNumberFirst(m) ==
    /\ undo' = [kind |-> "truncate", num |-> Len(file), text |-> <<>>]
    /\ file' = Append(file, Line(message_number + 1, m))
    /\ message_number' = message_number + 1

BugSizeZero(m) ==
    /\ undo' = [kind |-> "truncate", num |-> IF permitted THEN Len(file) ELSE 0, text |-> <<>>]
    /\ file' = IF permitted THEN Append(file, Line(message_number, m)) ELSE file
    /\ message_number' = message_number + 1

\* writeOperation: the closure (without a size, if open fails), the line, the number.
writeOperation(m) ==
    /\ undo' = IF permitted THEN [kind |-> "truncate", num |-> Len(file), text |-> <<>>]
                            ELSE [kind |-> "fail", num |-> 0, text |-> <<>>]
    /\ file' = IF permitted THEN Append(file, Line(message_number, m)) ELSE file
    /\ message_number' = message_number + 1

\* optimalReplaceAlgorithm, if the files can be opened (module ReplaceAlgorithm).
Replaced(k, m) == IF permitted THEN [file EXCEPT ![k + 1] = Line(k, m)] ELSE file

\* getMessageNumberInfo: what the closure will put back, the first two parts
\* after the number, or what the stack held if the file cannot be opened.
getMessageNumberInfo(k) == IF permitted THEN SubSeq(file[k + 1].text, 1, 2) ELSE Junk

replaceOperation(k, m) ==
    /\ undo' = [kind |-> "restore", num |-> k, text |-> getMessageNumberInfo(k)]
    /\ file' = Replaced(k, m)
    /\ UNCHANGED message_number

\* No result of open, write or truncate is tested.
Open == unopened' = (unopened \/ ~permitted)

\* The number of the line a request is about.
Number(th) == IF request[th].op = "WRITE" THEN message_number ELSE request[th].num

\* The message is there, and has the parts getMessageNumberInfo takes.
Replaceable(k) == k < Len(file) /\ Len(file[k + 1].text) > 1

Perform(th) ==
    LET r == request[th] IN
        \/ r.op = "WRITE" /\ writeOperation(r.text)
        \/ /\ r.op = "REPLACE" /\ (permitted => Replaceable(r.num))
           /\ replaceOperation(r.num, r.text)

\* The process ends: the message to replace, or to restore, is not there (assert),
\* or the vector of its parts is shorter than the code takes it to be, as the
\* parts of an uninitialised buffer may be too.
Crash(th) ==
    /\ \/ /\ pc[th] = "writing" /\ request[th].op = "REPLACE"
          /\ permitted => ~Replaceable(request[th].num)
       \/ /\ pc[th] = "AWAITING" /\ undo.kind = "restore"
          /\ permitted /\ undo.num >= Len(file)
    /\ alive' = FALSE
    /\ UNCHANGED <<file, message_number, permitted, readers, writers, pc, request, undo,
                   answer, board, unopened, made>>

\* A board thread releases the lock, and the operation is final.
PerformLocally(th) ==
    /\ pc[th] = "writing" /\ th # Sync
    /\ Perform(th)
    /\ Lock!LeaveWrite(th)
    /\ board' = file'
    /\ Answer(th, "WROTE", Line(Number(th), request[th].text))
    /\ Open
    /\ UNCHANGED <<permitted, alive, request, made>>

PerformForMaster ==
    /\ pc[Sync] = "writing"
    /\ Perform(Sync)
    /\ answer' = [answer EXCEPT ![Sync] =
                    [code |-> "WROTE", line |-> Line(Number(Sync), request[Sync].text)]]
    /\ pc' = [pc EXCEPT ![Sync] = "AWAITING"]
    /\ Open
    /\ UNCHANGED <<permitted, alive, request, board, made>>

BugLockNotHeld == PerformForMaster /\ Lock!LeaveWrite(Sync)

\* The synchronization thread keeps the lock (holdLock).
PerformCommit == PerformForMaster /\ UNCHANGED <<readers, writers>>

\* SUCCESS_NOOP.
Keep ==
    /\ pc[Sync] = "AWAITING"
    /\ board' = file
    /\ pc' = [pc EXCEPT ![Sync] = "idle"]
    /\ Lock!LeaveWrite(Sync)
    /\ UNCHANGED <<file, message_number, permitted, alive, request, undo, answer, unopened, made>>

\* undoWrite: truncate fails without permission, or with the size -1 of a file
\* that could not be opened; the number is taken back all the same.
\* undoReplace: optimalReplaceAlgorithm with the old user and message.
undoCommitOperation ==
    \/ /\ undo.kind \in {"truncate", "fail"}
       /\ file' = IF permitted /\ undo.kind = "truncate" THEN SubSeq(file, 1, undo.num) ELSE file
       /\ message_number' = message_number - 1
    \/ /\ undo.kind = "restore" /\ (permitted => undo.num < Len(file))
       /\ file' = Replaced(undo.num, undo.text)
       /\ UNCHANGED message_number

\* UNSUCCESS_UNDO, or the master is lost.
Undo ==
    /\ pc[Sync] = "AWAITING"
    /\ undoCommitOperation
    /\ pc' = [pc EXCEPT ![Sync] = "idle"]
    /\ Lock!LeaveWrite(Sync)
    /\ Open
    /\ UNCHANGED <<permitted, alive, request, undo, answer, board, made>>

-----------------------------------------------------------------------------

Next ==
    /\ alive
    /\ \/ ChangeMode
       \/ \E th \in Threads :
             \/ \E r \in Requests : Start(th, r)
             \/ Access(th)
             \/ EnterRead(th) \/ readMessageFromFile(th)
             \/ EnterWrite(th) \/ PerformLocally(th) \/ Crash(th)
       \/ PerformCommit \/ Keep \/ Undo

Spec == Init /\ [][Next]_vars

-----------------------------------------------------------------------------
(* Properties.                                                             *)

\* Who reads the file sees the final operations and nothing else: no line of
\* an operation that may be undone, nothing an undo has left or taken with it.
\* Excepted are lines with '/' in the message, of which the undo of a REPLACE puts
\* back only a part, and a file that was inaccessible when it was written.  Code:
\* the lock held over COMMIT, and the two closures.
ReadsFinal ==
    \A th \in Boards : pc[th] = "reading" /\ ~unopened =>
        /\ Len(file) = Len(board)
        /\ \A i \in DOMAIN board : Len(board[i].text) = 2 => file[i] = board[i]

\* What is answered WROTE is in the file, under the number answered, unless the
\* file became inaccessible after access(): then nothing is written, and WROTE
\* is answered all the same.  Code: writeOperation and replaceOperation.
WroteIsWritten ==
    [][\A th \in Threads :
          (answer'[th] # answer[th] /\ answer'[th].code = "WROTE" /\ permitted)
             => answer'[th].line \in {file'[i] : i \in DOMAIN file'}]_vars

\* Whenever the file becomes inaccessible or accessible again, it does not become
\* shorter than the final operations made it: an undo cuts off the line of its own
\* operation at most.  Code: the size -1 of a file that cannot be opened, which truncate
\* refuses.
FinalStays == Len(file) >= Len(board)

\* READ answers a message that is final with that message, whatever was undone
\* while it waited.  (A number that was valid only because of an operation since
\* undone is answered with another line.)  Code: the validation before the lock
\* and the loop after it in readMessageFromFile.
ReadAnswersFinal ==
    [][\A th \in Boards :
          LET k == request[th].num IN
             pc[th] = "reading" /\ pc'[th] = "idle" /\ permitted /\ ~unopened /\ k < Len(board)
                => /\ answer'[th].line.number = k
                   /\ Len(board[k + 1].text) = 2 => answer'[th].line = board[k + 1]]_vars
=============================================================================
