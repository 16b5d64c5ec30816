----------------------------- MODULE BoardProofs -----------------------------
(***************************************************************************)
(* The board files and their locks, for any cluster and any set of         *)
(* requests, with processes that end and start again.                      *)
(*                                                                         *)
(* The argument follows one node.  Its synchronization thread works in one *)
(* place at a time, with the write lock held, so while it holds an         *)
(* operation nobody else changes the file, and the undo closure it keeps   *)
(* still fits: it takes back the last line, or the line the operation      *)
(* replaced.  This gives numbers and locks (BInv), then what is written    *)
(* where (TInv), and with it that the replicas are alike (RInv).           *)
(***************************************************************************)
EXTENDS SynchronizationProofs

-----------------------------------------------------------------------------
(* The inductive invariant.                                                *)

\* Nobody is killed, and every REPLACE names one of the lines of the start: then
\* no assert can fail either.
Calm ==
    /\ Fragile = {}
    /\ \A t \in Txns : Command[t].op = "REPLACE" => Command[t].num < InitialLength

BoardTypeOK ==
    /\ state \in [Nodes -> {"up", "down", "aborted"}]
    /\ file \in [Nodes -> Seq(Lines)]
    /\ message_number \in [Nodes -> Nat]
    /\ writer_active \in [Nodes -> BOOLEAN]
    /\ wrote \in [Txns -> Nat] /\ damaged \in [Nodes -> SUBSET Nat]
    /\ response \in [Txns -> Responses]
    /\ undo \in [Nodes -> Undos]

\* A request that is being served, and what its client was told.
Running(t) ==
    /\ ctl[t] \in {"local", "joining"} => state[Home[t]] = "up"
    /\ ctl[t] = "local" => Peers[Home[t]] = {}
    /\ ctl[t] \in {"idle", "local"} => completion[t] = ""
    /\ response[t] # "none" => ctl[t] = "done"
    /\ response[t] = "WROTE" => completion[t] = "WROTE" \/ Peers[Home[t]] = {}

\* A node that is not running has no connections.
Listening(n) == status[n] # "accept" \/ backlog[n] # <<>> => state[n] = "up"

\* NumbersExact and LockOwnedOrReset, of one node.
Numbered(n) ==
    /\ state[n] = "up" => message_number[n] = Len(file[n])
    /\ \A i \in DOMAIN file[n] : i \notin damaged[n] => file[n][i].number = i - 1

Locked(n) ==
    writer_active[n] /\ ~Holding(n) =>
        \E th \in Threads : th[2] = n /\ fate[th] = "applied" /\ masterEnd[th] = "reset"

\* The closure u takes back the operation of t, on a file of so many lines.
Fits(t, u, lines) ==
    \/ Command[t].op = "WRITE" /\ u.kind = "truncate" /\ u.num + 1 = lines
    \/ /\ Command[t].op = "REPLACE" /\ u.kind = "restore" /\ u.num = Command[t].num
       /\ u.num < lines

Undoable(n) ==
    Holding(n) => writer_active[n] /\ Fits(conn[n][1], undo[n], Len(file[n]))

\* No line is torn, and none will be by the closure.
Whole(n) ==
    /\ damaged[n] = {} /\ \A i \in DOMAIN file[n] : file[n][i].text # Torn
    /\ Holding(n) => undo[n].text # Torn

\* In calm conditions no line of the start is ever lost, and no line is torn.
Undamaged(n) ==
    Calm => /\ state[n] = "up" /\ Len(file[n]) >= InitialLength
            /\ Holding(n) /\ undo[n].kind = "truncate" => undo[n].num >= InitialLength
            /\ Whole(n)

NodeOK(n) == Listening(n) /\ Numbered(n) /\ Locked(n) /\ Undoable(n) /\ Undamaged(n)

NoReset == Calm => \A th \in Threads : masterEnd[th] # "reset"

BInv ==
    /\ BoardTypeOK /\ NoReset
    /\ \A t \in Txns : Running(t)
    /\ \A n \in Nodes : NodeOK(n)

-----------------------------------------------------------------------------
(* Steps that change no board file.                                        *)

\* Nothing about the board of m changes.
Steady(m) ==
    /\ state'[m] = state[m] /\ file'[m] = file[m] /\ damaged'[m] = damaged[m]
    /\ message_number'[m] = message_number[m] /\ writer_active'[m] = writer_active[m]
    /\ Holding(m)' <=> Holding(m)
    /\ Holding(m) => undo'[m] = undo[m] /\ conn'[m] = conn[m]
    /\ status'[m] # "accept" \/ backlog'[m] # <<>> => state[m] = "up"
    /\ \A th \in Threads : th[2] = m => fate'[th] = fate[th]
    /\ \A th \in Threads : masterEnd[th] = "reset" => masterEnd'[th] = "reset"

\* Then what is known of it stays true.
LEMMA SteadyNode ==
    ASSUME NEW m \in Nodes, NodeOK(m), Steady(m)
    PROVE  NodeOK(m)'
<1> USE DEF Steady
<1>1. Listening(m)'
  BY DEF Listening
<1>2. Numbered(m)'
  BY DEF NodeOK, Numbered
<1>3. Locked(m)'
  BY DEF NodeOK, Locked
<1>4. Undoable(m)'
  BY DEF NodeOK, Undoable
<1>5. Undamaged(m)'
  BY DEF NodeOK, Undamaged, Whole
<1> QED BY <1>1, <1>2, <1>3, <1>4, <1>5 DEF NodeOK

\* Steps of the masters that change no file.
Apart ==
    /\ UNCHANGED <<boardVars, slaveVars>>
    /\ \A m \in Nodes : backlog'[m] # <<>> => backlog[m] # <<>> \/ state[m] = "up"
    /\ \A th \in Threads : masterEnd'[th] = "reset" <=> masterEnd[th] = "reset"
    /\ response' \in [Txns -> Responses]
    /\ \A t \in Txns : Running(t)'

\* They keep the boards as they are.
LEMMA ApartKeepsBoards ==
    ASSUME BInv, Apart
    PROVE  BInv'
<1> USE DEF Apart, boardVars, slaveVars
<1>1. BoardTypeOK'
  BY DEF BInv, BoardTypeOK
<1>2. NoReset'
  BY DEF BInv, NoReset
<1>3. ASSUME NEW n \in Nodes PROVE NodeOK(n)'
  <2>1. Holding(n)' <=> Holding(n)
    BY DEF Holding, Awaiting
  <2>2. NodeOK(n)
    BY DEF BInv
  <2>3. Steady(n)
    BY <2>1, <2>2 DEF Steady, NodeOK, Listening
  <2> QED BY <2>2, <2>3, SteadyNode
<1> QED BY <1>1, <1>2, <1>3 DEF BInv

\* Requests that arrive, and requests that are answered without a file operation.
LEMMA RequestsKeepBoards ==
    ASSUME IInv, CInv, BInv, NEW t \in Txns, UNCHANGED slaveVars,
           \/ Reject(t) \/ StartSynchronization(t) \/ StartLocal(t) \/ LocalFails(t)
           \/ JoinThreads(t)
    PROVE  BInv'
<1> USE DEF Reject, StartSynchronization, StartLocal, LocalFails, JoinThreads, Arrives
<1>0. /\ ctl \in [Txns -> Ctls] /\ response \in [Txns -> Responses]
      /\ completion \in [Txns -> Completions]
  BY DEF IInv, MasterTypeOK, BInv, BoardTypeOK
<1>1. UNCHANGED <<boardVars, sockVars, completion>>
  BY DEF statVars
<1>2. response' \in [Txns -> Responses]
  BY <1>0 DEF Responses, Completions
<1>3. ASSUME NEW u \in Txns PROVE Running(u)'
  <2>1. Running(u)
    BY DEF BInv
  <2>2. state'[Home[u]] = state[Home[u]] /\ completion'[u] = completion[u]
    BY <1>1 DEF boardVars
  <2>3. CASE u # t
    BY <1>0, <2>1, <2>2, <2>3 DEF Running
  <2>4. CASE u = t
    BY <1>0, <2>1, <2>2, <2>4 DEF Running, Completions
  <2> QED BY <2>3, <2>4
<1>4. Apart
  BY <1>1, <1>2, <1>3 DEF Apart, sockVars
<1> QED BY <1>4, ApartKeepsBoards

\* What a communicateWithPeer thread does apart from the operation on the file.
ThreadWork(th) ==
    /\ UNCHANGED <<boardVars, ctl, response>> /\ ctl[th[1]] = "joining"
    /\ \/ UNCHANGED completion
       \/ completion' = [completion EXCEPT ![th[1]] = "ERROR"] /\ completion[th[1]] = ""
    /\ \/ UNCHANGED <<backlog, masterEnd>>
       \/ CreateSocket(th)
       \/ UNCHANGED backlog /\ masterEnd' = [masterEnd EXCEPT ![th] = "closed"]

\* It answers nobody and touches no file.
LEMMA ThreadWorks ==
    ASSUME NEW th \in Threads, (ThreadStep(th) /\ ~MasterPerforms(th)) \/ SpuriousWakeup(th)
    PROVE  ThreadWork(th)
<1> USE DEF ThreadWork, statVars, sockVars, At
<1>1. CASE SpuriousWakeup(th)
  BY <1>1 DEF SpuriousWakeup
<1>2. CASE PhaseOneStep(th)
  BY <1>2 DEF PhaseOneStep, CreateSocket, ConnectionRefused,
     SendPrecommit, ReceiveReady, CountReady, RetestReady, Decide, NotifyThreadsToAbort,
     Receive, SendAndGoto
<1>3. CASE PhaseTwoStep(th) /\ ~MasterPerforms(th)
  BY <1>3 DEF PhaseTwoStep, ReceiveSuccess, ReceiveUnsuccess, CountSuccess, RetestSuccess,
     Finalize, TakeMutex, MasterFails, SendFinal, NotifyThreadsToUndoCommit, Receive,
     MasterOpEnds, SendAndGoto
<1>4. CASE LosePeer(th) \/ ReceiveError(th) \/ CloseSocket(th)
  BY <1>4 DEF LosePeer, ReceiveError, CloseSocket
<1> QED BY <1>1, <1>2, <1>3, <1>4 DEF ThreadStep

\* Such a step leaves the boards alone.
LEMMA ThreadsKeepBoards ==
    ASSUME IInv, CInv, BInv, NEW th \in Threads, UNCHANGED slaveVars, ThreadWork(th)
    PROVE  BInv'
<1>0. /\ th[1] \in Txns /\ th[2] \in Nodes /\ backlog \in [Nodes -> Seq(Threads)]
      /\ masterEnd \in [Threads -> Ends] /\ completion \in [Txns -> Completions]
      /\ Session(th)
  BY ThreadParts DEF CInv, ConnectionTypeOK, IInv, MasterTypeOK
<1>1. ThreadWork(th)
  OBVIOUS
<1> USE DEF ThreadWork
<1>2. response' \in [Txns -> Responses]
  BY <1>1 DEF BInv, BoardTypeOK
<1>3. ASSUME NEW u \in Txns PROVE Running(u)'
  <2>1. Running(u)
    BY DEF BInv
  <2>2. /\ state'[Home[u]] = state[Home[u]] /\ ctl'[u] = ctl[u] /\ response'[u] = response[u]
    BY <1>1 DEF boardVars
  <2>3. completion'[u] = completion[u] \/ (ctl[u] = "joining" /\ completion[u] = "")
    BY <1>0, <1>1
  <2> QED BY <2>1, <2>2, <2>3 DEF Running
<1>4. \A m \in Nodes : backlog'[m] # <<>> => backlog[m] # <<>> \/ state[m] = "up"
  BY <1>0, <1>1 DEF CreateSocket, Connect
<1>5. masterEnd[th] # "reset"
  BY <1>0, <1>1 DEF Session, MasterEnds
<1>6. \A x \in Threads : masterEnd'[x] = "reset" <=> masterEnd[x] = "reset"
  BY <1>0, <1>1, <1>5 DEF CreateSocket, Connect
<1>7. Apart
  BY <1>1, <1>2, <1>3, <1>4, <1>6 DEF Apart
<1> QED BY <1>7, ApartKeepsBoards

-----------------------------------------------------------------------------
(* What the operations do to a file.                                       *)

\* The file of n gets a line at the end, a new line k + 1, or is cut to k lines.
Appended(n, t) ==
    /\ Len(file'[n]) = Len(file[n]) + 1
    /\ \A i \in 1 .. Len(file[n]) : file'[n][i] = file[n][i]
    /\ file'[n][Len(file[n]) + 1] = [number |-> Len(file[n]), text |-> t]

Exchanged(n, k, x) ==
    /\ k < Len(file[n]) /\ Len(file'[n]) = Len(file[n])
    /\ \A i \in 1 .. Len(file[n]) : i # k + 1 => file'[n][i] = file[n][i]
    /\ file'[n][k + 1] = [number |-> k, text |-> x]

Shortened(n, k) ==
    /\ k < Len(file[n]) /\ Len(file'[n]) = k
    /\ \A i \in 1 .. k : file'[n][i] = file[n][i]

\* The other files stay, and so does the type.
OneBoard(n) ==
    /\ file' \in [Nodes -> Seq(Lines)] /\ message_number' \in [Nodes -> Nat]
    /\ \A m \in Nodes : m # n => /\ file'[m] = file[m]
                                 /\ message_number'[m] = message_number[m]

\* The lines of a file.
LEMMA LineFacts ==
    ASSUME BoardTypeOK, NEW n \in Nodes
    PROVE  /\ file[n] \in Seq(Lines) /\ Len(file[n]) \in Nat /\ DOMAIN file[n] = 1 .. Len(file[n])
           /\ message_number[n] \in Nat
           /\ \A i \in 1 .. Len(file[n]) : file[n][i] \in Lines /\ file[n][i].text \in Texts
<1>1. file[n] \in Seq(Lines) /\ message_number[n] \in Nat
  BY DEF BoardTypeOK
<1>2. /\ Len(file[n]) \in Nat /\ DOMAIN file[n] = 1 .. Len(file[n])
      /\ \A i \in 1 .. Len(file[n]) : file[n][i] \in Lines
  BY <1>1
<1>3. \A l \in Lines : l.text \in Texts
  BY DEF Lines
<1> QED BY <1>1, <1>2, <1>3

\* optimalReplaceAlgorithm exchanges one line.
LEMMA ReplaceEffect ==
    ASSUME BoardTypeOK, NEW n \in Nodes, NEW k \in Nat, k < Len(file[n]), NEW x \in Texts,
           optimalReplaceAlgorithm(n, k, x)
    PROVE  OneBoard(n) /\ Exchanged(n, k, x) /\ message_number'[n] = message_number[n]
<1> DEFINE f == file[n]
           l == [number |-> k, text |-> x]
           g == [f EXCEPT ![k + 1] = l]
<1>0. f \in Seq(Lines) /\ Len(f) \in Nat /\ k + 1 \in 1 .. Len(f) /\ l \in Lines
  <2>1. l \in Lines
    BY DEF Lines
  <2>2. f \in Seq(Lines) /\ Len(f) \in Nat
    BY LineFacts
  <2> QED BY <2>1, <2>2
<1>1. file' = [file EXCEPT ![n] = g] /\ UNCHANGED message_number
  BY DEF optimalReplaceAlgorithm
<1> HIDE DEF l
<1>2. /\ g \in Seq(Lines) /\ Len(g) = Len(f) /\ g[k + 1] = l
      /\ \A i \in 1 .. Len(f) : i # k + 1 => g[i] = f[i]
  BY <1>0
<1> HIDE DEF g, f
<1>3. /\ file' \in [Nodes -> Seq(Lines)] /\ file'[n] = g
      /\ \A m \in Nodes : m # n => file'[m] = file[m]
  BY <1>1, <1>2 DEF BoardTypeOK
<1>4. OneBoard(n)
  BY <1>1, <1>3 DEF OneBoard, BoardTypeOK
<1>5. Exchanged(n, k, x)
  BY <1>0, <1>2, <1>3 DEF Exchanged, f, l
<1> QED BY <1>1, <1>4, <1>5

\* writeOperation appends one.
LEMMA WriteEffect ==
    ASSUME BoardTypeOK, NEW n \in Nodes, NEW t \in Txns, message_number[n] = Len(file[n]),
           writeOperation(n, t)
    PROVE  OneBoard(n) /\ Appended(n, t) /\ message_number'[n] = Len(file'[n])
<1> DEFINE f == file[n]
           l == [number |-> message_number[n], text |-> t]
           g == Append(f, l)
<1>0. f \in Seq(Lines) /\ Len(f) \in Nat /\ l \in Lines /\ message_number[n] \in Nat
  BY LineFacts DEF Lines, Texts
<1>1. /\ file' = [file EXCEPT ![n] = g]
      /\ message_number' = [message_number EXCEPT ![n] = message_number[n] + 1]
  BY DEF writeOperation
<1> HIDE DEF l
<1>2. /\ g \in Seq(Lines) /\ Len(g) = Len(f) + 1 /\ g[Len(f) + 1] = l
      /\ \A i \in 1 .. Len(f) : g[i] = f[i]
  BY <1>0
<1> HIDE DEF g, f
<1>3. /\ file' \in [Nodes -> Seq(Lines)] /\ file'[n] = g
      /\ \A m \in Nodes : m # n => file'[m] = file[m]
  BY <1>1, <1>2 DEF BoardTypeOK
<1>4. /\ message_number' \in [Nodes -> Nat] /\ message_number'[n] = message_number[n] + 1
      /\ \A m \in Nodes : m # n => message_number'[m] = message_number[m]
  BY <1>0, <1>1 DEF BoardTypeOK
<1>5. OneBoard(n)
  BY <1>3, <1>4 DEF OneBoard
<1>6. Appended(n, t)
  BY <1>0, <1>2, <1>3 DEF Appended, f, l
<1> QED BY <1>4, <1>5, <1>6 DEF Appended

\* The closure of writeOperation cuts the file.
LEMMA UndoWriteEffect ==
    ASSUME BoardTypeOK, NEW n \in Nodes, message_number[n] = Len(file[n]),
           NEW u \in Undos, u.num + 1 = Len(file[n]), undoWrite(n, u)
    PROVE  OneBoard(n) /\ Shortened(n, u.num) /\ message_number'[n] = Len(file'[n])
<1> DEFINE f == file[n]
           k == u.num
           g == SubSeq(f, 1, k)
<1>0. f \in Seq(Lines) /\ Len(f) \in Nat /\ message_number[n] \in Nat /\ k \in Nat
  BY LineFacts DEF Undos
<1>1. /\ file' = [file EXCEPT ![n] = g]
      /\ message_number' = [message_number EXCEPT ![n] = message_number[n] - 1]
  BY DEF undoWrite
<1> HIDE DEF k
<1>2. g \in Seq(Lines) /\ Len(g) = k /\ \A i \in 1 .. k : g[i] = f[i]
  BY <1>0 DEF k
<1> HIDE DEF g, f
<1>3. /\ file' \in [Nodes -> Seq(Lines)] /\ file'[n] = g
      /\ \A m \in Nodes : m # n => file'[m] = file[m]
  BY <1>1, <1>2 DEF BoardTypeOK
<1>4. /\ message_number' \in [Nodes -> Nat] /\ message_number'[n] = k
      /\ \A m \in Nodes : m # n => message_number'[m] = message_number[m]
  BY <1>0, <1>1 DEF BoardTypeOK, k, f
<1>5. OneBoard(n)
  BY <1>3, <1>4 DEF OneBoard
<1>6. Shortened(n, u.num)
  BY <1>0, <1>2, <1>3 DEF Shortened, f, k
<1> QED BY <1>2, <1>3, <1>4, <1>5, <1>6

\* The operation of a request, on a running node.
LEMMA PerformEffect ==
    ASSUME BoardTypeOK, NEW n \in Nodes, Numbered(n), state[n] = "up", NEW t \in Txns,
           ~MessageMissing(n, t), Perform(n, t)
    PROVE  /\ OneBoard(n) /\ message_number'[n] = Len(file'[n])
           /\ \/ Command[t].op = "WRITE" /\ Appended(n, t)
              \/ Command[t].op = "REPLACE" /\ Exchanged(n, Command[t].num, t)
<1>0. /\ message_number[n] = Len(file[n]) /\ Len(file[n]) \in Nat /\ t \in Texts
      /\ Command[t] \in Commands
  BY LineFacts, BoardAssumption DEF Numbered, Texts
<1>1. CASE Command[t].op = "WRITE"
  <2>1. writeOperation(n, t)
    BY <1>1 DEF Perform
  <2> QED BY <1>0, <1>1, <2>1, WriteEffect
<1>2. CASE Command[t].op = "REPLACE"
  <2>1. Command[t].num \in Nat
    BY <1>0, <1>2 DEF Commands
  <2>2. Command[t].num < Len(file[n]) /\ optimalReplaceAlgorithm(n, Command[t].num, t)
    BY <1>0, <1>2, <2>1 DEF Perform, MessageMissing
  <2>3. OneBoard(n) /\ Exchanged(n, Command[t].num, t) /\ message_number'[n] = message_number[n]
    BY <1>0, <2>1, <2>2, ReplaceEffect
  <2> QED BY <1>0, <1>2, <2>3 DEF Exchanged
<1> QED BY <1>1, <1>2 DEF Perform

\* Every line still carries the number of its position.
LEMMA NumbersKept ==
    ASSUME BoardTypeOK, NEW n \in Nodes, Numbered(n), OneBoard(n),
           message_number'[n] = Len(file'[n]), damaged'[n] = damaged[n],
           \/ \E t \in Txns : Appended(n, t)
           \/ \E k \in Nat : (\E x : Exchanged(n, k, x)) \/ Shortened(n, k)
    PROVE  Numbered(n)'
<1> DEFINE L == Len(file[n])
           M == Len(file'[n])
<1>0. L \in Nat /\ DOMAIN file[n] = 1 .. L /\ M \in Nat /\ DOMAIN file'[n] = 1 .. M
  BY LineFacts DEF OneBoard
<1>1. ASSUME NEW i \in 1 .. M, i \notin damaged[n] PROVE file'[n][i].number = i - 1
  <2>1. ASSUME NEW j \in 1 .. L, j \notin damaged[n] PROVE file[n][j].number = j - 1
    BY <1>0, <2>1 DEF Numbered
  <2>2. ASSUME NEW t \in Txns, Appended(n, t) PROVE file'[n][i].number = i - 1
    <3>1. CASE i = L + 1
      BY <1>0, <2>2, <3>1 DEF Appended
    <3>2. CASE i \in 1 .. L
      BY <1>0, <1>1, <2>1, <2>2, <3>2 DEF Appended
    <3> QED BY <1>0, <2>2, <3>1, <3>2 DEF Appended
  <2>3. ASSUME NEW k \in Nat, NEW x, Exchanged(n, k, x) PROVE file'[n][i].number = i - 1
    <3>1. CASE i = k + 1
      BY <1>0, <2>3, <3>1 DEF Exchanged
    <3>2. CASE i # k + 1
      BY <1>0, <1>1, <2>1, <2>3, <3>2 DEF Exchanged
    <3> QED BY <3>1, <3>2
  <2>4. ASSUME NEW k \in Nat, Shortened(n, k) PROVE file'[n][i].number = i - 1
    <3>1. i \in 1 .. k /\ i \in 1 .. L
      BY <1>0, <2>4 DEF Shortened
    <3> QED BY <1>1, <2>1, <2>4, <3>1 DEF Shortened
  <2> QED BY <2>2, <2>3, <2>4
<1> QED BY <1>0, <1>1 DEF Numbered

\* A file without torn lines gets none, unless the text of one comes from outside.
LEMMA StaysWhole ==
    ASSUME BoardTypeOK, BoardTypeOK', NEW n \in Nodes, damaged'[n] = damaged[n], damaged[n] = {},
           \A i \in DOMAIN file[n] : file[n][i].text # Torn,
           \/ \E t \in Txns : Appended(n, t)
           \/ \E k \in Nat : (\E x : Exchanged(n, k, x) /\ x # Torn) \/ Shortened(n, k)
    PROVE  damaged'[n] = {} /\ \A i \in DOMAIN file'[n] : file'[n][i].text # Torn
<1> DEFINE L == Len(file[n])
           M == Len(file'[n])
<1>0. /\ L \in Nat /\ DOMAIN file[n] = 1 .. L /\ M \in Nat /\ DOMAIN file'[n] = 1 .. M
      /\ \A t \in Txns : t # Torn
  <2>1. file[n] \in Seq(Lines) /\ file'[n] \in Seq(Lines)
    BY DEF BoardTypeOK
  <2> QED BY <2>1, BoardAssumption
<1>1. ASSUME NEW i \in 1 .. M PROVE file'[n][i].text # Torn
  <2>1. ASSUME NEW t \in Txns, Appended(n, t) PROVE file'[n][i].text # Torn
    <3>1. i = L + 1 \/ i \in 1 .. L
      BY <1>0, <2>1 DEF Appended
    <3>2. CASE i = L + 1
      <4>1. file'[n][i].text = t
        BY <2>1, <3>2 DEF Appended
      <4> QED BY <1>0, <4>1
    <3>3. CASE i \in 1 .. L
      <4>1. file'[n][i] = file[n][i]
        BY <2>1, <3>3 DEF Appended
      <4> QED BY <1>0, <3>3, <4>1
    <3> QED BY <3>1, <3>2, <3>3
  <2>2. ASSUME NEW k \in Nat, NEW x, Exchanged(n, k, x), x # Torn PROVE file'[n][i].text # Torn
    <3>1. i \in 1 .. L /\ (i = k + 1 \/ i # k + 1)
      BY <1>0, <2>2 DEF Exchanged
    <3> QED BY <1>0, <2>2, <3>1 DEF Exchanged
  <2>3. ASSUME NEW k \in Nat, Shortened(n, k) PROVE file'[n][i].text # Torn
    <3>1. i \in 1 .. k /\ i \in 1 .. L
      BY <1>0, <2>3 DEF Shortened
    <3> QED BY <1>0, <2>3, <3>1 DEF Shortened
  <2> QED BY <2>1, <2>2, <2>3
<1> QED BY <1>0, <1>1

-----------------------------------------------------------------------------
(* The operation of the master.                                            *)

\* The operation of t on a node nobody has locked.
Operates(n, t) ==
    /\ state[n] = "up" /\ ~writer_active[n] /\ ~MessageMissing(n, t) /\ Perform(n, t)
    /\ wrote' = [wrote EXCEPT ![t] = NumberOf(n, t)]
    /\ UNCHANGED <<state, writer_active, damaged, slaveVars, sockVars>>
    /\ response' \in [Txns -> Responses]
    /\ \A u \in Txns : Running(u)'

\* Nobody else is at work on the file.
LEMMA OperatesKeepsBoards ==
    ASSUME BInv, NEW n \in Nodes, NEW t \in Txns, Operates(n, t)
    PROVE  BInv'
<1> USE DEF Operates, slaveVars, sockVars
<1>0. BoardTypeOK /\ NodeOK(n) /\ ~Holding(n)
  BY DEF BInv, NodeOK, Undoable
<1>1. \A m \in Nodes : Holding(m)' <=> Holding(m)
  BY DEF Holding, Awaiting
<1>2. /\ OneBoard(n) /\ message_number'[n] = Len(file'[n])
      /\ \/ Command[t].op = "WRITE" /\ Appended(n, t)
         \/ Command[t].op = "REPLACE" /\ Exchanged(n, Command[t].num, t)
  BY <1>0, PerformEffect DEF NodeOK
<1>3. Command[t].op = "REPLACE" => Command[t].num \in Nat
  BY BoardAssumption DEF Commands
<1>4. Len(file[n]) \in Nat /\ Len(file'[n]) \in Nat /\ Len(file'[n]) >= Len(file[n])
  BY <1>0, <1>2, LineFacts DEF OneBoard, Appended, Exchanged
<1>5. BoardTypeOK'
  <2>1. NumberOf(n, t) \in Nat
    BY <1>0, <1>3, LineFacts, BoardAssumption DEF NumberOf, Commands
  <2> QED BY <1>0, <1>2, <2>1 DEF BoardTypeOK, OneBoard
<1>6. NoReset'
  BY DEF BInv, NoReset
<1>7. ASSUME NEW m \in Nodes PROVE NodeOK(m)'
  <2>1. CASE m # n
    <3>1. NodeOK(m) /\ Listening(m)
      BY DEF BInv, NodeOK
    <3>2. file'[m] = file[m] /\ message_number'[m] = message_number[m]
      BY <1>2, <2>1 DEF OneBoard
    <3>3. Steady(m)
      BY <1>1, <3>1, <3>2 DEF Steady, Listening
    <3> QED BY <3>1, <3>3, SteadyNode
  <2>2. CASE m = n
    <3>1. Numbered(n)'
      BY <1>0, <1>2, <1>3, NumbersKept DEF NodeOK
    <3>2. Listening(n)' /\ Locked(n)' /\ Undoable(n)'
      BY <1>0, <1>1 DEF NodeOK, Listening, Locked, Undoable
    <3>3. Whole(n) => Whole(n)'
      <4>1. t # Torn
        BY BoardAssumption
      <4> QED BY <1>0, <1>1, <1>2, <1>3, <1>5, <4>1, StaysWhole DEF Whole
    <3>4. Undamaged(n)'
      BY <1>0, <1>1, <1>4, <3>3, BoardAssumption DEF NodeOK, Undamaged
    <3> QED BY <2>2, <3>1, <3>2, <3>4 DEF NodeOK
  <2> QED BY <2>1, <2>2
<1> QED BY <1>5, <1>6, <1>7 DEF BInv

\* The operation of a node without peers, and that of the master of a request.
LEMMA MasterOperates ==
    ASSUME IInv, CInv, BInv, NEW t \in Txns, UNCHANGED slaveVars,
           LocalPerforms(t) \/ \E th \in Threads : th[1] = t /\ MasterPerforms(th)
    PROVE  Operates(Home[t], t)
<1>0. /\ ctl \in [Txns -> Ctls] /\ response \in [Txns -> Responses]
      /\ completion \in [Txns -> Completions] /\ Running(t)
  BY DEF IInv, MasterTypeOK, BInv, BoardTypeOK
<1>1. CASE LocalPerforms(t)
  <2>1. response' \in [Txns -> Responses]
    BY <1>0, <1>1 DEF LocalPerforms, Responses
  <2>2. state[Home[t]] = "up" /\ Peers[Home[t]] = {}
    BY <1>0, <1>1 DEF LocalPerforms, Running
  <2>3. ASSUME NEW u \in Txns PROVE Running(u)'
    <3>1. /\ Running(u) /\ state' = state /\ completion' = completion
          /\ ctl' = [ctl EXCEPT ![t] = "done"] /\ response' = [response EXCEPT ![t] = "WROTE"]
      BY <1>1 DEF BInv, LocalPerforms, statVars
    <3>2. CASE u # t
      BY <1>0, <3>1, <3>2 DEF Running
    <3>3. CASE u = t
      BY <1>0, <2>2, <3>1, <3>3 DEF Running
    <3> QED BY <3>2, <3>3
  <2> QED BY <1>1, <2>1, <2>2, <2>3 DEF Operates, LocalPerforms
<1>2. CASE \E th \in Threads : th[1] = t /\ MasterPerforms(th)
  <2>1. PICK th \in Threads : th[1] = t /\ MasterPerforms(th)
    BY <1>2
  <2>2. /\ ctl[t] = "joining" /\ UNCHANGED <<state, ctl, response>>
        /\ completion' = [completion EXCEPT ![t] = "WROTE"] /\ completion[t] = ""
    BY <2>1 DEF MasterPerforms, MasterOpEnds, At, IInv, OneMasterOp
  <2>3. response' \in [Txns -> Responses] /\ state[Home[t]] = "up"
    BY <1>0, <2>2 DEF Running
  <2>4. ASSUME NEW u \in Txns PROVE Running(u)'
    <3>1. Running(u)
      BY DEF BInv
    <3>2. CASE u # t
      BY <1>0, <2>2, <3>1, <3>2 DEF Running
    <3>3. CASE u = t
      BY <1>0, <2>2, <3>1, <3>3 DEF Running
    <3> QED BY <3>2, <3>3
  <2> QED BY <2>1, <2>3, <2>4 DEF Operates, MasterPerforms, MasterOpEnds
<1> QED BY <1>1, <1>2

-----------------------------------------------------------------------------
(* Steps of the synchronization servers.                                   *)

\* A step of the server of n touches its own board only, and no request.
AtNode(n) ==
    /\ UNCHANGED <<masterVars, masterEnd, state, wrote, damaged>>
    /\ file' \in [Nodes -> Seq(Lines)] /\ message_number' \in [Nodes -> Nat]
    /\ writer_active' \in [Nodes -> BOOLEAN] /\ undo' \in [Nodes -> Undos]
    /\ \A m \in Nodes : m # n =>
         /\ file'[m] = file[m] /\ message_number'[m] = message_number[m]
         /\ writer_active'[m] = writer_active[m] /\ undo'[m] = undo[m]
         /\ status'[m] = status[m] /\ conn'[m] = conn[m] /\ backlog'[m] = backlog[m]
    /\ \A th \in Threads : th[2] # n => fate'[th] = fate[th]

\* Nothing happens to the others.
LEMMA AtNodeElsewhere ==
    ASSUME BInv, NEW n \in Nodes, AtNode(n), NEW m \in Nodes, m # n
    PROVE  Steady(m)
<1> USE DEF AtNode
<1>1. Listening(m)
  BY DEF BInv, NodeOK
<1>2. (Holding(m)' <=> Holding(m)) /\ \A th \in Threads : th[2] = m => fate'[th] = fate[th]
  BY DEF Holding, Awaiting
<1> QED BY <1>1, <1>2 DEF Steady, Listening

\* It is enough to look at that board.
LEMMA AtNodeKeepsBoards ==
    ASSUME BInv, NEW n \in Nodes, AtNode(n), NodeOK(n)'
    PROVE  BInv'
<1> USE DEF AtNode
<1>1. BoardTypeOK'
  BY DEF BInv, BoardTypeOK, masterVars
<1>2. NoReset'
  BY DEF BInv, NoReset
<1>3. ASSUME NEW t \in Txns PROVE Running(t)'
  BY DEF BInv, Running, masterVars, statVars
<1>4. ASSUME NEW m \in Nodes, m # n PROVE NodeOK(m)'
  <2>1. NodeOK(m) /\ Steady(m)
    BY <1>4, AtNodeElsewhere DEF BInv
  <2> QED BY <2>1, SteadyNode
<1> QED BY <1>1, <1>2, <1>3, <1>4 DEF BInv

\* The steps before the operation, and its acknowledgement, leave the file alone.
LEMMA ProtocolStepsKeepBoards ==
    ASSUME IInv, CInv, BInv, NEW n \in Nodes, UNCHANGED masterVars,
           \/ AcceptMaster(n) \/ ReceivePrecommit(n) \/ ReceiveAbort(n) \/ ReceiveCommit(n)
           \/ RefuseCommit(n) \/ AcknowledgeCommit(n)
           \/ (LoseMaster(n) \/ MasterError(n)) /\ ~Awaiting(n)
    PROVE  BInv' /\ AtNode(n) /\ Steady(n)
<1> USE DEF AcceptMaster, ReceivePrecommit, ReceiveAbort, ReceiveCommit, RefuseCommit,
            AcknowledgeCommit, LoseMaster, MasterError, CloseConnection
<1>0. BoardTypeOK /\ NodeOK(n) /\ ConnectionTypeOK
  BY DEF BInv, CInv
<1>1. /\ UNCHANGED <<boardVars, masterEnd, fate>>
      /\ UNCHANGED undo \/ undo' = [undo EXCEPT ![n] = NoUndo]
      /\ \E s : status' = [status EXCEPT ![n] = s]
      /\ \E c : conn' = [conn EXCEPT ![n] = c]
      /\ \E q : backlog' = [backlog EXCEPT ![n] = q]
  <2>1. conn = [conn EXCEPT ![n] = conn[n]] /\ backlog = [backlog EXCEPT ![n] = backlog[n]]
    BY <1>0 DEF ConnectionTypeOK
  <2>2. \E s : status' = [status EXCEPT ![n] = s]
    OBVIOUS
  <2>3. (\E c : conn' = [conn EXCEPT ![n] = c]) /\ \E q : backlog' = [backlog EXCEPT ![n] = q]
    BY <2>1
  <2> QED BY <2>2, <2>3
<1>2. NoUndo \in Undos
  BY DEF NoUndo, Undos, Texts
<1>3. AtNode(n)
  <2>1. /\ UNCHANGED <<state, file, message_number, writer_active, wrote, damaged>>
        /\ UNCHANGED <<masterVars, masterEnd, fate>>
    BY <1>1 DEF boardVars
  <2>2. undo' \in [Nodes -> Undos] /\ \A m \in Nodes : m # n => undo'[m] = undo[m]
    <3>1. undo \in [Nodes -> Undos]
      BY <1>0 DEF BoardTypeOK
    <3>2. CASE UNCHANGED undo
      BY ONLY <3>1, <3>2
    <3>3. CASE undo' = [undo EXCEPT ![n] = NoUndo]
      BY ONLY <1>2, <3>1, <3>3, n \in Nodes
    <3> QED BY ONLY <1>1, <3>2, <3>3
  <2>3. ASSUME NEW m \in Nodes, m # n
        PROVE  status'[m] = status[m] /\ conn'[m] = conn[m] /\ backlog'[m] = backlog[m]
    BY <1>0, <1>1, <2>3 DEF ConnectionTypeOK
  <2> QED BY <1>0, <2>1, <2>2, <2>3 DEF AtNode, BoardTypeOK
<1>4. (Holding(n)' <=> Holding(n)) /\ (Holding(n) => undo' = undo /\ conn' = conn)
  BY <1>0 DEF Holding, Awaiting, ConnectionTypeOK
<1>5. state[n] = "up"
  <2>1. status[n] # "accept" \/ backlog[n] # <<>>
    BY DEF Awaiting
  <2> QED BY <1>0, <2>1 DEF NodeOK, Listening
<1>6. Steady(n)
  BY <1>1, <1>4, <1>5 DEF Steady, boardVars
<1>7. NodeOK(n)'
  BY <1>0, <1>6, SteadyNode
<1> QED BY <1>3, <1>6, <1>7, AtNodeKeepsBoards

\* The operation of a peer: the closure is made from the file it changes.
LEMMA PerformCommitKeepsBoards ==
    ASSUME IInv, CInv, BInv, NEW n \in Nodes, UNCHANGED masterVars, PerformCommit(n),
           NEW c, c = conn[n], NEW t, t = c[1]
    PROVE  /\ BInv' /\ AtNode(n) /\ Holding(n)'
           /\ conn'[n] = c /\ undo'[n] = UndoOf(n, t)
           /\ \/ Command[t].op = "WRITE" /\ Appended(n, t)
              \/ Command[t].op = "REPLACE" /\ Exchanged(n, Command[t].num, t)
<1> DEFINE u == UndoOf(n, t)
<1>0. BoardTypeOK /\ NodeOK(n) /\ ConnectionTypeOK
  BY DEF BInv, CInv
<1>1. /\ status[n] = "committing" /\ ~writer_active[n] /\ ~MessageMissing(n, t)
      /\ writer_active' = [writer_active EXCEPT ![n] = TRUE]
      /\ undo' = [undo EXCEPT ![n] = u] /\ Perform(n, t)
      /\ fate' = [fate EXCEPT ![c] = "applied"] /\ status' = [status EXCEPT ![n] = "performed"]
      /\ UNCHANGED <<conn, state, wrote, damaged, sockVars>>
  BY DEF PerformCommit
<1>2. c \in Threads /\ c[2] = n /\ t \in Txns /\ state[n] = "up"
  BY <1>0, <1>1, ServedConnection, ThreadParts DEF NodeOK, Listening
<1>3. /\ OneBoard(n) /\ message_number'[n] = Len(file'[n])
      /\ \/ Command[t].op = "WRITE" /\ Appended(n, t)
         \/ Command[t].op = "REPLACE" /\ Exchanged(n, Command[t].num, t)
  BY <1>0, <1>1, <1>2, PerformEffect DEF NodeOK
<1>4. /\ Command[t].op = "REPLACE" => Command[t].num \in Nat
      /\ Command[t].op \in {"WRITE", "REPLACE"}
  BY <1>2, BoardAssumption DEF Commands
<1>5. /\ Len(file[n]) \in Nat /\ Len(file'[n]) \in Nat /\ Len(file'[n]) >= Len(file[n])
  BY <1>0, <1>3, LineFacts DEF OneBoard, Appended, Exchanged
<1>6. u \in Undos
  <2>1. CASE Command[t].op = "WRITE"
    BY <1>5, <2>1 DEF UndoOf, Undos, Texts
  <2>2. CASE Command[t].op = "REPLACE"
    <3>1. Command[t].num + 1 \in 1 .. Len(file[n])
      BY <1>3, <1>4, <1>5, <2>2 DEF Exchanged
    <3>2. file[n][Command[t].num + 1].text \in Texts
      BY <1>0, <3>1, LineFacts
    <3> QED BY <1>4, <2>2, <3>2 DEF UndoOf, Undos
  <2> QED BY <1>4, <2>1, <2>2
<1>a. Whole(n) => u.text # Torn
  <2>1. CASE Command[t].op = "WRITE"
    BY <2>1, BoardAssumption DEF UndoOf
  <2>2. CASE Command[t].op = "REPLACE"
    <3>1. Command[t].num + 1 \in DOMAIN file[n]
      BY <1>0, <1>3, <1>4, <1>5, <2>2, LineFacts DEF Exchanged
    <3> QED BY <2>2, <3>1 DEF UndoOf, Whole
  <2> QED BY <1>4, <2>1, <2>2
<1>7. Fits(t, u, Len(file'[n])) /\ (u.kind = "truncate" => u.num = Len(file[n]))
  <2>1. CASE Command[t].op = "WRITE"
    <3>1. u.kind = "truncate" /\ u.num = Len(file[n])
      BY <2>1 DEF UndoOf
    <3> QED BY <1>3, <1>5, <2>1, <3>1 DEF Fits, Appended
  <2>2. CASE Command[t].op = "REPLACE"
    <3>1. u.kind = "restore" /\ u.num = Command[t].num
      BY <2>2 DEF UndoOf
    <3> QED BY <1>3, <1>5, <2>2, <3>1 DEF Fits, Exchanged
  <2> QED BY <1>4, <2>1, <2>2
<1> HIDE DEF u
<1>8. /\ undo'[n] = u /\ conn'[n] = c /\ writer_active'[n] /\ status'[n] = "performed"
      /\ state'[n] = "up"
  BY <1>0, <1>1, <1>2 DEF BoardTypeOK, ConnectionTypeOK
<1>9. AtNode(n)
  BY <1>0, <1>1, <1>2, <1>3, <1>6 DEF AtNode, OneBoard, BoardTypeOK, ConnectionTypeOK, sockVars
<1>10. NodeOK(n)'
  <2>1. Numbered(n)'
    BY <1>0, <1>1, <1>2, <1>3, <1>4, NumbersKept DEF NodeOK
  <2>2. Holding(n)' /\ Listening(n)'
    BY <1>8 DEF Listening, Holding
  <2>3. Locked(n)'
    BY <2>2 DEF Locked
  <2>4. Undoable(n)'
    BY <1>7, <1>8 DEF Undoable
  <2>5. Undamaged(n)'
    <3>1. Calm => Len(file[n]) >= InitialLength /\ InitialLength \in Nat /\ Whole(n)
      BY <1>0, BoardAssumption DEF NodeOK, Undamaged
    <3>2. BoardTypeOK' /\ t # Torn /\ damaged' = damaged
      BY <1>0, <1>1, <1>2, <1>9, BoardAssumption DEF BoardTypeOK, AtNode, masterVars
    <3>3. Whole(n) => Whole(n)'
      BY <1>0, <1>2, <1>3, <1>4, <1>8, <1>a, <3>2, StaysWhole DEF Whole
    <3> QED BY <1>5, <1>7, <1>8, <3>1, <3>3 DEF Undamaged
  <2> QED BY <2>1, <2>2, <2>3, <2>4, <2>5 DEF NodeOK
<1>11. Holding(n)'
  BY <1>8 DEF Holding
<1> QED BY <1>3, <1>8, <1>9, <1>10, <1>11, AtNodeKeepsBoards DEF u

\* The final message, or its absence: the operation stays or is taken back, and the
\* lock is released.
LEMMA SettlingKeepsBoards ==
    ASSUME IInv, CInv, BInv, NEW n \in Nodes, UNCHANGED masterVars,
           ReceiveNoop(n) \/ ReceiveUndo(n) \/ (LoseMaster(n) /\ Awaiting(n))
    PROVE  /\ BInv' /\ AtNode(n) /\ ~Holding(n)'
           /\ \/ ReceiveNoop(n) /\ file' = file
              \/ undo[n].kind = "truncate" /\ Shortened(n, undo[n].num)
              \/ undo[n].kind = "restore" /\ Exchanged(n, undo[n].num, undo[n].text)
<1> DEFINE c == conn[n]
           u == undo[n]
<1>0. BoardTypeOK /\ NodeOK(n) /\ ConnectionTypeOK
  BY DEF BInv, CInv
<1>1. /\ Awaiting(n) /\ CloseConnection(n) /\ UNCHANGED <<state, wrote, damaged>>
      /\ writer_active' = [writer_active EXCEPT ![n] = FALSE]
      /\ \E f : fate' = [fate EXCEPT ![c] = f]
      /\ (ReceiveNoop(n) /\ UNCHANGED <<file, message_number>>) \/ Undo(n, u)
  BY DEF ReceiveNoop, ReceiveUndo, LoseMaster, UndoAndRelease
<1>2. Holding(n) /\ status[n] # "accept"
  BY <1>1 DEF Holding, Awaiting
<1>3. c \in Threads /\ c[2] = n /\ state[n] = "up" /\ Fits(c[1], u, Len(file[n]))
  BY <1>0, <1>2, ServedConnection DEF NodeOK, Listening, Undoable
<1>4. u \in Undos /\ u.num \in Nat /\ u.text \in Texts /\ message_number[n] = Len(file[n])
  BY <1>0, <1>3 DEF BoardTypeOK, Undos, NodeOK, Numbered
<1>5. /\ OneBoard(n) /\ message_number'[n] = Len(file'[n])
      /\ \/ ReceiveNoop(n) /\ file' = file
         \/ u.kind = "truncate" /\ Shortened(n, u.num)
         \/ u.kind = "restore" /\ Exchanged(n, u.num, u.text)
  <2>1. CASE ReceiveNoop(n) /\ UNCHANGED <<file, message_number>>
    BY <1>0, <1>4, <2>1 DEF OneBoard, BoardTypeOK
  <2>2. CASE u.kind = "truncate" /\ undoWrite(n, u)
    <3>1. u.num + 1 = Len(file[n])
      BY <1>3, <2>2 DEF Fits
    <3> QED BY <1>0, <1>4, <2>2, <3>1, UndoWriteEffect
  <2>3. CASE u.kind = "restore" /\ optimalReplaceAlgorithm(n, u.num, u.text)
    <3>1. u.num < Len(file[n])
      BY <1>3, <2>3 DEF Fits
    <3>2. OneBoard(n) /\ Exchanged(n, u.num, u.text) /\ message_number'[n] = message_number[n]
      BY <1>0, <1>4, <2>3, <3>1, ReplaceEffect
    <3> QED BY <1>4, <2>3, <3>2 DEF Exchanged
  <2> QED BY <1>1, <2>1, <2>2, <2>3 DEF Undo
<1>6. /\ undo' = [undo EXCEPT ![n] = NoUndo] /\ conn' = [conn EXCEPT ![n] = NoThread]
      /\ status' = [status EXCEPT ![n] = "accept"] /\ UNCHANGED <<backlog, masterEnd>>
      /\ NoUndo \in Undos
  BY <1>1 DEF CloseConnection, NoUndo, Undos, Texts
<1>7. AtNode(n)
  BY <1>0, <1>1, <1>3, <1>5, <1>6 DEF AtNode, OneBoard, BoardTypeOK, ConnectionTypeOK
<1>8. /\ ~Holding(n)' /\ ~writer_active'[n] /\ state'[n] = "up"
  BY <1>0, <1>1, <1>3, <1>6 DEF Holding, Awaiting, BoardTypeOK, ConnectionTypeOK
<1>9. NodeOK(n)'
  <2>1. Numbered(n)'
    <3>1. CASE file' = file
      BY <1>0, <1>1, <1>5, <3>1 DEF NodeOK, Numbered
    <3>2. CASE file' # file
      BY <1>0, <1>1, <1>4, <1>5, <3>2, NumbersKept DEF NodeOK
    <3> QED BY <3>1, <3>2
  <2>2. Listening(n)' /\ Locked(n)' /\ Undoable(n)'
    BY <1>8 DEF Listening, Locked, Undoable
  <2>3. Calm => Len(file'[n]) >= InitialLength
    <3>1. /\ Calm => Len(file[n]) >= InitialLength
          /\ Calm /\ u.kind = "truncate" => u.num >= InitialLength
      BY <1>0, <1>2 DEF NodeOK, Undamaged
    <3> QED BY <1>5, <3>1 DEF Shortened, Exchanged
  <2>4. Whole(n) => Whole(n)'
    <3>1. BoardTypeOK'
      BY <1>0, <1>7 DEF BoardTypeOK, AtNode, masterVars
    <3>2. CASE file' = file
      BY <1>1, <1>8, <3>2 DEF Whole
    <3>3. CASE file' # file
      BY <1>0, <1>1, <1>2, <1>4, <1>5, <1>8, <3>1, <3>3, StaysWhole DEF Whole
    <3> QED BY <3>2, <3>3
  <2>5. Undamaged(n)'
    BY <1>0, <1>8, <2>3, <2>4 DEF Undamaged, NodeOK
  <2> QED BY <2>1, <2>2, <2>5 DEF NodeOK
<1> QED BY <1>5, <1>7, <1>8, <1>9, AtNodeKeepsBoards

\* The connection is lost in error while the lock is held: the lock stays behind.
LEMMA MasterErrorKeepsBoards ==
    ASSUME IInv, CInv, BInv, NEW n \in Nodes, UNCHANGED masterVars, MasterError(n), Awaiting(n)
    PROVE  BInv' /\ AtNode(n) /\ ~Holding(n)' /\ file' = file /\ ~Calm
<1> DEFINE c == conn[n]
<1>0. BoardTypeOK /\ NodeOK(n) /\ ConnectionTypeOK
  BY DEF BInv, CInv
<1>1. /\ masterEnd[c] = "reset" /\ UNCHANGED <<fate, boardVars, backlog, masterEnd>>
      /\ undo' = [undo EXCEPT ![n] = NoUndo] /\ conn' = [conn EXCEPT ![n] = NoThread]
      /\ status' = [status EXCEPT ![n] = "accept"] /\ NoUndo \in Undos
  BY DEF MasterError, PeerGetsError, CloseConnection, NoUndo, Undos, Texts
<1>2. c \in Threads /\ c[2] = n /\ state[n] = "up" /\ fate[c] = "applied"
  <2>1. status[n] # "accept"
    BY DEF Awaiting
  <2>2. c \in Threads /\ c[2] = n /\ Serving(c, status[n]) /\ state[n] = "up"
    BY <1>0, <2>1, ServedConnection DEF NodeOK, Listening
  <2> QED BY <2>2 DEF Awaiting, Serving, Performed
<1>3. ~Calm
  BY <1>1, <1>2 DEF BInv, NoReset
<1>4. AtNode(n)
  BY <1>0, <1>1, <1>2 DEF AtNode, BoardTypeOK, ConnectionTypeOK, boardVars
<1>5. ~Holding(n)' /\ state'[n] = "up" /\ file' = file
  BY <1>0, <1>1, <1>2 DEF Holding, Awaiting, ConnectionTypeOK, boardVars
<1>6. NodeOK(n)'
  <2>1. Numbered(n)'
    BY <1>0, <1>1 DEF NodeOK, Numbered, boardVars
  <2>2. Locked(n)'
    BY <1>1, <1>2 DEF Locked
  <2>3. Listening(n)' /\ Undoable(n)' /\ Undamaged(n)'
    BY <1>3, <1>5 DEF Listening, Undoable, Undamaged
  <2> QED BY <2>1, <2>2, <2>3 DEF NodeOK
<1> QED BY <1>3, <1>4, <1>5, <1>6, AtNodeKeepsBoards

-----------------------------------------------------------------------------
(* Ends and starts of processes.                                           *)

\* The end of a process leaves the file of n as it was, or at least as many lines and
\* those it had where they are not damaged.
FileLeft(n) ==
    /\ file' \in [Nodes -> Seq(Lines)] /\ damaged' \in [Nodes -> SUBSET Nat]
    /\ \A m \in Nodes : m # n => file'[m] = file[m] /\ damaged'[m] = damaged[m]
    /\ Len(file[n]) <= Len(file'[n])
    /\ \A i \in DOMAIN file'[n] \ damaged'[n] :
         i \in DOMAIN file[n] \ damaged[n] /\ file'[n][i] = file[n][i]

\* Lines before lines.
LEMMA Joined ==
    ASSUME NEW q \in Seq(Lines), NEW r \in Seq(Lines)
    PROVE  /\ q \o r \in Seq(Lines) /\ Len(q \o r) = Len(q) + Len(r)
           /\ \A i \in 1 .. Len(q) : (q \o r)[i] = q[i]
OBVIOUS

\* A rewriting cut short keeps the lines before the one it was about.
LEMMA CutLeavesLines ==
    ASSUME BoardTypeOK, NEW n \in Nodes, NEW k \in Nat, k < Len(file[n]), NEW x \in Texts,
           CutShort(n, k, x)
    PROVE  FileLeft(n)
<1> DEFINE f == file[n]
           rest == SubSeq(f, k + 2, Len(f))
<1>0. /\ f \in Seq(Lines) /\ Len(f) \in Nat /\ DOMAIN f = 1 .. Len(f)
      /\ f[k + 1] \in Lines /\ [number |-> k, text |-> x] \in Lines
      /\ [number |-> k, text |-> Torn] \in Lines
  <2>1. f \in Seq(Lines) /\ Len(f) \in Nat /\ DOMAIN f = 1 .. Len(f) /\ f[k + 1] \in Lines
    BY LineFacts
  <2> QED BY <2>1 DEF Lines, Texts
<1>1. rest \in Seq(Lines) /\ Len(rest) \in Nat /\ Len(rest) = Len(f) - (k + 1)
  BY <1>0
<1>2. PICK l \in {f[k + 1], [number |-> k, text |-> x]},
           p \in {<<>>, <<[number |-> k, text |-> Torn]>>}, a \in 0 .. Len(rest),
           b \in 0 .. Len(rest) :
        /\ b <= a + Len(p)
        /\ file' = [file EXCEPT ![n] = SubSeq(f, 1, k) \o <<l>> \o SubSeq(rest, 1, a)
                                         \o p \o SubSeq(rest, b + 1, Len(rest))]
        /\ damaged' = [damaged EXCEPT ![n] = damaged[n] \cup (k + 1 .. Len(file'[n]))]
  BY Zenon DEF CutShort
<1> DEFINE head == SubSeq(f, 1, k)
           u == SubSeq(rest, 1, a)
           v == SubSeq(rest, b + 1, Len(rest))
           g == head \o <<l>> \o u \o p \o v
<1>3. p \in Seq(Lines) /\ Len(p) \in Nat /\ l \in Lines
  <2>1. ASSUME NEW y \in Lines PROVE <<y>> \in Seq(Lines) /\ <<>> \in Seq(Lines)
    OBVIOUS
  <2>2. p \in Seq(Lines)
    BY <1>0, <1>2, <2>1, Zenon
  <2>3. l \in Lines
    BY <1>0, <1>2, Zenon
  <2> QED BY <2>2, <2>3
<1> HIDE DEF rest
<1>4. /\ head \in Seq(Lines) /\ Len(head) = k /\ \A i \in 1 .. k : head[i] = f[i]
      /\ u \in Seq(Lines) /\ Len(u) = a
      /\ v \in Seq(Lines) /\ Len(v) = Len(rest) - b
  <2>1. head \in Seq(Lines) /\ Len(head) = k /\ \A i \in 1 .. k : head[i] = f[i]
    BY <1>0
  <2>2. u \in Seq(Lines) /\ Len(u) = a
    BY <1>1, <1>2
  <2>3. v \in Seq(Lines) /\ Len(v) = Len(rest) - b
    BY <1>1, <1>2
  <2> QED BY <2>1, <2>2, <2>3
<1> HIDE DEF head, u, v
<1>5. /\ g \in Seq(Lines) /\ Len(g) = k + 1 + a + Len(p) + (Len(rest) - b)
      /\ \A i \in 1 .. k : g[i] = head[i]
  <2> DEFINE g1 == head \o <<l>>
             g2 == g1 \o u
             g3 == g2 \o p
             g4 == g3 \o v
  <2>1. <<l>> \in Seq(Lines) /\ Len(<<l>>) = 1
    BY <1>3
  <2>2. g1 \in Seq(Lines) /\ Len(g1) = k + 1 /\ \A i \in 1 .. k : g1[i] = head[i]
    BY <1>4, <2>1, Joined
  <2>3. g2 \in Seq(Lines) /\ Len(g2) = k + 1 + a /\ \A i \in 1 .. k : g2[i] = g1[i]
    <3> HIDE DEF g1
    <3>1. g1 \in Seq(Lines) /\ u \in Seq(Lines)
      BY <1>4, <2>2
    <3>2. /\ g2 \in Seq(Lines) /\ Len(g2) = Len(g1) + Len(u)
          /\ \A i \in 1 .. Len(g1) : g2[i] = g1[i]
      BY ONLY <3>1, Joined
    <3>3. a \in Nat
      BY <1>1, <1>2
    <3> HIDE DEF g2
    <3> QED BY ONLY <1>4, <2>2, <3>2, <3>3, k \in Nat
  <2>4. g3 \in Seq(Lines) /\ Len(g3) = k + 1 + a + Len(p) /\ \A i \in 1 .. k : g3[i] = g2[i]
    <3> HIDE DEF g1, g2
    <3>1. g2 \in Seq(Lines) /\ p \in Seq(Lines)
      BY <1>3, <2>3
    <3>2. /\ g3 \in Seq(Lines) /\ Len(g3) = Len(g2) + Len(p)
          /\ \A i \in 1 .. Len(g2) : g3[i] = g2[i]
      BY ONLY <3>1, Joined
    <3>3. a \in Nat
      BY <1>1, <1>2
    <3> HIDE DEF g3
    <3> QED BY ONLY <1>3, <2>3, <3>2, <3>3, k \in Nat
  <2>5. /\ g4 \in Seq(Lines) /\ Len(g4) = k + 1 + a + Len(p) + (Len(rest) - b)
        /\ \A i \in 1 .. k : g4[i] = g3[i]
    <3> HIDE DEF g1, g2, g3
    <3>1. g3 \in Seq(Lines) /\ v \in Seq(Lines)
      BY <1>4, <2>4
    <3>2. /\ g4 \in Seq(Lines) /\ Len(g4) = Len(g3) + Len(v)
          /\ \A i \in 1 .. Len(g3) : g4[i] = g3[i]
      BY ONLY <3>1, Joined
    <3>3. a \in Nat /\ b \in Nat
      BY <1>1, <1>2
    <3> HIDE DEF g4
    <3>4. Len(g3) = k + 1 + a + Len(p) /\ Len(p) \in Nat /\ k \in Nat
      BY <1>3, <2>4
    <3>5. \A i \in 1 .. k : i \in 1 .. Len(g3)
      BY ONLY <3>3, <3>4
    <3>6. Len(g4) = k + 1 + a + Len(p) + (Len(rest) - b)
      BY ONLY <1>4, <3>2, <3>4
    <3> QED BY ONLY <3>2, <3>5, <3>6
  <2>6. g = g4
    BY DEF g4, g3, g2, g1, g
  <2> HIDE DEF g1, g2, g3, g4
  <2> QED BY <2>2, <2>3, <2>4, <2>5, <2>6
<1>6. file' = [file EXCEPT ![n] = g]
  BY <1>2 DEF head, u, v
<1> HIDE DEF g
<1>7. /\ Len(g) \in Nat /\ Len(f) <= Len(g) /\ DOMAIN g = 1 .. Len(g)
      /\ \A i \in 1 .. k : g[i] = f[i] /\ i \in DOMAIN f
  <2> HIDE DEF f
  <2>1. Len(g) \in Nat /\ Len(f) <= Len(g) /\ DOMAIN g = 1 .. Len(g)
    BY <1>0, <1>1, <1>2, <1>3, <1>5
  <2>2. ASSUME NEW i \in 1 .. k PROVE g[i] = f[i] /\ i \in DOMAIN f
    <3>1. k < Len(f)
      BY DEF f
    <3> QED BY <1>0, <1>4, <1>5, <3>1
  <2> QED BY <2>1, <2>2
<1>8. /\ file' \in [Nodes -> Seq(Lines)] /\ file'[n] = g
      /\ \A m \in Nodes : m # n => file'[m] = file[m]
  BY <1>5, <1>6 DEF BoardTypeOK
<1>9. /\ damaged' \in [Nodes -> SUBSET Nat] /\ damaged'[n] = damaged[n] \cup (k + 1 .. Len(g))
      /\ \A m \in Nodes : m # n => damaged'[m] = damaged[m]
  <2>1. damaged \in [Nodes -> SUBSET Nat] /\ (k + 1 .. Len(g)) \in SUBSET Nat
    BY <1>7 DEF BoardTypeOK
  <2> QED BY <1>2, <1>8, <2>1
<1>10. ASSUME NEW i \in DOMAIN g \ damaged'[n] PROVE i \in 1 .. k /\ i \notin damaged[n]
  BY <1>7, <1>9
<1> QED BY <1>7, <1>8, <1>9, <1>10 DEF FileLeft

\* The lock and the closure go with the memory of the process.
LEMMA ProcessEndsKeepsBoards ==
    ASSUME IInv, CInv, BInv, NEW n \in Nodes, NEW how \in {"down", "aborted"},
           ProcessEnds(n, how), FileLeft(n), ~Calm
    PROVE  BInv'
<1>0. BoardTypeOK /\ ConnectionTypeOK /\ ctl \in [Txns -> Ctls]
  BY DEF BInv, CInv, IInv, MasterTypeOK
<1>1. /\ state' = [state EXCEPT ![n] = how]
      /\ writer_active' = [writer_active EXCEPT ![n] = FALSE]
      /\ backlog' = [backlog EXCEPT ![n] = <<>>]
      /\ status' = [status EXCEPT ![n] = "accept"]
      /\ conn' = [conn EXCEPT ![n] = NoThread]
      /\ undo' = [undo EXCEPT ![n] = NoUndo]
      /\ UNCHANGED <<message_number, wrote, response, completion, fate>>
  BY DEF ProcessEnds, statVars
<1>2. \A t \in Txns : ctl'[t] = IF t \in Busy(n) THEN "crashed" ELSE ctl[t]
  BY DEF ProcessEnds
<1>3. \A th \in Threads : masterEnd[th] = "reset" => masterEnd'[th] = "reset"
  BY DEF ProcessEnds
<1>4. BoardTypeOK'
  <2>1. NoUndo \in Undos
    BY DEF NoUndo, Undos, Texts
  <2> QED BY <1>0, <1>1, <2>1 DEF BoardTypeOK, FileLeft
<1>5. NoReset'
  BY DEF NoReset
<1>6. ASSUME NEW t \in Txns PROVE Running(t)'
  <2>1. Running(t) /\ completion'[t] = completion[t] /\ response'[t] = response[t]
    BY <1>1 DEF BInv
  <2>2. CASE t \in Busy(n)
    <3>1. ctl'[t] = "crashed" /\ ctl[t] \in {"local", "joining"}
      BY <1>2, <2>2 DEF Busy
    <3>2. response[t] = "none"
      BY <2>1, <3>1 DEF Running
    <3> QED BY <2>1, <3>1, <3>2 DEF Running
  <2>3. CASE t \notin Busy(n)
    <3>1. ctl'[t] = ctl[t]
      BY <1>2, <2>3
    <3>2. ctl[t] \in {"local", "joining"} => state'[Home[t]] = state[Home[t]]
      BY <1>0, <1>1, <2>3 DEF Busy, BoardTypeOK
    <3> QED BY <2>1, <3>1, <3>2 DEF Running
  <2> QED BY <2>2, <2>3
<1>7. ASSUME NEW m \in Nodes PROVE NodeOK(m)'
  <2>0. NodeOK(m)
    BY DEF BInv
  <2>1. CASE m # n
    <3>1. /\ status'[m] = status[m] /\ conn'[m] = conn[m] /\ backlog'[m] = backlog[m]
          /\ state'[m] = state[m] /\ writer_active'[m] = writer_active[m] /\ undo'[m] = undo[m]
      BY <1>0, <1>1, <2>1 DEF BoardTypeOK, ConnectionTypeOK
    <3>2. Holding(m)' <=> Holding(m)
      BY <3>1 DEF Holding, Awaiting
    <3>3. Steady(m)
      BY <1>1, <1>3, <2>0, <2>1, <3>1, <3>2 DEF Steady, NodeOK, Listening, FileLeft
    <3> QED BY <2>0, <3>3, SteadyNode
  <2>2. CASE m = n
    <3>1. state'[n] = how /\ ~writer_active'[n] /\ backlog'[n] = <<>> /\ status'[n] = "accept"
      BY <1>0, <1>1 DEF BoardTypeOK, ConnectionTypeOK
    <3>2. ~Holding(n)'
      BY <3>1 DEF Holding, Awaiting
    <3>3. Numbered(n)'
      BY <2>0, <2>2, <3>1 DEF NodeOK, Numbered, FileLeft
    <3>4. Listening(n)' /\ Locked(n)' /\ Undoable(n)' /\ Undamaged(n)'
      BY <3>1, <3>2 DEF Listening, Locked, Undoable, Undamaged
    <3> QED BY <2>2, <3>3, <3>4 DEF NodeOK
  <2> QED BY <2>1, <2>2
<1> QED BY <1>4, <1>5, <1>6, <1>7 DEF BInv

\* The asserts fail only on a file that has lost a line of the start, or has a torn one.
LEMMA AssertsAreNotCalm ==
    ASSUME BInv, NEW n \in Nodes, NEW t \in Txns, Unusable(n, t)
    PROVE  ~Calm
<1>1. /\ Command[t].op = "REPLACE" /\ Len(file[n]) \in Nat
      /\ DOMAIN file[n] = 1 .. Len(file[n])
  BY LineFacts DEF Unusable, MessageMissing, Garbled, BInv
<1>2. Command[t].num \in Nat /\ InitialLength \in Nat
  BY <1>1, BoardAssumption DEF Commands
<1>3. Calm => Len(file[n]) >= InitialLength /\ \A i \in DOMAIN file[n] : file[n][i].text # Torn
  BY DEF BInv, NodeOK, Undamaged, Whole
<1>4. CASE MessageMissing(n, t)
  BY <1>1, <1>2, <1>3, <1>4 DEF Calm, MessageMissing
<1>5. CASE Garbled(n, t)
  <2>1. Command[t].num + 1 \in DOMAIN file[n] /\ file[n][Command[t].num + 1].text = Torn
    BY <1>1, <1>2, <1>5 DEF Garbled
  <2> QED BY <1>3, <2>1
<1> QED BY <1>4, <1>5 DEF Unusable

\* setBulletinBoardFile counts the lines of the file.
LEMMA RestartKeepsBoards ==
    ASSUME IInv, CInv, BInv, NEW n \in Nodes, Restart(n)
    PROVE  BInv'
<1>0. BoardTypeOK /\ NodeOK(n) /\ Len(file[n]) \in Nat
  BY LineFacts DEF BInv
<1>1. /\ state[n] # "up" /\ state' = [state EXCEPT ![n] = "up"]
      /\ message_number' = [message_number EXCEPT ![n] = Len(file[n])]
      /\ UNCHANGED <<file, writer_active, wrote, damaged, sockVars, masterVars, slaveVars>>
  BY DEF Restart
<1> USE DEF sockVars, masterVars, slaveVars, statVars
<1>2. BoardTypeOK'
  BY <1>0, <1>1 DEF BoardTypeOK
<1>3. NoReset'
  BY <1>1 DEF BInv, NoReset
<1>4. ASSUME NEW t \in Txns PROVE Running(t)'
  <2>1. state[Home[t]] = "up" => state'[Home[t]] = "up"
    BY <1>0, <1>1, BoardAssumption DEF BoardTypeOK
  <2> QED BY <1>1, <2>1 DEF BInv, Running
<1>5. ASSUME NEW m \in Nodes PROVE NodeOK(m)'
  <2>0. NodeOK(m) /\ (Holding(m)' <=> Holding(m))
    BY <1>1 DEF BInv, Holding, Awaiting
  <2>1. CASE m # n
    <3>1. state'[m] = state[m] /\ message_number'[m] = message_number[m]
      BY <1>0, <1>1, <2>1 DEF BoardTypeOK
    <3>2. Steady(m)
      BY <1>1, <2>0, <3>1 DEF Steady, NodeOK, Listening
    <3> QED BY <2>0, <3>2, SteadyNode
  <2>2. CASE m = n
    <3>1. state'[n] = "up" /\ message_number'[n] = Len(file[n])
      BY <1>0, <1>1 DEF BoardTypeOK
    <3>2. Listening(n)' /\ Locked(n)' /\ Undoable(n)' /\ Numbered(n)'
      BY <1>0, <1>1, <2>0, <2>2, <3>1 DEF NodeOK, Listening, Locked, Undoable, Numbered
    <3>3. Undamaged(n)'
      BY <1>0, <1>1, <2>0, <2>2, <3>1 DEF NodeOK, Undamaged, Whole
    <3> QED BY <2>2, <3>2, <3>3 DEF NodeOK
  <2> QED BY <2>1, <2>2
<1> QED BY <1>2, <1>3, <1>4, <1>5 DEF BInv

-----------------------------------------------------------------------------

\* The steps of the system, as far as the boards are concerned.
LEMMA StepKinds ==
    ASSUME IInv, CInv, BInv, [Next]_vars
    PROVE  \/ \E t \in Txns :
                /\ UNCHANGED slaveVars
                /\ \/ Reject(t) \/ StartSynchronization(t) \/ StartLocal(t) \/ LocalFails(t)
                   \/ JoinThreads(t)
           \/ \E th \in Threads :
                /\ UNCHANGED slaveVars
                /\ ThreadWork(th)
           \/ \E t \in Txns :
                /\ UNCHANGED slaveVars
                /\ LocalPerforms(t) \/ \E th \in Threads : th[1] = t /\ MasterPerforms(th)
           \/ \E n \in Nodes : SyncStep(n) /\ UNCHANGED masterVars
           \/ \E n \in Nodes, how \in {"down", "aborted"} :
                ProcessEnds(n, how) /\ FileLeft(n) /\ ~Calm
           \/ \E n \in Nodes : Restart(n)
           \/ UNCHANGED vars
<1>0. \A t \in Txns : Home[t] \in Nodes
  BY BoardAssumption
<1>a. ASSUME NEW n \in Nodes, UNCHANGED <<file, damaged>> PROVE FileLeft(n)
  <2>1. BoardTypeOK /\ Len(file[n]) \in Nat
    BY LineFacts DEF BInv
  <2> QED BY <1>a, <2>1 DEF BoardTypeOK, FileLeft
<1>1. ASSUME NEW t \in Txns, LocalAsserts(t)
      PROVE  ProcessEnds(Home[t], "aborted") /\ FileLeft(Home[t]) /\ ~Calm
  BY <1>0, <1>1, <1>a, AssertsAreNotCalm DEF LocalAsserts
<1>2. ASSUME NEW th \in Threads, MasterAsserts(th)
      PROVE  /\ th[1] \in Txns /\ ProcessEnds(Home[th[1]], "aborted")
             /\ FileLeft(Home[th[1]]) /\ ~Calm
  BY <1>0, <1>2, <1>a, ThreadParts, AssertsAreNotCalm DEF MasterAsserts
<1>3. ASSUME NEW n \in Nodes, PeerAsserts(n)
      PROVE  ProcessEnds(n, "aborted") /\ FileLeft(n) /\ ~Calm
  <2>1. conn[n] \in Threads /\ conn[n][1] \in Txns
    BY <1>3, ServedConnection, ThreadParts DEF PeerAsserts
  <2> QED BY <1>3, <1>a, <2>1, AssertsAreNotCalm DEF PeerAsserts
<1>4. ASSUME NEW n \in Nodes, Kill(n) \/ KillInRewriting(n)
      PROVE  ProcessEnds(n, "down") /\ FileLeft(n) /\ ~Calm
  <2>1. ProcessEnds(n, "down") /\ ~Calm /\ BoardTypeOK /\ NodeOK(n) /\ Len(file[n]) \in Nat
    BY <1>4, LineFacts DEF Kill, KillInRewriting, Calm, BInv
  <2>2. CASE Kill(n)
    BY <1>a, <2>1, <2>2 DEF Kill
  <2>3. ASSUME NEW t \in UnderWay(n), Command[t].op = "REPLACE", CutShort(n, Command[t].num, t)
        PROVE  FileLeft(n)
    <3>1. t \in Txns /\ t \in Texts /\ ~MessageMissing(n, t)
      BY DEF UnderWay, Texts
    <3>2. Command[t].num \in Nat /\ Command[t].num < Len(file[n])
      BY <2>1, <2>3, <3>1, BoardAssumption DEF MessageMissing, Commands
    <3> QED BY <2>1, <2>3, <3>1, <3>2, CutLeavesLines
  <2>4. ASSUME Awaiting(n), undo[n].kind = "restore", CutShort(n, undo[n].num, undo[n].text)
        PROVE  FileLeft(n)
    <3>1. Fits(conn[n][1], undo[n], Len(file[n]))
      BY <2>1, <2>4 DEF NodeOK, Undoable, Holding
    <3>2. undo[n].num \in Nat /\ undo[n].text \in Texts /\ undo[n].num < Len(file[n])
      BY <2>1, <2>4, <3>1 DEF Fits, BoardTypeOK, Undos
    <3> QED BY <2>1, <2>4, <3>2, CutLeavesLines
  <2> QED BY <1>4, <2>1, <2>2, <2>3, <2>4 DEF KillInRewriting
<1>5. CASE \E t \in Txns : Request(t) \/ Controller(t)
  BY <1>0, <1>1, <1>5 DEF Request, Controller, ControllerStep
<1>6. CASE \E th \in Threads : PeerThread(th) \/ (SpuriousWakeup(th) /\ UNCHANGED slaveVars)
  BY <1>0, <1>2, <1>6, ThreadParts, ThreadWorks DEF PeerThread
<1>7. CASE \E n \in Nodes : SyncThread(n) \/ Kill(n) \/ KillInRewriting(n) \/ Restart(n)
  BY <1>3, <1>4, <1>7 DEF SyncThread
<1> QED BY <1>5, <1>6, <1>7 DEF Next, Rest

\* Every step of the system keeps the boards in order.
LEMMA NextKeepsBoards == IInv /\ CInv /\ BInv /\ [Next]_vars => BInv'
<1> SUFFICES ASSUME IInv, CInv, BInv, [Next]_vars PROVE BInv'
  OBVIOUS
<1>1. ASSUME NEW t \in Txns, Operates(Home[t], t) PROVE BInv'
  BY <1>1, OperatesKeepsBoards, BoardAssumption
<1>2. ASSUME NEW n \in Nodes, SyncStep(n), UNCHANGED masterVars PROVE BInv'
  BY <1>2, ProtocolStepsKeepBoards, PerformCommitKeepsBoards, SettlingKeepsBoards,
     MasterErrorKeepsBoards DEF SyncStep
<1>3. CASE UNCHANGED vars
  <2>1. \A t \in Txns : Running(t)'
    BY <1>3 DEF BInv, Running, vars, boardVars, masterVars, statVars
  <2>2. Apart
    BY <1>3, <2>1 DEF Apart, vars, sockVars, masterVars, BInv, BoardTypeOK
  <2> QED BY <2>2, ApartKeepsBoards
<1> QED BY <1>1, <1>2, <1>3, StepKinds, RequestsKeepBoards, ThreadsKeepBoards, MasterOperates,
           ProcessEndsKeepsBoards, RestartKeepsBoards

\* At the start every file has the same lines, and nobody holds a lock.
LEMMA InitBoards == Init => BInv
<1> SUFFICES ASSUME Init PROVE BInv
  OBVIOUS
<1> DEFINE f == [i \in 1 .. InitialLength |-> [number |-> i - 1, text |-> Old]]
<1>0. InitialLength \in Nat
  BY BoardAssumption
<1>1. f \in Seq(Lines) /\ Len(f) = InitialLength /\ DOMAIN f = 1 .. InitialLength
  <2>1. \A i \in 1 .. InitialLength : [number |-> i - 1, text |-> Old] \in Lines
    BY <1>0 DEF Lines, Texts
  <2> QED BY <1>0, <2>1
<1>2. \A i \in DOMAIN f : f[i].number = i - 1 /\ f[i].text # Torn
  BY BoardAssumption
<1>3. /\ file = [n \in Nodes |-> f] /\ state = [n \in Nodes |-> "up"]
      /\ message_number = [n \in Nodes |-> InitialLength]
      /\ writer_active = [n \in Nodes |-> FALSE] /\ undo = [n \in Nodes |-> NoUndo]
      /\ wrote = [t \in Txns |-> 0] /\ damaged = [n \in Nodes |-> {}]
      /\ response = [t \in Txns |-> "none"] /\ ctl = [t \in Txns |-> "idle"]
      /\ completion = [t \in Txns |-> ""] /\ masterEnd = [th \in Threads |-> "none"]
      /\ status = [n \in Nodes |-> "accept"] /\ backlog = [n \in Nodes |-> <<>>]
  BY DEF Init, BoardInit, SocketsInit, MasterInit, SlaveInit
<1> HIDE DEF f
<1>4. BoardTypeOK
  <2>1. NoUndo \in Undos
    BY DEF NoUndo, Undos, Texts
  <2> QED BY <1>0, <1>1, <1>3, <2>1 DEF BoardTypeOK, Responses
<1>5. NoReset
  BY <1>3 DEF NoReset
<1>6. \A t \in Txns : Running(t)
  BY <1>3 DEF Running
<1>7. ASSUME NEW n \in Nodes PROVE NodeOK(n)
  <2>1. /\ file[n] = f /\ state[n] = "up" /\ message_number[n] = InitialLength
        /\ ~writer_active[n] /\ status[n] = "accept" /\ backlog[n] = <<>> /\ damaged[n] = {}
    BY <1>3
  <2>2. ~Holding(n)
    BY <2>1 DEF Holding, Awaiting
  <2>3. Numbered(n)
    BY <1>1, <1>2, <2>1 DEF Numbered
  <2>4. Undamaged(n)
    BY <1>0, <1>1, <1>2, <2>1, <2>2 DEF Undamaged, Whole
  <2> QED BY <2>1, <2>2, <2>3, <2>4 DEF NodeOK, Listening, Locked, Undoable
<1> QED BY <1>4, <1>5, <1>6, <1>7 DEF BInv

\* BInv holds in every reachable state, crashes or not.
THEOREM BoardInvariant == Spec => []BInv
BY InitBoards, NextKeepsBoards, Invariance, ConnectionInvariant, PTL DEF Spec

-----------------------------------------------------------------------------
(* The theorems on numbers and locks.                                      *)

\* Every variable keeps its type: in particular message_number never becomes
\* negative by an undo, and a closure always restores a text that was there.
THEOREM TypeCorrect == Spec => []TypeOK
<1>1. ASSUME IInv, CInv, BInv, Sleepers PROVE TypeOK
  BY <1>1 DEF IInv, MasterTypeOK, CInv, ConnectionTypeOK, BInv, BoardTypeOK, Sleepers, TypeOK
<1> QED BY <1>1, Invariance, ConnectionInvariant, BoardInvariant, SleepersInvariant, PTL

\* On a running node message_number counts the lines, and every line has the number of
\* its position, whatever requests overlap there, whatever is undone, and however
\* often the process is killed and started again: a kill in the middle of a REPLACE or
\* of its undo damages the line being rewritten and those after it, and no other.
THEOREM NumbersAreExact == Spec => []NumbersExact
<1>1. BInv => NumbersExact
  BY DEF BInv, NodeOK, Numbered, NumbersExact, Intact
<1> QED BY <1>1, BoardInvariant, PTL

\* The one way a write lock outlives its request: the master's process ended with the
\* acknowledgement unread, and the receive loop of the peer returned -1.
THEOREM LocksAreOwnedOrReset == Spec => []LockOwnedOrReset
<1>1. BInv => LockOwnedOrReset
  BY DEF BInv, NodeOK, Locked, LockOwnedOrReset
<1> QED BY <1>1, BoardInvariant, PTL

\* Where no process ends, no path through handle_sync_server_client leaves the lock
\* behind: it is held exactly while an operation waits for its final message.
THEOREM LocksAreOwned ==
    ASSUME Calm PROVE Spec => []LockOwned
<1>1. BInv => LockOwned
  BY DEF BInv, NodeOK, Locked, Undoable, NoReset, LockOwned, BoardTypeOK
<1> QED BY <1>1, BoardInvariant, PTL

\* Then no assert fails either: a REPLACE of a line of the start always finds it.
THEOREM NoAssertFails ==
    ASSUME Calm PROVE Spec => []NoAssertionFails
<1>1. BInv => NoAssertionFails
  BY DEF BInv, NodeOK, Undamaged, NoAssertionFails
<1> QED BY <1>1, BoardInvariant, PTL

-----------------------------------------------------------------------------
(* What is written where.  The closure of a REPLACE keeps the text it has  *)
(* replaced, which may come back: what is said of the lines of a file is   *)
(* said of that text too.  Of the lines a rewriting cut short may have hit *)
(* nothing is said but that they are there.                                *)

Answered(t) == completion[t] = "WROTE" \/ response[t] = "WROTE"

\* The synchronization thread of n holds the operation of t.
Held(n, t) == Holding(n) /\ conn[n] = <<t, n>>

\* The operation of t on n is final, or was left behind by a process that ended.
Granted(n, t) ==
    \/ Home[t] = n /\ Answered(t)
    \/ <<t, n>> \in Threads /\ fate[<<t, n>>] = "kept" /\ completion[t] = "WROTE"
    \/ /\ ~Calm /\ <<t, n>> \in Threads /\ fate[<<t, n>>] = "applied"
       /\ Home[t] = n => ctl[t] \in {"done", "crashed"}

\* The text of t is in line i of n, or kept by the closure for line i.
Written(n, t, i) == i \in DOMAIN file[n] \ damaged[n] /\ file[n][i].text = t

Saved(n, t, i) ==
    /\ Holding(n) /\ undo[n].kind = "restore" /\ undo[n].num + 1 = i /\ undo[n].text = t
    /\ i \notin damaged[n]

\* Text is there for a reason: UncommittedStaysLocked, and crashes.
Justified(n, t) ==
    \A i \in Nat : Written(n, t, i) \/ Saved(n, t, i) => Granted(n, t) \/ Held(n, t)

\* A WRITE is in one line, a REPLACE in the line it names.
Placed(n, t) ==
    /\ Command[t].op = "WRITE" =>
         \A i, j \in Nat : /\ Written(n, t, i) /\ Written(n, t, j) => i = j
                           /\ Saved(n, t, i) => ~Written(n, t, j)
    /\ Command[t].op = "REPLACE" =>
         \A i \in Nat : Written(n, t, i) \/ Saved(n, t, i) => i = Command[t].num + 1

\* The closure undoes the text of the request it belongs to.
ClosureOf(n, t, u) ==
    /\ u.num + 1 \notin damaged[n] => u.text # t
    /\ u.kind = "truncate" => /\ file[n][u.num + 1].text = t
                              /\ \A i \in Nat : Written(n, t, i) => i = u.num + 1

Reversible(n) == Holding(n) => ClosureOf(n, conn[n][1], undo[n])

\* Text x in line i is that of the WRITE t, or of a REPLACE of this line.
Stands(x, t, i) ==
    x = t \/ (x \in Txns /\ Command[x].op = "REPLACE" /\ Command[x].num + 1 = i)

\* A line of n that carries the answered WRITE t, and does so after an undo.
Carries(n, t, i) ==
    /\ i \in DOMAIN file[n] /\ (i \notin damaged[n] => Stands(file[n][i].text, t, i))
    /\ Holding(n) =>
         /\ undo[n].kind = "truncate" => i <= undo[n].num
         /\ undo[n].kind = "restore" /\ i = undo[n].num + 1 /\ i \notin damaged[n] =>
              Stands(undo[n].text, t, i)

Stays(n, t) ==
    Home[t] = n /\ Command[t].op = "WRITE" /\ Answered(t) => Carries(n, t, wrote[t] + 1)

TextsOK(n) ==
    /\ Reversible(n)
    /\ \A t \in Txns : Justified(n, t) /\ Placed(n, t) /\ Stays(n, t)

TInv == \A n \in Nodes : TextsOK(n)

-----------------------------------------------------------------------------
(* Answers and reasons last.                                               *)

\* What is never taken back, but by the thread that holds the operation.
Lasting ==
    /\ \A t \in Txns :
         /\ completion[t] = "WROTE" => completion'[t] = "WROTE"
         /\ response[t] = "WROTE" => response'[t] = "WROTE"
         /\ ctl[t] \in {"done", "crashed"} => ctl'[t] = ctl[t]
         /\ Answered(t) => wrote'[t] = wrote[t]
    /\ \A th \in Threads :
         /\ fate[th] = "kept" => fate'[th] = "kept"
         /\ fate[th] = "applied" =>
              fate'[th] = "applied" \/ (conn[th[2]] = th /\ Holding(th[2]))

\* Only requests of S are answered WROTE now and were not before.
NewAnswers(S) ==
    \A t \in Txns : Answered(t)' /\ ~Answered(t) => t \in S

\* Steps of the masters that change no file answer nobody with WROTE for the first time.
LEMMA RequestsLast ==
    ASSUME IInv, CInv, BInv, NEW t \in Txns, UNCHANGED slaveVars,
           \/ Reject(t) \/ StartSynchronization(t) \/ StartLocal(t) \/ LocalFails(t)
           \/ JoinThreads(t)
    PROVE  Lasting /\ NewAnswers({})
<1> USE DEF Reject, StartSynchronization, StartLocal, LocalFails, JoinThreads, Arrives
<1>0. /\ ctl \in [Txns -> Ctls] /\ response \in [Txns -> Responses] /\ Running(t)
  BY DEF IInv, MasterTypeOK, BInv, BoardTypeOK
<1>1. UNCHANGED <<completion, fate, wrote>>
  BY DEF statVars, slaveVars, boardVars
<1>2. ctl[t] \in {"idle", "joining"} /\ response[t] = "none"
  BY <1>0 DEF Running
<1>3. \A u \in Txns : u # t => ctl'[u] = ctl[u] /\ response'[u] = response[u]
  BY <1>0
<1>4. response'[t] = "WROTE" => completion[t] = "WROTE"
  BY <1>0, <1>2
<1> QED BY <1>1, <1>2, <1>3, <1>4 DEF Lasting, NewAnswers, Answered

\* Nor do the threads.
LEMMA ThreadsLast ==
    ASSUME IInv, NEW th \in Threads, UNCHANGED slaveVars, ThreadWork(th)
    PROVE  Lasting /\ NewAnswers({})
<1>1. th[1] \in Txns /\ completion \in [Txns -> Completions]
  BY ThreadParts DEF IInv, MasterTypeOK
<1>2. UNCHANGED <<ctl, response, fate, wrote>>
  BY DEF ThreadWork, slaveVars, boardVars
<1>3. \A t \in Txns : /\ completion[t] = "WROTE" => completion'[t] = "WROTE"
                      /\ completion'[t] = "WROTE" => completion[t] = "WROTE"
  BY <1>1 DEF ThreadWork
<1> QED BY <1>2, <1>3 DEF Lasting, NewAnswers, Answered

\* The master's operation answers its own request, which had no answer.
LEMMA OperationLasts ==
    ASSUME IInv, CInv, BInv, NEW t \in Txns, UNCHANGED slaveVars,
           LocalPerforms(t) \/ \E th \in Threads : th[1] = t /\ MasterPerforms(th)
    PROVE  /\ Lasting /\ NewAnswers({t}) /\ Answered(t)' /\ ~Answered(t)
           /\ ctl[t] \in {"local", "joining"}
<1>0. /\ ctl \in [Txns -> Ctls] /\ response \in [Txns -> Responses]
      /\ completion \in [Txns -> Completions] /\ Running(t)
      /\ \A u \in Txns : u # t => wrote'[u] = wrote[u]
  <2>1. wrote \in [Txns -> Nat] /\ \E x : wrote' = [wrote EXCEPT ![t] = x]
    BY DEF BInv, BoardTypeOK, LocalPerforms, MasterPerforms
  <2> QED BY <2>1 DEF IInv, MasterTypeOK, BInv, BoardTypeOK
<1>1. CASE LocalPerforms(t)
  <2>1. /\ ctl[t] = "local" /\ UNCHANGED <<completion, fate>>
        /\ ctl' = [ctl EXCEPT ![t] = "done"] /\ response' = [response EXCEPT ![t] = "WROTE"]
    BY <1>1 DEF LocalPerforms, statVars, slaveVars
  <2>2. completion[t] = "" /\ response[t] = "none"
    BY <1>0, <2>1 DEF Running
  <2> QED BY <1>0, <2>1, <2>2 DEF Lasting, NewAnswers, Answered
<1>2. CASE \E th \in Threads : th[1] = t /\ MasterPerforms(th)
  <2>1. /\ ctl[t] = "joining" /\ UNCHANGED <<ctl, response, fate>>
        /\ completion' = [completion EXCEPT ![t] = "WROTE"] /\ completion[t] = ""
    BY <1>2 DEF MasterPerforms, MasterOpEnds, At, IInv, OneMasterOp, slaveVars
  <2>2. response[t] = "none"
    BY <1>0, <2>1 DEF Running
  <2> QED BY <1>0, <2>1, <2>2 DEF Lasting, NewAnswers, Answered
<1> QED BY <1>1, <1>2

\* A synchronization server settles the operation it holds, and no other.
LEMMA ServersLast ==
    ASSUME IInv, CInv, BInv, NEW n \in Nodes, UNCHANGED masterVars, SyncStep(n)
    PROVE  Lasting /\ NewAnswers({})
<1>0. fate \in [Threads -> Fates]
  BY DEF CInv, ConnectionTypeOK
<1>1. UNCHANGED <<ctl, completion, response, wrote>>
  BY DEF masterVars, statVars, boardVars, SyncStep, AcceptMaster, ReceivePrecommit, ReceiveAbort,
     ReceiveCommit, RefuseCommit, PerformCommit, AcknowledgeCommit, ReceiveNoop, ReceiveUndo,
     LoseMaster, MasterError, UndoAndRelease, CloseConnection
<1>2. \/ UNCHANGED fate
      \/ PerformCommit(n)
      \/ Awaiting(n) /\ \E f : fate' = [fate EXCEPT ![conn[n]] = f]
  BY DEF SyncStep, AcceptMaster, ReceivePrecommit, ReceiveAbort, ReceiveCommit, RefuseCommit,
     AcknowledgeCommit, ReceiveNoop, ReceiveUndo, LoseMaster, MasterError, UndoAndRelease
<1>3. CASE UNCHANGED fate
  BY <1>1, <1>3 DEF Lasting, NewAnswers, Answered
<1>4. CASE PerformCommit(n)
  <2>1. status[n] = "committing" /\ fate' = [fate EXCEPT ![conn[n]] = "applied"]
    BY <1>4 DEF PerformCommit
  <2>2. fate[conn[n]] = "none"
    BY <2>1, ServedConnection DEF Serving
  <2> QED BY <1>0, <1>1, <2>1, <2>2 DEF Lasting, NewAnswers, Answered
<1>5. CASE Awaiting(n) /\ \E f : fate' = [fate EXCEPT ![conn[n]] = f]
  <2>1. conn[n][2] = n /\ fate[conn[n]] = "applied"
    BY <1>5, ServedConnection DEF Serving, Performed, Awaiting
  <2> QED BY <1>0, <1>1, <1>5, <2>1 DEF Lasting, NewAnswers, Answered, Holding
<1> QED BY <1>2, <1>3, <1>4, <1>5

\* The end of a process stops the requests that are being served.
LEMMA EndsLast ==
    ASSUME NEW n \in Nodes, NEW how, ProcessEnds(n, how)
    PROVE  Lasting /\ NewAnswers({})
<1>1. UNCHANGED <<completion, response, fate, wrote>>
  BY DEF ProcessEnds, statVars
<1>2. \A t \in Txns : ctl[t] \in {"done", "crashed"} => ctl'[t] = ctl[t]
  BY DEF ProcessEnds, Busy
<1> QED BY <1>1, <1>2 DEF Lasting, NewAnswers, Answered

\* The reason why a text is there lasts, until the thread that holds it lets it go.
LEMMA GrantLasts ==
    ASSUME Lasting, NEW n \in Nodes, NEW t \in Txns, Granted(n, t)
    PROVE  Granted(n, t)' \/ Held(n, t)
<1>1. CASE Home[t] = n /\ Answered(t)
  BY <1>1 DEF Lasting, Granted, Answered
<1>2. CASE <<t, n>> \in Threads /\ fate[<<t, n>>] = "kept" /\ completion[t] = "WROTE"
  BY <1>2 DEF Lasting, Granted
<1>3. CASE /\ ~Calm /\ <<t, n>> \in Threads /\ fate[<<t, n>>] = "applied"
           /\ Home[t] = n => ctl[t] \in {"done", "crashed"}
  <2>1. fate'[<<t, n>>] = "applied" \/ Held(n, t)
    BY <1>3 DEF Lasting, Held
  <2> QED BY <1>3, <2>1 DEF Lasting, Granted
<1> QED BY <1>1, <1>2, <1>3 DEF Granted

-----------------------------------------------------------------------------
(* Texts under the steps of the system.                                    *)

\* Where a text is after a change of the file.
LEMMA WrittenEffects ==
    ASSUME BoardTypeOK, BoardTypeOK', NEW n \in Nodes, damaged'[n] = damaged[n]
    PROVE  /\ \A t : Appended(n, t) =>
                \A x, i : Written(n, x, i)' <=>
                            \/ x = t /\ i = Len(file[n]) + 1 /\ i \notin damaged[n]
                            \/ Written(n, x, i)
           /\ \A y : \A k \in Nat : Exchanged(n, k, y) =>
                \A x, i : Written(n, x, i)' <=>
                            \/ x = y /\ i = k + 1 /\ i \notin damaged[n]
                            \/ Written(n, x, i) /\ i # k + 1
           /\ \A k \in Nat : Shortened(n, k) =>
                \A x, i : Written(n, x, i)' <=> Written(n, x, i) /\ i <= k
<1>0. /\ Len(file[n]) \in Nat /\ DOMAIN file[n] = 1 .. Len(file[n])
      /\ Len(file'[n]) \in Nat /\ DOMAIN file'[n] = 1 .. Len(file'[n])
  <2>1. file[n] \in Seq(Lines) /\ file'[n] \in Seq(Lines)
    BY DEF BoardTypeOK
  <2> QED BY <2>1
<1>1. ASSUME NEW t, Appended(n, t), NEW x, NEW i
      PROVE  Written(n, x, i)' <=> \/ x = t /\ i = Len(file[n]) + 1 /\ i \notin damaged[n]
                                   \/ Written(n, x, i)
  <2>1. CASE i \in 1 .. Len(file[n])
    BY <1>0, <1>1, <2>1 DEF Appended, Written
  <2>2. CASE i = Len(file[n]) + 1
    BY <1>0, <1>1, <2>2 DEF Appended, Written
  <2>3. CASE i \notin 1 .. Len(file[n]) + 1
    BY <1>0, <1>1, <2>3 DEF Appended, Written
  <2> QED BY <1>0, <2>1, <2>2, <2>3
<1>2. ASSUME NEW k \in Nat, NEW y, Exchanged(n, k, y), NEW x, NEW i
      PROVE  Written(n, x, i)' <=> \/ x = y /\ i = k + 1 /\ i \notin damaged[n]
                                   \/ Written(n, x, i) /\ i # k + 1
  <2>1. CASE i = k + 1
    BY <1>0, <1>2, <2>1 DEF Exchanged, Written
  <2>2. CASE i # k + 1
    BY <1>0, <1>2, <2>2 DEF Exchanged, Written
  <2> QED BY <2>1, <2>2
<1>3. ASSUME NEW k \in Nat, Shortened(n, k), NEW x, NEW i
      PROVE  Written(n, x, i)' <=> Written(n, x, i) /\ i <= k
  <2>1. CASE i \in 1 .. k
    BY <1>0, <1>3, <2>1 DEF Shortened, Written
  <2>2. CASE i \notin 1 .. k
    BY <1>0, <1>3, <2>2 DEF Shortened, Written
  <2> QED BY <2>1, <2>2
<1> QED BY <1>1, <1>2, <1>3

\* Nothing happens at n.
LEMMA SteadyTexts ==
    ASSUME NEW n \in Nodes, TextsOK(n), Lasting, Steady(n),
           \A t \in Txns : Home[t] = n /\ Answered(t)' => Answered(t)
    PROVE  TextsOK(n)'
<1>1. /\ file'[n] = file[n] /\ damaged'[n] = damaged[n] /\ (Holding(n)' <=> Holding(n))
      /\ Holding(n) => undo'[n] = undo[n] /\ conn'[n] = conn[n]
  BY DEF Steady
<1>2. ASSUME NEW t, NEW i
      PROVE  /\ Written(n, t, i)' <=> Written(n, t, i)
             /\ Saved(n, t, i)' <=> Saved(n, t, i)
             /\ Held(n, t)' <=> Held(n, t)
             /\ Carries(n, t, i)' <=> Carries(n, t, i)
  BY <1>1 DEF Written, Saved, Held, Carries
<1>3. Reversible(n)'
  BY <1>1, <1>2 DEF TextsOK, Reversible, ClosureOf
<1>4. ASSUME NEW t \in Txns PROVE Justified(n, t)' /\ Placed(n, t)' /\ Stays(n, t)'
  <2>1. Justified(n, t) /\ Placed(n, t) /\ Stays(n, t)
    BY DEF TextsOK
  <2>2. Granted(n, t) => Granted(n, t)' \/ Held(n, t)
    BY GrantLasts
  <2>3. Justified(n, t)'
    BY <1>2, <2>1, <2>2 DEF Justified
  <2>4. Placed(n, t)'
    BY <1>2, <2>1 DEF Placed
  <2>5. Stays(n, t)'
    <3>1. Answered(t) => wrote'[t] = wrote[t]
      BY DEF Lasting
    <3> QED BY <1>2, <2>1, <3>1 DEF Stays
  <2> QED BY <2>3, <2>4, <2>5
<1> QED BY <1>3, <1>4 DEF TextsOK

\* The thread lets its operation go, and the text remains for another reason.
LEMMA ReleasedTexts ==
    ASSUME BoardTypeOK, BoardTypeOK', NEW n \in Nodes, TextsOK(n), Lasting, FileLeft(n),
           ~Holding(n)', NewAnswers({}), \A t \in Txns : Held(n, t) => Granted(n, t)'
    PROVE  TextsOK(n)'
<1>1. DOMAIN file[n] \subseteq DOMAIN file'[n]
  <2>1. file[n] \in Seq(Lines) /\ file'[n] \in Seq(Lines) /\ Len(file[n]) <= Len(file'[n])
    BY DEF BoardTypeOK, FileLeft
  <2> QED BY <2>1
<1>2. ASSUME NEW t, NEW i
      PROVE  /\ Written(n, t, i)' => Written(n, t, i)
             /\ ~Saved(n, t, i)'
             /\ Carries(n, t, i) => Carries(n, t, i)'
  BY <1>1 DEF Written, Saved, Carries, FileLeft
<1>3. Reversible(n)'
  BY DEF Reversible
<1>4. ASSUME NEW t \in Txns PROVE Justified(n, t)' /\ Placed(n, t)' /\ Stays(n, t)'
  <2>1. Justified(n, t) /\ Placed(n, t) /\ Stays(n, t)
    BY DEF TextsOK
  <2>2. Granted(n, t) => Granted(n, t)' \/ Held(n, t)
    BY GrantLasts
  <2>3. Justified(n, t)'
    BY <1>2, <2>1, <2>2 DEF Justified
  <2>4. Placed(n, t)'
    BY <1>2, <2>1 DEF Placed
  <2>5. Stays(n, t)'
    <3>1. Answered(t) => wrote'[t] = wrote[t]
      BY DEF Lasting
    <3> QED BY <1>2, <2>1, <3>1 DEF Stays, NewAnswers
  <2> QED BY <2>3, <2>4, <2>5
<1> QED BY <1>3, <1>4 DEF TextsOK

\* The thread takes its operation back: the text of the operation goes, and the text
\* it had replaced comes back.
LEMMA UndoneTexts ==
    ASSUME BoardTypeOK, BoardTypeOK', NEW n \in Nodes, TextsOK(n), Undoable(n), Lasting,
           NewAnswers({}), Holding(n), ~Holding(n)', NEW c \in Txns, conn[n] = <<c, n>>,
           damaged'[n] = damaged[n],
           \/ undo[n].kind = "truncate" /\ Shortened(n, undo[n].num)
           \/ undo[n].kind = "restore" /\ Exchanged(n, undo[n].num, undo[n].text)
    PROVE  TextsOK(n)'
<1> DEFINE u == undo[n]
<1>0. /\ u \in Undos /\ u.num \in Nat /\ Len(file[n]) \in Nat
      /\ DOMAIN file[n] = 1 .. Len(file[n]) /\ Command[c] \in Commands
      /\ Len(file'[n]) \in Nat /\ DOMAIN file'[n] = 1 .. Len(file'[n])
  <2>1. file'[n] \in Seq(Lines) /\ u \in Undos /\ u.num \in Nat
    BY DEF BoardTypeOK, Undos
  <2>2. Len(file'[n]) \in Nat /\ DOMAIN file'[n] = 1 .. Len(file'[n])
    BY <2>1
  <2>3. Len(file[n]) \in Nat /\ DOMAIN file[n] = 1 .. Len(file[n]) /\ Command[c] \in Commands
    BY LineFacts, BoardAssumption
  <2> QED BY <2>1, <2>2, <2>3
<1>1. Fits(c, u, Len(file[n])) /\ ClosureOf(n, c, u) /\ Placed(n, c)
  BY DEF Undoable, TextsOK, Reversible
<1>2. ASSUME NEW t, NEW i PROVE ~Saved(n, t, i)'
  BY DEF Saved
<1>3. Reversible(n)'
  BY DEF Reversible
<1>4. ASSUME NEW t \in Txns, NEW i \in Nat, Written(n, t, i)'
      PROVE  t # c /\ (Written(n, t, i) \/ Saved(n, t, i))
  <2>1. CASE u.kind = "truncate" /\ Shortened(n, u.num)
    <3>1. Written(n, t, i) /\ i <= u.num
      BY <1>0, <1>4, <2>1, WrittenEffects
    <3>2. \A j \in Nat : Written(n, c, j) => j = u.num + 1
      BY <1>1, <2>1 DEF ClosureOf
    <3>3. t # c
      BY <1>0, <3>1, <3>2
    <3> QED BY <3>1, <3>3
  <2>2. CASE u.kind = "restore" /\ Exchanged(n, u.num, u.text)
    <3>1. \/ t = u.text /\ i = u.num + 1 /\ i \notin damaged[n]
          \/ Written(n, t, i) /\ i # u.num + 1
      BY <1>0, <1>4, <2>2, WrittenEffects
    <3>2. /\ Command[c].op = "REPLACE" /\ u.num = Command[c].num
          /\ u.num + 1 \notin damaged[n] => u.text # c
      BY <1>1, <2>2 DEF Fits, ClosureOf
    <3>3. Written(n, t, i) /\ i # u.num + 1 => t # c
      BY <1>1, <3>2 DEF Placed
    <3> QED BY <2>2, <3>1, <3>2, <3>3 DEF Saved
  <2> QED BY <2>1, <2>2
<1>5. ASSUME NEW t \in Txns, NEW i \in Nat, NEW j \in Nat, Command[t].op = "WRITE",
             Written(n, t, i)', Written(n, t, j)'
      PROVE  i = j
  <2>1. /\ Written(n, t, i) \/ Saved(n, t, i)
        /\ Written(n, t, j) \/ Saved(n, t, j)
    BY <1>4, <1>5
  <2>2. Placed(n, t)
    BY DEF TextsOK
  <2>3. Saved(n, t, i) /\ Saved(n, t, j) => i = j
    BY DEF Saved
  <2> QED BY <1>5, <2>1, <2>2, <2>3 DEF Placed
<1>6. ASSUME NEW t, NEW i \in Nat, Carries(n, t, i)
      PROVE  Carries(n, t, i)'
  <2>1. CASE u.kind = "truncate" /\ Shortened(n, u.num)
    <3>1. i \in DOMAIN file[n] /\ i <= u.num
      BY <1>6, <2>1 DEF Carries
    <3>2. i \in DOMAIN file'[n] /\ file'[n][i] = file[n][i]
      BY <1>0, <2>1, <3>1 DEF Shortened
    <3> QED BY <1>6, <3>2 DEF Carries
  <2>2. CASE u.kind = "restore" /\ Exchanged(n, u.num, u.text)
    <3>0. i \in DOMAIN file[n] /\ i \in DOMAIN file'[n]
      BY <1>0, <1>6, <2>2 DEF Carries, Exchanged
    <3>1. CASE i = u.num + 1
      <4>1. i \notin damaged[n] => Stands(u.text, t, i)
        BY <1>6, <2>2, <3>1 DEF Carries
      <4>2. file'[n][i].text = u.text
        BY <2>2, <3>1 DEF Exchanged
      <4> QED BY <3>0, <4>1, <4>2 DEF Carries
    <3>2. CASE i # u.num + 1
      <4>1. file'[n][i] = file[n][i]
        BY <1>0, <2>2, <3>0, <3>2 DEF Exchanged
      <4> QED BY <1>6, <3>0, <4>1 DEF Carries
    <3> QED BY <3>1, <3>2
  <2> QED BY <2>1, <2>2
<1>7. ASSUME NEW t \in Txns PROVE Justified(n, t)' /\ Placed(n, t)' /\ Stays(n, t)'
  <2>1. Justified(n, t) /\ Placed(n, t) /\ Stays(n, t)
    BY DEF TextsOK
  <2>2. Granted(n, t) => Granted(n, t)' \/ Held(n, t)
    BY GrantLasts
  <2>3. Held(n, t) => t = c
    BY DEF Held
  <2>4. Justified(n, t)'
    BY <1>2, <1>4, <2>1, <2>2, <2>3 DEF Justified
  <2>5. Placed(n, t)'
    BY <1>2, <1>4, <1>5, <2>1 DEF Placed
  <2>6. Stays(n, t)'
    <3>1. (Answered(t) => wrote'[t] = wrote[t]) /\ wrote[t] + 1 \in Nat
      BY DEF Lasting, BoardTypeOK
    <3> QED BY <1>6, <2>1, <3>1 DEF Stays, NewAnswers
  <2> QED BY <2>4, <2>5, <2>6
<1> QED BY <1>3, <1>7 DEF TextsOK

\* An operation on a free file puts the text of t there for the first time; a peer
\* keeps the operation in its hands, with the text it replaced.
LEMMA PerformedTexts ==
    ASSUME BoardTypeOK, BoardTypeOK', NEW n \in Nodes, TextsOK(n), Lasting, NEW t \in Txns,
           ~Holding(n), ~Granted(n, t), NewAnswers({t}), damaged'[n] = damaged[n],
           \/ Command[t].op = "WRITE" /\ Appended(n, t)
           \/ Command[t].op = "REPLACE" /\ Exchanged(n, Command[t].num, t),
           \/ /\ Holding(n)' /\ conn'[n] = <<t, n>> /\ undo'[n] = UndoOf(n, t)
              /\ ~Answered(t)'
           \/ /\ ~Holding(n)' /\ Granted(n, t)'
              /\ Command[t].op = "WRITE" => wrote'[t] = Len(file[n])
    PROVE  TextsOK(n)'
<1> DEFINE L == Len(file[n])
           k == Command[t].num
<1>0. /\ L \in Nat /\ DOMAIN file[n] = 1 .. L /\ t # Old
      /\ Command[t].op = "REPLACE" => k \in Nat
      /\ Command[t].op \in {"WRITE", "REPLACE"}
      /\ Len(file'[n]) \in Nat /\ DOMAIN file'[n] = 1 .. Len(file'[n])
  <2>1. file'[n] \in Seq(Lines)
    BY DEF BoardTypeOK
  <2> QED BY <2>1, LineFacts, BoardAssumption DEF Commands
<1>a. ASSUME NEW x \in Txns, NEW i \in Nat
      PROVE  ~Saved(n, x, i) /\ ~Held(n, x) /\ (Written(n, x, i) => x # t /\ i <= L)
  <2>1. ~Saved(n, x, i) /\ ~Held(n, x) /\ Justified(n, x)
    BY DEF Saved, Held, TextsOK
  <2>2. Written(n, x, i) => Granted(n, x)
    BY <2>1 DEF Justified
  <2> QED BY <1>0, <2>1, <2>2 DEF Written
<1>b. ASSUME NEW x \in Txns, NEW i \in Nat, Written(n, x, i)'
      PROVE  \/ Written(n, x, i) /\ x # t /\ (Command[t].op = "REPLACE" => i # k + 1)
             \/ /\ x = t
                /\ Command[t].op = "WRITE" => i = L + 1
                /\ Command[t].op = "REPLACE" => i = k + 1
  <2>1. CASE Command[t].op = "WRITE" /\ Appended(n, t)
    <3>1. Written(n, x, i) \/ (x = t /\ i = L + 1)
      BY <1>b, <2>1, WrittenEffects
    <3> QED BY <1>a, <2>1, <3>1
  <2>2. CASE Command[t].op = "REPLACE" /\ Exchanged(n, k, t)
    <3>1. (x = t /\ i = k + 1) \/ (Written(n, x, i) /\ i # k + 1)
      BY <1>0, <1>b, <2>2, WrittenEffects
    <3> QED BY <1>a, <2>2, <3>1
  <2> QED BY <2>1, <2>2
<1>c. ASSUME NEW x \in Txns, NEW i \in Nat, Saved(n, x, i)'
      PROVE  Command[t].op = "REPLACE" /\ i = k + 1 /\ Written(n, x, i) /\ x # t
  <2>1. /\ undo'[n] = UndoOf(n, t) /\ undo'[n].kind = "restore" /\ undo'[n].num + 1 = i
        /\ undo'[n].text = x /\ i \notin damaged[n]
    BY <1>c DEF Saved
  <2>2. Command[t].op = "REPLACE" /\ Exchanged(n, k, t)
    BY <1>0, <2>1 DEF UndoOf
  <2>3. i = k + 1 /\ x = file[n][k + 1].text
    BY <2>1, <2>2 DEF UndoOf
  <2>4. Written(n, x, i)
    BY <1>0, <2>1, <2>2, <2>3 DEF Written, Exchanged
  <2> QED BY <1>a, <2>2, <2>3, <2>4
<1>1. Reversible(n)'
  <2> SUFFICES ASSUME Holding(n)' PROVE ClosureOf(n, conn[n][1], undo[n])'
    BY DEF Reversible
  <2>1. conn'[n][1] = t /\ undo'[n] = UndoOf(n, t)
    OBVIOUS
  <2>2. CASE Command[t].op = "WRITE" /\ Appended(n, t)
    <3>1. undo'[n].num = L /\ undo'[n].text # t
      BY <1>0, <2>1, <2>2 DEF UndoOf
    <3>2. \A i \in Nat : Written(n, t, i)' => i = L + 1
      BY <1>b, <2>2
    <3>3. file'[n][L + 1].text = t
      BY <2>2 DEF Appended
    <3> QED BY <2>1, <3>1, <3>2, <3>3 DEF ClosureOf
  <2>3. CASE Command[t].op = "REPLACE" /\ Exchanged(n, k, t)
    <3>1. /\ undo'[n].kind = "restore" /\ undo'[n].num = k
          /\ undo'[n].text = file[n][k + 1].text
      BY <2>1, <2>3 DEF UndoOf
    <3>2. k + 1 \notin damaged[n] => file[n][k + 1].text # t
      BY <1>0, <1>a, <2>3 DEF Exchanged, Written
    <3> QED BY <2>1, <3>1, <3>2 DEF ClosureOf
  <2> QED BY <2>2, <2>3
<1>2. ASSUME NEW x \in Txns PROVE Justified(n, x)'
  <2> SUFFICES ASSUME NEW i \in Nat, Written(n, x, i)' \/ Saved(n, x, i)'
               PROVE  Granted(n, x)' \/ Held(n, x)'
    BY DEF Justified
  <2>1. CASE x = t
    BY <2>1 DEF Held
  <2>2. CASE x # t
    <3>1. Written(n, x, i)
      BY <1>b, <1>c, <2>2
    <3>2. Granted(n, x) /\ ~Held(n, x)
      BY <1>a, <3>1 DEF TextsOK, Justified
    <3> QED BY <3>2, GrantLasts
  <2> QED BY <2>1, <2>2
<1>3. ASSUME NEW x \in Txns PROVE Placed(n, x)'
  <2>0. Placed(n, x)
    BY DEF TextsOK
  <2>1. ASSUME Command[x].op = "WRITE", NEW i \in Nat, NEW j \in Nat
        PROVE  /\ Written(n, x, i)' /\ Written(n, x, j)' => i = j
               /\ Saved(n, x, i)' => ~Written(n, x, j)'
    <3>1. CASE x = t
      BY <1>b, <1>c, <2>1, <3>1
    <3>2. CASE x # t
      BY <1>b, <1>c, <2>0, <2>1, <3>2 DEF Placed
    <3> QED BY <3>1, <3>2
  <2>2. ASSUME Command[x].op = "REPLACE", NEW i \in Nat, Written(n, x, i)' \/ Saved(n, x, i)'
        PROVE  i = Command[x].num + 1
    BY <1>b, <1>c, <2>0, <2>2 DEF Placed
  <2> QED BY <2>1, <2>2 DEF Placed
<1>4. ASSUME NEW x \in Txns PROVE Stays(n, x)'
  <2> SUFFICES ASSUME Home[x] = n, Command[x].op = "WRITE", Answered(x)'
               PROVE  Carries(n, x, wrote[x] + 1)'
    BY DEF Stays
  <2>1. CASE x = t
    <3>1. Appended(n, t) /\ ~Holding(n)' /\ wrote'[x] = L
      BY <2>1
    <3>2. L + 1 \in DOMAIN file'[n] /\ file'[n][L + 1].text = t
      BY <1>0, <3>1 DEF Appended
    <3> QED BY <2>1, <3>1, <3>2 DEF Carries, Stands
  <2>2. CASE x # t
    <3>0. Answered(x) /\ Stays(n, x) /\ wrote'[x] = wrote[x]
      BY <2>2 DEF NewAnswers, TextsOK, Lasting
    <3>1. PICK i : i = wrote[x] + 1 /\ Carries(n, x, i) /\ i \in 1 .. L
      BY <1>0, <3>0 DEF Stays, Carries
    <3>2. CASE Command[t].op = "WRITE" /\ Appended(n, t)
      <4>1. i \in DOMAIN file'[n] /\ file'[n][i] = file[n][i]
        BY <1>0, <3>1, <3>2 DEF Appended
      <4>2. Holding(n)' => undo'[n].kind = "truncate" /\ undo'[n].num = L
        BY <3>2 DEF UndoOf
      <4> QED BY <1>0, <3>0, <3>1, <4>1, <4>2 DEF Carries
    <3>3. CASE Command[t].op = "REPLACE" /\ Exchanged(n, k, t)
      <4>0. i \in DOMAIN file'[n]
        BY <1>0, <3>1, <3>3 DEF Exchanged
      <4>1. Holding(n)' => /\ undo'[n].kind = "restore" /\ undo'[n].num = k
                           /\ undo'[n].text = file[n][k + 1].text
        BY <3>3 DEF UndoOf
      <4>2. i = k + 1 /\ i \notin damaged[n] => Stands(file[n][k + 1].text, x, i)
        BY <3>1 DEF Carries
      <4>3. CASE i = k + 1
        <5>1. file'[n][i].text = t /\ Stands(t, x, i)
          BY <3>3, <4>3 DEF Stands, Exchanged
        <5> QED BY <3>0, <3>1, <4>0, <4>1, <4>2, <4>3, <5>1 DEF Carries
      <4>4. CASE i # k + 1
        <5>1. file'[n][i] = file[n][i]
          BY <1>0, <3>1, <3>3, <4>4 DEF Exchanged
        <5> QED BY <3>0, <3>1, <4>0, <4>1, <4>4, <5>1 DEF Carries
      <4> QED BY <4>3, <4>4
    <3> QED BY <3>2, <3>3
  <2> QED BY <2>1, <2>2
<1> QED BY <1>1, <1>2, <1>3, <1>4 DEF TextsOK

\* The master's operation.
LEMMA OperatesKeepsTexts ==
    ASSUME IInv, CInv, BInv, BInv', TInv, NEW t \in Txns, UNCHANGED slaveVars,
           LocalPerforms(t) \/ \E th \in Threads : th[1] = t /\ MasterPerforms(th)
    PROVE  TInv'
<1> DEFINE n == Home[t]
<1>0. /\ n \in Nodes /\ BoardTypeOK /\ BoardTypeOK' /\ NodeOK(n)
  BY BoardAssumption DEF BInv
<1>1. /\ Lasting /\ NewAnswers({t}) /\ Answered(t)' /\ ~Answered(t)
      /\ ctl[t] \in {"local", "joining"}
  BY OperationLasts
<1>2. Operates(n, t)
  BY MasterOperates
<1>3. /\ OneBoard(n)
      /\ \/ Command[t].op = "WRITE" /\ Appended(n, t)
         \/ Command[t].op = "REPLACE" /\ Exchanged(n, Command[t].num, t)
  BY <1>0, <1>2, PerformEffect DEF Operates, NodeOK
<1>4. \A m \in Nodes : Holding(m)' <=> Holding(m)
  BY DEF Holding, Awaiting, slaveVars
<1>5. ~Holding(n)
  BY <1>0, <1>2 DEF Operates, NodeOK, Undoable
<1>6. ~Granted(n, t) /\ Granted(n, t)'
  BY <1>1 DEF Granted, Answered
<1>7. ASSUME NEW m \in Nodes, m # n PROVE TextsOK(m)'
  <2>1. Listening(m) /\ file'[m] = file[m] /\ message_number'[m] = message_number[m]
    BY <1>3, <1>7 DEF OneBoard, BInv, NodeOK
  <2>2. Steady(m)
    BY <1>2, <1>4, <2>1 DEF Steady, Operates, sockVars, slaveVars, Listening
  <2>3. \A u \in Txns : Home[u] = m /\ Answered(u)' => Answered(u)
    BY <1>1, <1>7 DEF NewAnswers
  <2> QED BY <1>1, <2>2, <2>3, SteadyTexts DEF TInv
<1>8. TextsOK(n)'
  <2>1. TextsOK(n) /\ damaged'[n] = damaged[n]
    BY <1>0, <1>2 DEF TInv, Operates
  <2>2. Command[t].op = "WRITE" => wrote'[t] = Len(file[n])
    <3>1. wrote'[t] = NumberOf(n, t)
      BY <1>0, <1>2 DEF Operates, BoardTypeOK
    <3> QED BY <1>0, <1>2, <3>1 DEF Operates, NodeOK, Numbered, NumberOf
  <2> HIDE DEF n
  <2> QED BY <1>0, <1>1, <1>3, <1>4, <1>5, <1>6, <2>1, <2>2, PerformedTexts
<1> QED BY <1>7, <1>8 DEF TInv

\* What a server that waits for the write lock knows of the operation.
LEMMA CommittingOperation ==
    ASSUME IInv, CInv, NEW n \in Nodes, status[n] = "committing"
    PROVE  \E t \in Txns : /\ conn[n] = <<t, n>> /\ <<t, n>> \in Threads
                           /\ fate[<<t, n>>] = "none" /\ completion[t] = ""
<1>1. PICK c \in Threads : c = conn[n] /\ c[2] = n /\ Serving(c, status[n])
  BY ServedConnection
<1>2. PICK t \in Txns : t = c[1]
  BY ThreadParts
<1>3. c = <<t, n>> /\ Asked(c) /\ fate[c] = "none" /\ c \in ThreadsOf(t)
  <2>1. c = <<c[1], c[2]>>
    BY DEF Threads
  <2> QED BY <1>1, <1>2, <2>1, ThreadFacts DEF Serving, Working
<1>4. completion[t] = ""
  <2>1. c \in Uncommitted(t)
    BY <1>3 DEF Uncommitted, Committed, Asked
  <2> QED BY <2>1 DEF IInv, PhaseTwo
<1> QED BY <1>1, <1>3, <1>4

\* The operation of a peer.
LEMMA PerformCommitTexts ==
    ASSUME IInv, CInv, BInv, BInv', TInv, NEW n \in Nodes, UNCHANGED masterVars, PerformCommit(n)
    PROVE  TextsOK(n)'
<1>0. /\ BoardTypeOK /\ BoardTypeOK' /\ TextsOK(n) /\ status[n] = "committing" /\ ~Holding(n)
      /\ damaged'[n] = damaged[n]
  BY DEF BInv, TInv, PerformCommit, Holding, Awaiting
<1>1. PICK t \in Txns : /\ conn[n] = <<t, n>> /\ <<t, n>> \in Threads
                        /\ fate[<<t, n>>] = "none" /\ completion[t] = ""
  BY <1>0, CommittingOperation
<1>2. ~Answered(t) /\ ~Answered(t)'
  <2>1. Peers[Home[t]] # {}
    BY <1>1 DEF Threads
  <2>2. Running(t) /\ UNCHANGED <<completion, response>>
    BY DEF BInv, masterVars, statVars
  <2> QED BY <1>1, <2>1, <2>2 DEF Running, Answered
<1>3. ~Granted(n, t)
  BY <1>1, <1>2 DEF Granted
<1>4. Lasting /\ NewAnswers({t})
  BY ServersLast DEF SyncStep, NewAnswers
<1>5. /\ Holding(n)' /\ conn'[n] = <<t, n>> /\ undo'[n] = UndoOf(n, t)
      /\ \/ Command[t].op = "WRITE" /\ Appended(n, t)
         \/ Command[t].op = "REPLACE" /\ Exchanged(n, Command[t].num, t)
  <2>1. PICK c \in Threads : c = conn[n] /\ c = <<t, n>>
    BY <1>1
  <2>2. c = conn[n] /\ t = c[1]
    BY <2>1
  <2>3. /\ Holding(n)' /\ conn'[n] = c /\ undo'[n] = UndoOf(n, t)
        /\ \/ Command[t].op = "WRITE" /\ Appended(n, t)
           \/ Command[t].op = "REPLACE" /\ Exchanged(n, Command[t].num, t)
    BY <2>2, PerformCommitKeepsBoards
  <2> QED BY <2>1, <2>3
<1> QED BY <1>0, <1>2, <1>3, <1>4, <1>5, PerformedTexts

\* What a server that holds an operation knows of it.
LEMMA HeldOperation ==
    ASSUME IInv, CInv, NEW n \in Nodes, Holding(n)
    PROVE  \E t \in Txns :
             /\ conn[n] = <<t, n>> /\ <<t, n>> \in Threads /\ <<t, n>> \in ThreadsOf(t)
             /\ fate[<<t, n>>] = "applied" /\ ctl[t] # "idle"
             /\ Serving(<<t, n>>, status[n])
<1>1. /\ conn[n] \in Threads /\ conn[n][2] = n /\ Serving(conn[n], status[n])
      /\ Positions!(conn[n]) /\ Session(conn[n])
  BY ServedConnection DEF Holding, Awaiting
<1>2. PICK c \in Threads : c = conn[n]
  BY <1>1
<1>3. c = <<c[1], n>> /\ c[1] \in Txns /\ c \in ThreadsOf(c[1])
  <2>1. c = <<c[1], c[2]>>
    BY DEF Threads
  <2> QED BY <1>1, <1>2, <2>1, ThreadFacts
<1>4. fate[c] = "applied" /\ lastSent[c] \in AfterCommit
  BY <1>1, <1>2 DEF Holding, Awaiting, Serving, Working, Performed, Asked, AfterCommit
<1>5. ctl[c[1]] # "idle"
  BY <1>1, <1>2, <1>4 DEF AfterCommit
<1> QED BY <1>1, <1>2, <1>3, <1>4, <1>5

\* The end of an operation, in whichever way: SUCCESS_NOOP is sent only after the
\* master has performed the operation itself.
LEMMA SettlingTexts ==
    ASSUME IInv, CInv, BInv, BInv', TInv, NEW n \in Nodes, UNCHANGED masterVars,
           \/ ReceiveNoop(n) \/ ReceiveUndo(n) \/ (LoseMaster(n) /\ Awaiting(n))
           \/ (MasterError(n) /\ Awaiting(n))
    PROVE  TextsOK(n)'
<1>0. BoardTypeOK /\ BoardTypeOK' /\ TextsOK(n) /\ Awaiting(n) /\ Holding(n) /\ Undoable(n)
  BY DEF BInv, NodeOK, TInv, ReceiveNoop, ReceiveUndo, Holding
<1>1. PICK t \in Txns :
        /\ conn[n] = <<t, n>> /\ <<t, n>> \in Threads /\ <<t, n>> \in ThreadsOf(t)
        /\ fate[<<t, n>>] = "applied" /\ Serving(<<t, n>>, status[n])
  BY <1>0, HeldOperation
<1>2. Lasting /\ NewAnswers({})
  BY ServersLast DEF SyncStep
<1>3. fate \in [Threads -> Fates] /\ UNCHANGED <<completion, ctl, damaged>>
  BY DEF CInv, ConnectionTypeOK, masterVars, statVars, ReceiveNoop, ReceiveUndo, LoseMaster,
     MasterError, UndoAndRelease, boardVars
<1>a. file' = file => FileLeft(n)
  <2>1. Len(file[n]) \in Nat
    BY <1>0, LineFacts
  <2> QED BY <1>0, <1>3, <2>1 DEF FileLeft, BoardTypeOK
<1>4. \A u \in Txns : Held(n, u) => u = t
  BY <1>1 DEF Held
<1>5. CASE ReceiveNoop(n) /\ file' = file
  <2>1. ~Holding(n)'
    BY <1>5, SettlingKeepsBoards
  <2>2. fate'[<<t, n>>] = "kept"
    BY <1>1, <1>3, <1>5 DEF ReceiveNoop
  <2>3. lastSent[<<t, n>>] = "SUCCESS_NOOP"
    BY <1>0, <1>1, <1>5, OneMessage
       DEF ReceiveNoop, PeerGets, Awaiting, Serving, Performed, Unread
  <2>4. completion[t] = "WROTE"
    BY <1>1, <2>3 DEF IInv, PhaseTwo, FinalDecision
  <2>5. Granted(n, t)'
    BY <1>1, <1>3, <2>2, <2>4 DEF Granted
  <2> QED BY <1>0, <1>2, <1>4, <1>5, <1>a, <2>1, <2>5, ReleasedTexts
<1>6. CASE MasterError(n)
  <2>1. ~Holding(n)' /\ file' = file /\ ~Calm
    BY <1>0, <1>6, MasterErrorKeepsBoards
  <2>2. masterEnd[<<t, n>>] = "reset" /\ UNCHANGED fate
    BY <1>1, <1>6 DEF MasterError, PeerGetsError
  <2>3. ctl[t] = "crashed"
    BY <1>1, <2>2, ThreadFacts DEF CInv, Session, MasterEnds
  <2>4. Granted(n, t)'
    BY <1>1, <1>3, <2>1, <2>2, <2>3 DEF Granted
  <2> QED BY <1>0, <1>2, <1>4, <1>a, <2>1, <2>4, ReleasedTexts
<1>7. CASE /\ ReceiveNoop(n) \/ ReceiveUndo(n) \/ (LoseMaster(n) /\ Awaiting(n))
           /\ ~(ReceiveNoop(n) /\ file' = file)
  <2>1. /\ ~Holding(n)'
        /\ \/ undo[n].kind = "truncate" /\ Shortened(n, undo[n].num)
           \/ undo[n].kind = "restore" /\ Exchanged(n, undo[n].num, undo[n].text)
    BY <1>7, SettlingKeepsBoards
  <2> QED BY <1>0, <1>1, <1>2, <1>3, <2>1, UndoneTexts
<1> QED BY <1>5, <1>6, <1>7

\* Every step of the system keeps the texts in order.
LEMMA NextKeepsTexts == IInv /\ CInv /\ BInv /\ BInv' /\ TInv /\ [Next]_vars => TInv'
<1> SUFFICES ASSUME IInv, CInv, BInv, BInv', TInv, [Next]_vars PROVE TInv'
  OBVIOUS
<1>1. ASSUME Lasting, NewAnswers({}), \A n \in Nodes : Steady(n) PROVE TInv'
  BY <1>1, SteadyTexts DEF TInv, NewAnswers
<1>2. ASSUME UNCHANGED <<file, damaged, message_number, writer_active, state>>,
             UNCHANGED <<status, conn, undo, fate>>,
             \A m \in Nodes : backlog'[m] # <<>> => backlog[m] # <<>> \/ state[m] = "up",
             \A th \in Threads : masterEnd[th] = "reset" => masterEnd'[th] = "reset"
      PROVE  \A n \in Nodes : Steady(n)
  BY <1>2 DEF Steady, Holding, Awaiting, BInv, NodeOK, Listening
<1>3. ASSUME NEW t \in Txns, UNCHANGED slaveVars,
             \/ Reject(t) \/ StartSynchronization(t) \/ StartLocal(t) \/ LocalFails(t)
             \/ JoinThreads(t)
      PROVE  TInv'
  <2>1. UNCHANGED <<boardVars, slaveVars, sockVars>>
    BY <1>3 DEF Reject, StartSynchronization, StartLocal, LocalFails, JoinThreads
  <2>2. \A n \in Nodes : Steady(n)
    BY <1>2, <2>1 DEF boardVars, slaveVars, sockVars
  <2> QED BY <1>1, <1>3, <2>2, RequestsLast
<1>4. ASSUME NEW th \in Threads, UNCHANGED slaveVars, ThreadWork(th) PROVE TInv'
  <2>0. /\ th[2] \in Nodes /\ backlog \in [Nodes -> Seq(Threads)]
        /\ masterEnd \in [Threads -> Ends] /\ Session(th)
    BY ThreadParts DEF CInv, ConnectionTypeOK
  <2>1. \A m \in Nodes : backlog'[m] # <<>> => backlog[m] # <<>> \/ state[m] = "up"
    BY <1>4, <2>0 DEF ThreadWork, CreateSocket, Connect
  <2>2. masterEnd[th] # "reset"
    BY <1>4, <2>0 DEF ThreadWork, Session, MasterEnds
  <2>3. \A x \in Threads : masterEnd[x] = "reset" => masterEnd'[x] = "reset"
    BY <1>4, <2>0, <2>2 DEF ThreadWork, CreateSocket, Connect
  <2>4. \A n \in Nodes : Steady(n)
    BY <1>2, <1>4, <2>1, <2>3 DEF ThreadWork, boardVars, slaveVars
  <2> QED BY <1>1, <1>4, <2>4, ThreadsLast
<1>5. ASSUME NEW n \in Nodes, SyncStep(n), UNCHANGED masterVars PROVE TInv'
  <2>0. Lasting /\ NewAnswers({})
    BY <1>5, ServersLast
  <2>1. AtNode(n)
    BY <1>5, ProtocolStepsKeepBoards, PerformCommitKeepsBoards, SettlingKeepsBoards,
       MasterErrorKeepsBoards DEF SyncStep
  <2>2. ASSUME NEW m \in Nodes, m # n PROVE TextsOK(m)'
    <3>1. Steady(m)
      BY <2>1, <2>2, AtNodeElsewhere
    <3> QED BY <2>0, <3>1, SteadyTexts DEF TInv, NewAnswers
  <2>3. Steady(n) => TextsOK(n)'
    BY <2>0, SteadyTexts DEF TInv, NewAnswers
  <2>4. TextsOK(n)'
    BY <1>5, <2>3, ProtocolStepsKeepBoards, PerformCommitTexts, SettlingTexts DEF SyncStep
  <2> QED BY <2>2, <2>4 DEF TInv
<1>6. ASSUME NEW n \in Nodes, NEW how, ProcessEnds(n, how), FileLeft(n), ~Calm PROVE TInv'
  <2>0. Lasting /\ NewAnswers({}) /\ BoardTypeOK /\ BoardTypeOK' /\ ConnectionTypeOK
    BY <1>6, EndsLast DEF BInv, CInv
  <2>1. /\ UNCHANGED <<message_number, fate>>
        /\ state' = [state EXCEPT ![n] = how]
        /\ writer_active' = [writer_active EXCEPT ![n] = FALSE]
        /\ backlog' = [backlog EXCEPT ![n] = <<>>]
        /\ status' = [status EXCEPT ![n] = "accept"]
        /\ conn' = [conn EXCEPT ![n] = NoThread]
        /\ undo' = [undo EXCEPT ![n] = NoUndo]
        /\ \A th \in Threads : masterEnd[th] = "reset" => masterEnd'[th] = "reset"
    BY <1>6 DEF ProcessEnds
  <2>2. ASSUME NEW m \in Nodes, m # n PROVE TextsOK(m)'
    <3>1. /\ status'[m] = status[m] /\ conn'[m] = conn[m] /\ backlog'[m] = backlog[m]
          /\ state'[m] = state[m] /\ writer_active'[m] = writer_active[m] /\ undo'[m] = undo[m]
          /\ file'[m] = file[m] /\ damaged'[m] = damaged[m]
      BY <1>6, <2>0, <2>1, <2>2 DEF BoardTypeOK, ConnectionTypeOK, FileLeft
    <3>2. (Holding(m)' <=> Holding(m)) /\ Listening(m)
      BY <3>1 DEF Holding, Awaiting, BInv, NodeOK
    <3>3. Steady(m)
      BY <2>1, <3>1, <3>2 DEF Steady, Listening
    <3> QED BY <2>0, <3>3, SteadyTexts DEF TInv, NewAnswers
  <2>3. TextsOK(n)'
    <3>1. ~Holding(n)'
      BY <2>0, <2>1 DEF Holding, Awaiting, ConnectionTypeOK
    <3>2. ASSUME NEW t \in Txns, Held(n, t) PROVE Granted(n, t)'
      <4>1. <<t, n>> \in Threads /\ fate[<<t, n>>] = "applied" /\ ctl[t] # "idle"
        <5>1. PICK x \in Txns : /\ conn[n] = <<x, n>> /\ <<x, n>> \in Threads
                                /\ fate[<<x, n>>] = "applied" /\ ctl[x] # "idle"
          BY <3>2, HeldOperation DEF Held
        <5>2. x = t
          BY <3>2, <5>1 DEF Held
        <5> QED BY <5>1, <5>2
      <4>2. ctl[t] \in Ctls
        BY DEF IInv, MasterTypeOK
      <4>3. Home[t] = n => ctl'[t] \in {"done", "crashed"}
        BY <1>6, <4>1, <4>2 DEF ProcessEnds, Busy, Ctls
      <4> QED BY <1>6, <2>1, <4>1, <4>3 DEF Granted
    <3> QED BY <1>6, <2>0, <3>1, <3>2, ReleasedTexts DEF TInv
  <2> QED BY <2>2, <2>3 DEF TInv
<1>7. ASSUME NEW n \in Nodes, Restart(n) PROVE TInv'
  <2>1. UNCHANGED <<file, damaged, wrote, masterVars, slaveVars>>
    BY <1>7 DEF Restart
  <2>2. Lasting /\ NewAnswers({})
    BY <2>1 DEF Lasting, NewAnswers, Answered, masterVars, statVars, slaveVars
  <2>3. ASSUME NEW m \in Nodes PROVE TextsOK(m)'
    <3>1. TextsOK(m) /\ \A t \in Txns : Answered(t)' => Answered(t)
      BY <2>2 DEF TInv, NewAnswers
    <3>2. /\ UNCHANGED <<status, conn, undo, fate, completion, response, ctl>>
          /\ Holding(m)' <=> Holding(m)
      BY <2>1 DEF slaveVars, masterVars, statVars, Holding, Awaiting
    <3>3. ASSUME NEW t, NEW i
          PROVE  /\ Written(m, t, i)' <=> Written(m, t, i)
                 /\ Saved(m, t, i)' <=> Saved(m, t, i)
                 /\ Held(m, t)' <=> Held(m, t)
                 /\ Granted(m, t)' <=> Granted(m, t)
                 /\ Carries(m, t, i)' <=> Carries(m, t, i)
      BY <2>1, <3>2 DEF Written, Saved, Held, Granted, Answered, Carries
    <3>4. Reversible(m)'
      BY <2>1, <3>1, <3>2, <3>3 DEF TextsOK, Reversible, ClosureOf
    <3>5. ASSUME NEW t \in Txns PROVE Justified(m, t)' /\ Placed(m, t)' /\ Stays(m, t)'
      BY <2>1, <3>1, <3>3 DEF TextsOK, Justified, Placed, Stays
    <3> QED BY <3>4, <3>5 DEF TextsOK
  <2> QED BY <2>3 DEF TInv
<1>8. CASE UNCHANGED vars
  <2>1. Lasting /\ NewAnswers({})
    BY <1>8 DEF Lasting, NewAnswers, Answered, vars, boardVars, masterVars, statVars,
       slaveVars
  <2>2. \A n \in Nodes : Steady(n)
    BY <1>2, <1>8 DEF vars, boardVars, slaveVars, sockVars
  <2> QED BY <1>1, <2>1, <2>2
<1> QED BY <1>3, <1>4, <1>5, <1>6, <1>7, <1>8, StepKinds, OperatesKeepsTexts

\* At the start the files hold the text of no request.
LEMMA InitTexts == Init => TInv
<1> SUFFICES ASSUME Init, NEW n \in Nodes PROVE TextsOK(n)
  BY DEF TInv
<1>1. ~Holding(n)
  BY DEF Init, SlaveInit, Holding, Awaiting
<1>2. \A i \in DOMAIN file[n] : file[n][i].text = Old
  BY DEF Init, BoardInit
<1>3. ASSUME NEW t \in Txns PROVE ~Answered(t) /\ \A i : ~Written(n, t, i) /\ ~Saved(n, t, i)
  <2>1. t # Old /\ completion[t] = "" /\ response[t] = "none"
    BY BoardAssumption DEF Init, MasterInit
  <2> QED BY <1>1, <1>2, <2>1 DEF Answered, Written, Saved
<1>4. Reversible(n)
  BY <1>1 DEF Reversible
<1>5. ASSUME NEW t \in Txns PROVE Justified(n, t) /\ Placed(n, t) /\ Stays(n, t)
  BY <1>3 DEF Justified, Placed, Stays
<1> QED BY <1>4, <1>5 DEF TextsOK

\* TInv holds in every reachable state, crashes or not.
THEOREM TextInvariant == Spec => []TInv
BY InitTexts, NextKeepsTexts, Invariance, ConnectionInvariant, BoardInvariant, PTL DEF Spec

-----------------------------------------------------------------------------
(* The theorems on texts.                                                  *)

\* A WRITE is stored once in every file, although every thread of its request gets to
\* the point where masterOperation is called: with any number of peers, with the master
\* among its own peers, and with crashes.  The copies that a REPLACE cut short by a kill
\* may leave of the lines it was moving are in damaged lines, and not counted.
THEOREM WritesAreStoredOnce == Spec => []WrittenOnce
<1>1. ASSUME BInv, TInv PROVE WrittenOnce
  <2> SUFFICES ASSUME NEW n \in Nodes, NEW t \in Txns, Command[t].op = "WRITE"
               PROVE  Cardinality({i \in DOMAIN file[n] :
                                      Intact(n, i) /\ file[n][i].text = t}) <= 1
    BY DEF WrittenOnce
  <2> DEFINE S == {i \in DOMAIN file[n] : Intact(n, i) /\ file[n][i].text = t}
  <2>1. DOMAIN file[n] = 1 .. Len(file[n]) /\ Len(file[n]) \in Nat
    BY <1>1, LineFacts DEF BInv
  <2>2. Placed(n, t)
    BY <1>1 DEF TInv, TextsOK
  <2>3. ASSUME NEW i \in S, NEW j \in S PROVE i = j
    <3>1. Written(n, t, i) /\ Written(n, t, j)
      BY DEF Written, Intact
    <3>2. i \in Nat /\ j \in Nat
      BY <2>1
    <3> QED BY <2>2, <3>1, <3>2 DEF Placed
  <2> HIDE DEF S
  <2>4. CASE S = {}
    <3>1. Cardinality(S) = 0
      BY <2>4, FS_EmptySet
    <3> QED BY <3>1 DEF S
  <2>5. CASE S # {}
    <3>1. PICK i : i \in S
      BY <2>5
    <3>2. S = {i}
      BY <2>3, <3>1
    <3>3. Cardinality(S) = 1
      BY <3>2, FS_Singleton
    <3> QED BY <3>3 DEF S
  <2> QED BY <2>4, <2>5
<1> QED BY <1>1, BoardInvariant, TextInvariant, PTL

\* A WRITE that was answered WROTE is never lost at its master: no undo of another
\* request, which cuts the file to an earlier length or puts an earlier text back, takes
\* it away, and no crash does.  The line with the number of the answer is there, with the
\* text of the WRITE or of a REPLACE of that very line, or it is one that a kill in the
\* middle of a REPLACE damaged.
THEOREM AnsweredWritesStay == Spec => []AnsweredWriteStays
<1>1. ASSUME BInv, TInv PROVE AnsweredWriteStays
  <2> SUFFICES ASSUME NEW t \in Txns, Command[t].op = "WRITE", response[t] = "WROTE"
               PROVE  /\ wrote[t] + 1 \in DOMAIN file[Home[t]]
                      /\ Intact(Home[t], wrote[t] + 1) =>
                           \/ file[Home[t]][wrote[t] + 1].text = t
                           \/ \E r \in Txns : /\ file[Home[t]][wrote[t] + 1].text = r
                                              /\ Command[r] = [op |-> "REPLACE", num |-> wrote[t]]
    BY DEF AnsweredWriteStays
  <2> DEFINE n == Home[t]
             i == wrote[t] + 1
  <2>1. n \in Nodes /\ Stays(n, t) /\ wrote[t] \in Nat
    BY <1>1, BoardAssumption DEF TInv, TextsOK, BInv, BoardTypeOK
  <2>2. Carries(n, t, i)
    BY <2>1 DEF Stays, Answered
  <2>3. i \in DOMAIN file[n] /\ (Intact(n, i) => Stands(file[n][i].text, t, i))
    BY <2>2 DEF Carries, Intact
  <2>4. ASSUME NEW x \in Txns, Command[x].op = "REPLACE", Command[x].num + 1 = i
        PROVE  Command[x] = [op |-> "REPLACE", num |-> wrote[t]]
    <3>1. Command[x] \in [op : {"REPLACE"}, num : Nat]
      BY <2>4, BoardAssumption DEF Commands
    <3>2. Command[x].num = wrote[t]
      BY <2>1, <2>4, <3>1
    <3> QED BY <3>1, <3>2
  <2> QED BY <2>3, <2>4 DEF Stands
<1> QED BY <1>1, BoardInvariant, TextInvariant, PTL

\* Where no process ends, an operation that is not final is hidden: the text of a
\* request is in a file only if the master has performed the request, the peer was told
\* to keep it, or the synchronization thread still holds the write lock for it.  So a
\* request answered with an error leaves nothing a client could read.
THEOREM UncommittedIsLocked ==
    ASSUME Calm PROVE Spec => []UncommittedStaysLocked
<1>1. ASSUME BInv, TInv PROVE UncommittedStaysLocked
  <2> SUFFICES ASSUME NEW n \in Nodes, NEW t \in Txns, TextIn(n, t)
               PROVE  \/ Home[t] = n /\ (completion[t] = "WROTE" \/ response[t] = "WROTE")
                      \/ /\ <<t, n>> \in Threads /\ fate[<<t, n>>] = "kept"
                         /\ completion[t] = "WROTE"
                      \/ writer_active[n] /\ Holding(n) /\ conn[n] = <<t, n>>
    BY DEF UncommittedStaysLocked
  <2>1. DOMAIN file[n] = 1 .. Len(file[n]) /\ Len(file[n]) \in Nat
    BY <1>1, LineFacts DEF BInv
  <2>2. \E i \in Nat : Written(n, t, i)
    <3>1. damaged[n] = {}
      BY <1>1 DEF BInv, NodeOK, Undamaged, Whole
    <3> QED BY <2>1, <3>1 DEF TextIn, Written
  <2>3. Granted(n, t) \/ Held(n, t)
    BY <1>1, <2>2 DEF TInv, TextsOK, Justified
  <2>4. Holding(n) => writer_active[n]
    BY <1>1 DEF BInv, NodeOK, Undoable
  <2> QED BY <2>3, <2>4 DEF Granted, Answered, Held
<1> QED BY <1>1, BoardInvariant, TextInvariant, PTL

-----------------------------------------------------------------------------
(* The replicas.  An operation that a server holds counts from the moment  *)
(* its master has performed it, and not before: counted so, the contents   *)
(* of all files change together, at the master's own operation.            *)

\* Every request is for all nodes.
Complete == \A t \in Txns : Peers[Home[t]] \cup {Home[t]} = Nodes

\* The server of n holds an operation that its master has not performed.
Pending(n) == Holding(n) /\ completion[conn[n][1]] # "WROTE"

\* The file of n without that operation: how many lines, and their texts.
Size(n) ==
    IF Pending(n) /\ undo[n].kind = "truncate" THEN undo[n].num ELSE Len(file[n])

Text(n, i) ==
    IF Pending(n) /\ undo[n].kind = "restore" /\ undo[n].num + 1 = i
    THEN undo[n].text ELSE file[n][i].text

Alike ==
    \A m, n \in Nodes : Size(m) = Size(n) /\ \A i \in 1 .. Size(m) : Text(m, i) = Text(n, i)

\* Operations that are neither kept nor undone are held, the line of a REPLACE has its
\* text then, and the kept ones are those of the master too.
Account(n) ==
    /\ \A th \in Threads : th[2] = n =>
         /\ fate[th] = "applied" => Holding(n) /\ conn[n] = th
         /\ fate[th] = "kept" => completion[th[1]] = "WROTE"
    /\ Holding(n) /\ undo[n].kind = "restore" => file[n][undo[n].num + 1].text = conn[n][1]

Replicas == (\A n \in Nodes : Account(n)) /\ (LateUndo \/ Alike)

RInv == Calm /\ Complete => Replicas

\* Nothing changes in the file of n and in the operation its server holds.
Still(n) ==
    /\ file'[n] = file[n] /\ (Holding(n)' <=> Holding(n))
    /\ Holding(n) => undo'[n] = undo[n] /\ conn'[n] = conn[n]
    /\ \A th \in Threads : th[2] = n => fate'[th] = fate[th]

\* The contents do not change.
Kept(n) == Size(n)' = Size(n) /\ \A i \in 1 .. Size(n) : Text(n, i)' = Text(n, i)

\* No request is performed by its master.
NoneDone == \A t \in Txns : completion'[t] = "WROTE" <=> completion[t] = "WROTE"

\* What is performed stays so, a late undo too.
LEMMA DoneStays ==
    ASSUME IInv, CInv, [Next]_vars
    PROVE  /\ \A t \in Txns : completion[t] = "WROTE" => completion'[t] = "WROTE"
           /\ LateUndo => LateUndo'
<1>0. fate \in [Threads -> Fates] /\ completion \in [Txns -> Completions]
  BY DEF CInv, ConnectionTypeOK, IInv, MasterTypeOK
<1>1. CP!Next \/ UNCHANGED <<fate, completion>>
  BY CommitSteps DEF CP!commitVars
<1>2. \A t \in Txns : completion[t] = "WROTE" => completion'[t] = "WROTE"
  BY <1>0, <1>1
     DEF CP!Next, CP!PeerApplies, CP!PeerKeeps, CP!PeerUndoes, CP!MasterActs
<1>3. \A th \in Threads : fate[th] = "undone" => fate'[th] = "undone"
  BY <1>0, <1>1
     DEF CP!Next, CP!PeerApplies, CP!PeerKeeps, CP!PeerUndoes, CP!MasterActs
<1> QED BY <1>2, <1>3, ThreadParts DEF LateUndo

\* A node where nothing changes.
LEMMA StillNode ==
    ASSUME IInv, CInv, NEW n \in Nodes, Account(n), Still(n),
           \A t \in Txns : completion[t] = "WROTE" => completion'[t] = "WROTE"
    PROVE  Account(n)' /\ (NoneDone => Kept(n))
<1> USE DEF Still
<1>1. Account(n)'
  BY ThreadParts DEF Account
<1>2. Holding(n) => conn[n][1] \in Txns
  <2>1. ASSUME Holding(n) PROVE \E t \in Txns : conn[n] = <<t, n>>
    BY <2>1, HeldOperation
  <2> QED BY <2>1
<1>3. NoneDone => (Pending(n)' <=> Pending(n))
  BY <1>2 DEF NoneDone, Pending
<1>4. NoneDone => Kept(n)
  BY <1>3 DEF Kept, Size, Text, Pending
<1> QED BY <1>1, <1>4

\* Files that were alike and keep their contents stay alike.
LEMMA KeptAlike ==
    ASSUME Alike, \A n \in Nodes : Kept(n)
    PROVE  Alike'
BY DEF Alike, Kept

\* A peer performs an operation, which its master has not performed.
LEMMA PerformCommitContents ==
    ASSUME IInv, CInv, BInv, NEW n \in Nodes, UNCHANGED masterVars, PerformCommit(n), Account(n)
    PROVE  Account(n)' /\ Kept(n)
<1>0. BoardTypeOK /\ status[n] = "committing" /\ ~Holding(n) /\ fate \in [Threads -> Fates]
  BY DEF BInv, CInv, ConnectionTypeOK, PerformCommit, Holding, Awaiting
<1>1. PICK t \in Txns : /\ conn[n] = <<t, n>> /\ <<t, n>> \in Threads
                        /\ fate[<<t, n>>] = "none" /\ completion[t] = ""
  BY <1>0, CommittingOperation
<1>2. PICK c \in Threads : c = <<t, n>>
  BY <1>1
<1>3. c = conn[n] /\ t = c[1] /\ c[2] = n
  BY <1>1, <1>2
<1>4. /\ Holding(n)' /\ conn'[n] = c /\ undo'[n] = UndoOf(n, t)
      /\ \/ Command[t].op = "WRITE" /\ Appended(n, t)
         \/ Command[t].op = "REPLACE" /\ Exchanged(n, Command[t].num, t)
  BY <1>3, PerformCommitKeepsBoards
<1>5. fate' = [fate EXCEPT ![c] = "applied"] /\ UNCHANGED completion
  BY <1>3 DEF PerformCommit, masterVars, statVars
<1>6. Len(file[n]) \in Nat
  BY <1>0, LineFacts
<1>7. ~Pending(n) /\ Pending(n)'
  BY <1>0, <1>1, <1>3, <1>4, <1>5 DEF Pending
<1>8. ASSUME NEW th \in Threads, th[2] = n
      PROVE  /\ fate'[th] = "applied" => conn'[n] = th
             /\ fate'[th] = "kept" => completion'[th[1]] = "WROTE"
  <2>1. CASE th = c
    BY <1>0, <1>4, <1>5, <2>1
  <2>2. CASE th # c
    BY <1>0, <1>5, <1>8, <2>2 DEF Account
  <2> QED BY <2>1, <2>2
<1>9. CASE Command[t].op = "WRITE" /\ Appended(n, t)
  <2>1. undo'[n].kind = "truncate" /\ undo'[n].num = Len(file[n])
    BY <1>4, <1>9 DEF UndoOf
  <2>2. Size(n) = Len(file[n]) /\ Size(n)' = Len(file[n])
    BY <1>7, <2>1 DEF Size
  <2>3. ASSUME NEW i \in 1 .. Len(file[n]) PROVE Text(n, i)' = Text(n, i)
    BY <1>7, <1>9, <2>1 DEF Text, Appended
  <2> QED BY <1>4, <1>8, <2>1, <2>2, <2>3 DEF Account, Kept
<1>10. CASE Command[t].op = "REPLACE" /\ Exchanged(n, Command[t].num, t)
  <2> DEFINE k == Command[t].num
  <2>0. k \in Nat
    BY <1>10, BoardAssumption DEF Commands
  <2>1. /\ undo'[n].kind = "restore" /\ undo'[n].num = k
        /\ undo'[n].text = file[n][k + 1].text
    BY <1>4, <1>10 DEF UndoOf
  <2>2. Size(n) = Len(file[n]) /\ Size(n)' = Len(file[n])
    BY <1>7, <1>10, <2>1 DEF Size, Exchanged
  <2>3. file'[n][k + 1].text = t
    BY <1>10 DEF Exchanged
  <2>4. ASSUME NEW i \in 1 .. Len(file[n]) PROVE Text(n, i)' = Text(n, i)
    <3>1. Text(n, i) = file[n][i].text
      BY <1>7 DEF Text
    <3>2. CASE i = k + 1
      BY <1>7, <2>1, <3>1, <3>2 DEF Text
    <3>3. CASE i # k + 1
      BY <1>7, <1>10, <2>0, <2>1, <3>1, <3>3 DEF Text, Exchanged
    <3> QED BY <3>2, <3>3
  <2> QED BY <1>3, <1>4, <1>8, <2>1, <2>2, <2>3, <2>4 DEF Account, Kept
<1> QED BY <1>4, <1>9, <1>10

\* The end of an operation: it stays and was counted, or it is undone and was not, or
\* it is undone too late.
LEMMA SettlingContents ==
    ASSUME IInv, CInv, BInv, NEW n \in Nodes, UNCHANGED masterVars, Account(n),
           ReceiveNoop(n) \/ ReceiveUndo(n) \/ (LoseMaster(n) /\ Awaiting(n))
    PROVE  Account(n)' /\ (LateUndo' \/ Kept(n))
<1>0. BoardTypeOK /\ Awaiting(n) /\ Holding(n) /\ fate \in [Threads -> Fates]
  BY DEF BInv, CInv, ConnectionTypeOK, ReceiveNoop, ReceiveUndo, Holding
<1>1. PICK t \in Txns :
        /\ conn[n] = <<t, n>> /\ <<t, n>> \in Threads /\ <<t, n>> \in ThreadsOf(t)
        /\ fate[<<t, n>>] = "applied" /\ Serving(<<t, n>>, status[n])
  BY <1>0, HeldOperation
<1>2. PICK c \in Threads : c = <<t, n>>
  BY <1>1
<1>3. c = conn[n] /\ t = c[1] /\ c[2] = n
  BY <1>1, <1>2
<1>4. UNCHANGED completion
  BY DEF masterVars, statVars
<1>5. /\ ~Holding(n)'
      /\ \/ ReceiveNoop(n) /\ file' = file
         \/ undo[n].kind = "truncate" /\ Shortened(n, undo[n].num)
         \/ undo[n].kind = "restore" /\ Exchanged(n, undo[n].num, undo[n].text)
  BY SettlingKeepsBoards
<1>6. \/ /\ ReceiveNoop(n) /\ file' = file /\ completion[t] = "WROTE"
         /\ fate' = [fate EXCEPT ![c] = "kept"]
      \/ ~ReceiveNoop(n) /\ fate' = [fate EXCEPT ![c] = "undone"]
  <2>1. CASE ReceiveNoop(n)
    <3>1. lastSent[<<t, n>>] = "SUCCESS_NOOP"
      BY <1>0, <1>1, <2>1, OneMessage
         DEF ReceiveNoop, PeerGets, Awaiting, Serving, Performed, Unread
    <3>2. completion[t] = "WROTE"
      BY <1>1, <3>1 DEF IInv, PhaseTwo, FinalDecision
    <3> QED BY <1>3, <2>1, <3>2 DEF ReceiveNoop
  <2>2. CASE ~ReceiveNoop(n)
    BY <1>3, <2>2 DEF ReceiveUndo, LoseMaster, UndoAndRelease
  <2> QED BY <2>1, <2>2
<1>7. ASSUME NEW th \in Threads, th[2] = n
      PROVE  /\ fate'[th] # "applied"
             /\ fate'[th] = "kept" => completion'[th[1]] = "WROTE"
  <2>1. CASE th = c
    BY <1>0, <1>3, <1>4, <1>6, <2>1
  <2>2. CASE th # c
    <3>1. fate'[th] = fate[th]
      BY <1>0, <1>6, <2>2
    <3> QED BY <1>3, <1>4, <1>7, <2>2, <3>1 DEF Account
  <2> QED BY <2>1, <2>2
<1>8. Account(n)'
  BY <1>5, <1>7 DEF Account
<1>9. LateUndo' \/ Kept(n)
  <2>1. ~Pending(n)'
    BY <1>5 DEF Pending
  <2>2. CASE file' = file /\ completion[t] = "WROTE"
    BY <1>3, <2>1, <2>2 DEF Pending, Size, Text, Kept
  <2>3. CASE fate' = [fate EXCEPT ![c] = "undone"] /\ completion[t] = "WROTE"
    BY <1>0, <1>3, <1>4, <2>3 DEF LateUndo
  <2>4. CASE completion[t] # "WROTE"
    <3>1. Pending(n)
      BY <1>0, <1>3, <2>4 DEF Pending
    <3>2. undo[n].num \in Nat /\ Len(file[n]) \in Nat
      BY <1>0, LineFacts DEF BoardTypeOK, Undos
    <3>3. CASE undo[n].kind = "truncate" /\ Shortened(n, undo[n].num)
      <4>1. Size(n) = undo[n].num /\ Size(n)' = undo[n].num
        BY <2>1, <3>1, <3>3 DEF Size, Shortened
      <4>2. ASSUME NEW i \in 1 .. undo[n].num PROVE Text(n, i)' = Text(n, i)
        BY <2>1, <3>1, <3>3 DEF Text, Shortened
      <4> QED BY <4>1, <4>2 DEF Kept
    <3>4. CASE undo[n].kind = "restore" /\ Exchanged(n, undo[n].num, undo[n].text)
      <4>1. Size(n) = Len(file[n]) /\ Size(n)' = Len(file[n])
        BY <2>1, <3>1, <3>4 DEF Size, Exchanged
      <4>2. ASSUME NEW i \in 1 .. Len(file[n]) PROVE Text(n, i)' = Text(n, i)
        <5>1. Text(n, i)' = file'[n][i].text
          BY <2>1 DEF Text
        <5>2. CASE i = undo[n].num + 1
          BY <3>1, <3>4, <5>1, <5>2 DEF Text, Exchanged
        <5>3. CASE i # undo[n].num + 1
          BY <3>1, <3>2, <3>4, <5>1, <5>3 DEF Text, Exchanged
        <5> QED BY <5>2, <5>3
      <4> QED BY <4>1, <4>2 DEF Kept
    <3> QED BY <1>5, <1>6, <2>4, <3>3, <3>4
  <2> QED BY <1>6, <2>2, <2>3, <2>4
<1> QED BY <1>8, <1>9

\* The master performs a request with peers: every peer holds the operation, and with
\* it the line of this request, unless one has undone it.
LEMMA MasterContents ==
    ASSUME IInv, CInv, BInv, BInv', TInv, Calm, Complete, Replicas, NEW c \in Threads,
           MasterPerforms(c), UNCHANGED slaveVars, ~LateUndo, ~LateUndo'
    PROVE  Alike'
<1>0. PICK t \in Txns, h \in Nodes : t = c[1] /\ h = Home[t]
  BY ThreadParts, BoardAssumption
<1>1. /\ completion' = [completion EXCEPT ![t] = "WROTE"] /\ completion[t] = ""
      /\ completion \in [Txns -> Completions] /\ fate \in [Threads -> Fates]
  BY <1>0 DEF MasterPerforms, MasterOpEnds, IInv, OneMasterOp, MasterTypeOK, CInv,
              ConnectionTypeOK
<1>2. UNCHANGED <<status, conn, undo, fate>>
  BY DEF slaveVars
<1>3. Operates(h, t)
  BY <1>0, MasterOperates
<1>4. BoardTypeOK /\ BoardTypeOK' /\ NodeOK(h) /\ ~Holding(h) /\ ~Holding(h)'
  BY <1>2, <1>3 DEF BInv, NodeOK, Undoable, Operates, Holding, Awaiting
<1>5. /\ OneBoard(h)
      /\ \/ Command[t].op = "WRITE" /\ Appended(h, t)
         \/ Command[t].op = "REPLACE" /\ Exchanged(h, Command[t].num, t)
  BY <1>3, <1>4, PerformEffect DEF Operates, NodeOK
<1>6. Len(file[h]) \in Nat /\ Size(h) = Len(file[h])
  BY <1>4, LineFacts DEF Size, Pending
<1>7. \A i : Text(h, i) = file[h][i].text
  BY <1>4 DEF Text, Pending
<1>8. /\ Size(h)' = Len(file'[h])
      /\ \A i : Text(h, i)' = file'[h][i].text
  BY <1>4 DEF Size, Text, Pending
<1>9. ASSUME NEW m \in Nodes, m # h
      PROVE  Size(m)' = Size(h)' /\ \A i \in 1 .. Size(h)' : Text(m, i)' = Text(h, i)'
  <2>1. PICK d \in Threads : d = <<t, m>>
    BY <1>0, <1>9 DEF Complete, Threads
  <2>2. d[1] = t /\ d[2] = m /\ d \in ThreadsOf(t)
    BY <2>1, ThreadFacts DEF ThreadsOf
  <2>3. fate[d] = "applied"
    <3>1. fate[d] # "none"
      <4>1. MayEnd(c)
        BY DEF MasterPerforms, MayEnd
      <4>2. Uncommitted(t) = {}
        BY <1>0, <4>1, MayEndAlone
      <4> QED BY <2>2, <4>2 DEF CInv, Session, Uncommitted
    <3>2. fate[d] # "kept"
      BY <1>1, <2>2 DEF Replicas, Account
    <3>3. fate[d] # "undone"
      BY <1>1, <1>2, <2>2 DEF LateUndo
    <3> QED BY <1>1, <3>1, <3>2, <3>3 DEF Fates
  <2>4. Holding(m) /\ conn[m] = d /\ Account(m)
    BY <2>2, <2>3 DEF Replicas, Account
  <2>5. /\ Fits(t, undo[m], Len(file[m])) /\ ClosureOf(m, t, undo[m])
        /\ undo[m].kind = "restore" => file[m][undo[m].num + 1].text = t
    BY <2>2, <2>4 DEF BInv, NodeOK, Undoable, TInv, TextsOK, Reversible, Account
  <2>6. Pending(m) /\ ~Pending(m)'
    BY <1>1, <1>2, <2>2, <2>4 DEF Pending
  <2>7. file'[m] = file[m] /\ Len(file[m]) \in Nat /\ undo[m].num \in Nat
    BY <1>4, <1>5, <1>9, LineFacts DEF OneBoard, BoardTypeOK, Undos
  <2>8. Size(m)' = Len(file[m]) /\ \A i : Text(m, i)' = file[m][i].text
    BY <2>6, <2>7 DEF Size, Text
  <2>9. Size(m) = Len(file[h]) /\ \A i \in 1 .. Len(file[h]) : Text(m, i) = file[h][i].text
    BY <1>6, <1>7 DEF Replicas, Alike
  <2>10. CASE Command[t].op = "WRITE" /\ Appended(h, t)
    <3>1. /\ undo[m].kind = "truncate" /\ undo[m].num + 1 = Len(file[m])
          /\ file[m][undo[m].num + 1].text = t
      BY <2>5, <2>10 DEF Fits, ClosureOf
    <3>2. undo[m].num = Len(file[h])
      BY <2>6, <2>9, <3>1 DEF Size
    <3>3. ASSUME NEW i \in 1 .. Len(file[h]) PROVE file[m][i].text = file[h][i].text
      BY <2>6, <2>9, <3>1 DEF Text
    <3>4. /\ Len(file'[h]) = Len(file[h]) + 1
          /\ \A i \in 1 .. Len(file[h]) : file'[h][i].text = file[h][i].text
          /\ file'[h][Len(file[h]) + 1].text = t
      BY <2>10 DEF Appended
    <3>5. ASSUME NEW i \in 1 .. Len(file[h]) + 1 PROVE file[m][i].text = file'[h][i].text
      BY <1>6, <3>1, <3>2, <3>3, <3>4
    <3> QED BY <1>8, <2>8, <3>1, <3>2, <3>4, <3>5
  <2>11. CASE Command[t].op = "REPLACE" /\ Exchanged(h, Command[t].num, t)
    <3> DEFINE k == Command[t].num
    <3>0. k \in Nat
      BY <2>11, BoardAssumption DEF Commands
    <3>1. /\ undo[m].kind = "restore" /\ undo[m].num = k
          /\ file[m][k + 1].text = t
      BY <2>5, <2>11 DEF Fits
    <3>2. Len(file[m]) = Len(file[h])
      BY <2>9, <3>1 DEF Size
    <3>3. ASSUME NEW i \in 1 .. Len(file[h]), i # k + 1 PROVE file[m][i].text = file[h][i].text
      <4>1. Text(m, i) = file[m][i].text
        BY <3>1, <3>3 DEF Text
      <4> QED BY <2>9, <4>1
    <3>4. /\ Len(file'[h]) = Len(file[h])
          /\ \A i \in 1 .. Len(file[h]) : i # k + 1 => file'[h][i].text = file[h][i].text
          /\ file'[h][k + 1].text = t
      BY <2>11 DEF Exchanged
    <3> HIDE DEF k
    <3>5. ASSUME NEW i \in 1 .. Len(file[h]) PROVE file[m][i].text = file'[h][i].text
      BY <3>1, <3>3, <3>4
    <3> QED BY <1>8, <2>8, <3>2, <3>4, <3>5
  <2> QED BY <1>5, <2>10, <2>11
<1>10. ASSUME NEW m \in Nodes
       PROVE  Size(m)' = Size(h)' /\ \A i \in 1 .. Size(h)' : Text(m, i)' = Text(h, i)'
  BY <1>9
<1> QED BY <1>10 DEF Alike

\* Every step of the system keeps the replicas alike, or is a late undo or follows one.
LEMMA NextKeepsReplicas ==
    IInv /\ CInv /\ BInv /\ BInv' /\ TInv /\ RInv /\ [Next]_vars => RInv'
<1> SUFFICES ASSUME IInv, CInv, BInv, BInv', TInv, [Next]_vars, Calm, Complete, Replicas
             PROVE  Replicas'
  BY DEF RInv
<1>0. /\ \A t \in Txns : completion[t] = "WROTE" => completion'[t] = "WROTE"
      /\ LateUndo => LateUndo'
  BY DoneStays
<1>1. ASSUME NEW n \in Nodes, \A m \in Nodes : m # n => Still(m), NoneDone,
             Account(n)', LateUndo' \/ Kept(n)
      PROVE  Replicas'
  <2>1. ASSUME NEW m \in Nodes, m # n PROVE Account(m)' /\ Kept(m)
    BY <1>0, <1>1, <2>1, StillNode DEF Replicas
  <2> QED BY <1>0, <1>1, <2>1, KeptAlike DEF Replicas
<1>2. ASSUME \A m \in Nodes : Still(m), NoneDone PROVE Replicas'
  <2>1. ASSUME NEW m \in Nodes PROVE Account(m)' /\ Kept(m)
    BY <1>0, <1>2, StillNode DEF Replicas
  <2> QED BY <1>0, <2>1, KeptAlike DEF Replicas
<1>3. ASSUME UNCHANGED <<file, slaveVars>> PROVE \A m \in Nodes : Still(m)
  BY <1>3 DEF Still, Holding, Awaiting, slaveVars
<1>4. ASSUME UNCHANGED completion PROVE NoneDone
  BY <1>4 DEF NoneDone
<1>5. ASSUME NEW t \in Txns, UNCHANGED slaveVars,
             \/ Reject(t) \/ StartSynchronization(t) \/ StartLocal(t) \/ LocalFails(t)
             \/ JoinThreads(t)
      PROVE  Replicas'
  <2>1. UNCHANGED <<file, slaveVars, completion>>
    BY <1>5 DEF Reject, StartSynchronization, StartLocal, LocalFails, JoinThreads, boardVars,
                statVars
  <2> QED BY <1>2, <1>3, <1>4, <2>1
<1>6. ASSUME NEW th \in Threads, UNCHANGED slaveVars, ThreadWork(th) PROVE Replicas'
  <2>1. UNCHANGED file
    BY <1>6 DEF ThreadWork, boardVars
  <2>2. NoneDone
    <3>1. completion \in [Txns -> Completions] /\ th[1] \in Txns
      BY ThreadParts DEF IInv, MasterTypeOK
    <3> QED BY <1>6, <3>1 DEF ThreadWork, NoneDone
  <2> QED BY <1>2, <1>3, <1>6, <2>1, <2>2
<1>7. ASSUME NEW t \in Txns, UNCHANGED slaveVars,
             LocalPerforms(t) \/ \E th \in Threads : th[1] = t /\ MasterPerforms(th)
      PROVE  Replicas'
  <2>1. PICK h \in Nodes : h = Home[t]
    BY BoardAssumption
  <2>2. Operates(h, t)
    BY <1>7, <2>1, MasterOperates
  <2>3. BoardTypeOK /\ NodeOK(h) /\ ~Holding(h)
    BY <2>2 DEF BInv, NodeOK, Undoable, Operates
  <2>4. OneBoard(h)
    BY <2>2, <2>3, PerformEffect DEF Operates, NodeOK
  <2>5. ASSUME NEW m \in Nodes PROVE Account(m)'
    <3>1. CASE m = h
      BY <1>0, <1>7, <2>3, <3>1, ThreadParts DEF Replicas, Account, Holding, Awaiting, slaveVars
    <3>2. CASE m # h
      <4>1. Still(m)
        BY <1>7, <2>4, <3>2 DEF Still, OneBoard, Holding, Awaiting, slaveVars
      <4> QED BY <1>0, <4>1, StillNode DEF Replicas
    <3> QED BY <3>1, <3>2
  <2>6. CASE LocalPerforms(t)
    <3>1. Nodes = {h}
      BY <2>1, <2>6 DEF Complete, BInv, Running, LocalPerforms
    <3>2. Alike'
      BY <3>1 DEF Alike
    <3> QED BY <2>5, <3>2 DEF Replicas
  <2>7. CASE \E th \in Threads : th[1] = t /\ MasterPerforms(th)
    BY <1>0, <1>7, <2>5, <2>7, MasterContents DEF Replicas
  <2> QED BY <1>7, <2>6, <2>7
<1>8. ASSUME NEW n \in Nodes, SyncStep(n), UNCHANGED masterVars PROVE Replicas'
  <2>0. Account(n) /\ NoneDone
    BY <1>8 DEF Replicas, NoneDone, masterVars, statVars
  <2>1. AtNode(n)
    BY <1>8, ProtocolStepsKeepBoards, PerformCommitKeepsBoards, SettlingKeepsBoards,
       MasterErrorKeepsBoards DEF SyncStep
  <2>2. ASSUME NEW m \in Nodes, m # n PROVE Still(m)
    BY <2>1, <2>2, AtNodeElsewhere DEF Steady, Still
  <2>3. Steady(n) => Account(n)' /\ Kept(n)
    BY <1>0, <2>0, StillNode DEF Steady, Still
  <2>4. Account(n)' /\ (LateUndo' \/ Kept(n))
    BY <1>8, <2>0, <2>3, ProtocolStepsKeepBoards, PerformCommitContents, SettlingContents,
       MasterErrorKeepsBoards DEF SyncStep
  <2> QED BY <1>1, <2>0, <2>2, <2>4
<1>9. ASSUME NEW n \in Nodes, Restart(n) PROVE Replicas'
  BY <1>2, <1>3, <1>4, <1>9 DEF Restart, masterVars, statVars
<1>10. CASE UNCHANGED vars
  BY <1>2, <1>3, <1>4, <1>10 DEF vars, boardVars, masterVars, statVars
<1> QED BY <1>5, <1>6, <1>7, <1>8, <1>9, <1>10, StepKinds

\* At the start the files are the same and nobody holds an operation.
LEMMA InitReplicas == Init => RInv
<1> SUFFICES ASSUME Init PROVE Replicas
  BY DEF RInv
<1>1. \A n \in Nodes : ~Holding(n)
  BY DEF Init, SlaveInit, Holding, Awaiting
<1>2. \A th \in Threads : fate[th] = "none"
  BY DEF Init, SlaveInit
<1>3. \A m, n \in Nodes : file[m] = file[n]
  BY DEF Init, BoardInit
<1>4. Alike
  BY <1>1, <1>3 DEF Alike, Size, Text, Pending
<1>5. \A n \in Nodes : Account(n)
  BY <1>1, <1>2 DEF Account
<1> QED BY <1>4, <1>5 DEF Replicas

\* RInv holds in every reachable state.
THEOREM ReplicaInvariant == Spec => []RInv
BY InitReplicas, NextKeepsReplicas, Invariance, ConnectionInvariant, BoardInvariant,
   TextInvariant, PTL DEF Spec

\* Where every request is for all nodes and no process ends, the replicas are equal,
\* line by line, whenever nothing is being synchronized: whichever masters the requests
\* went through, however their threads and messages interleave, and with any refused
\* connections, timeouts and failed operations, unless a peer took back what its
\* master had performed (LateUndo).
THEOREM ReplicasStayEqual ==
    ASSUME Calm, Complete PROVE Spec => []ReplicasAgree
<1>1. ASSUME BInv, RInv PROVE ReplicasAgree
  <2> SUFFICES ASSUME Quiet, ~LateUndo, NEW m \in Nodes, NEW n \in Nodes
               PROVE  file[m] = file[n]
    BY DEF ReplicasAgree
  <2>1. Alike
    BY <1>1 DEF RInv, Replicas
  <2>2. ~Holding(m) /\ ~Holding(n)
    BY DEF Quiet, Holding, Awaiting
  <2>3. /\ Len(file[m]) = Len(file[n])
        /\ \A i \in 1 .. Len(file[m]) : file[m][i].text = file[n][i].text
    BY <2>1, <2>2 DEF Alike, Size, Text, Pending
  <2>4. /\ file[m] \in Seq(Lines) /\ file[n] \in Seq(Lines) /\ Len(file[m]) \in Nat
        /\ DOMAIN file[m] = 1 .. Len(file[m]) /\ DOMAIN file[n] = 1 .. Len(file[n])
        /\ \A i \in 1 .. Len(file[m]) : file[m][i] \in Lines
        /\ \A i \in 1 .. Len(file[n]) : file[n][i] \in Lines
    BY <1>1, LineFacts DEF BInv
  <2>5. \A i \in 1 .. Len(file[m]) : file[m][i].number = file[n][i].number
    <3>1. damaged[m] = {} /\ damaged[n] = {}
      BY <1>1 DEF BInv, NodeOK, Undamaged, Whole
    <3> QED BY <1>1, <2>3, <2>4, <3>1 DEF BInv, NodeOK, Numbered
  <2>6. \A x, y \in Lines : x.number = y.number /\ x.text = y.text => x = y
    BY DEF Lines
  <2>7. \A i \in 1 .. Len(file[m]) : file[m][i] = file[n][i]
    BY <2>3, <2>4, <2>5, <2>6
  <2>8. ASSUME NEW q \in Seq(Lines), NEW r \in Seq(Lines), Len(q) = Len(r),
               \A i \in 1 .. Len(q) : q[i] = r[i]
        PROVE  q = r
    BY ONLY <2>8
  <2> QED BY ONLY <2>3, <2>4, <2>7, <2>8
<1> QED BY <1>1, BoardInvariant, ReplicaInvariant, PTL
=============================================================================
