------------------------- MODULE FileOperationsProofs -------------------------
(***************************************************************************)
(* Proofs about FileOperations, for any number of threads, requests and    *)
(* messages, with permissions that change at any time: what a READ sees    *)
(* and answers is final, what is answered WROTE is written, and no undo    *)
(* takes anything final away.                                              *)
(*                                                                         *)
(* The argument: the file and the final lines differ only while the        *)
(* synchronization thread awaits the last word of its master, with the     *)
(* lock (Places), and only by what the closure will take back (UndoFits).  *)
(***************************************************************************)
EXTENDS FileOperations, SequenceTheorems, TLAPS

-----------------------------------------------------------------------------
(* The inductive invariant.                                                *)

\* The parts of texts, with those of an uninitialised buffer.
Parts == STRING \cup {"junk"}

Lines == [number : Int, text : Seq(Parts)]

Closures == [kind : {"none", "truncate", "fail", "restore"}, num : Nat, text : Seq(Parts)]

Answers == [code : {"none", "UNKNOWN", "ERROR", "MESSAGE", "WROTE"}, line : Lines]

OperationsTypeOK ==
    /\ file \in Seq(Lines) /\ board \in Seq(Lines)
    /\ message_number \in Int
    /\ permitted \in BOOLEAN /\ unopened \in BOOLEAN
    /\ readers \in SUBSET Threads /\ writers \in SUBSET Threads
    /\ pc \in [Threads -> {"idle", "valid", "waiting", "reading", "writing", "AWAITING"}]
    /\ request \in [Threads -> Requests]
    /\ undo \in Closures
    /\ answer \in [Threads -> Answers]

\* Who is in the file has the lock.
Places ==
    /\ \A th \in Threads : pc[th] = "reading" => th \in readers
    /\ \A th \in Threads : pc[th] \in {"writing", "AWAITING"} => th \in writers
    /\ \A th \in Threads : pc[th] = "AWAITING" => th = Sync
    /\ \A a, b \in writers : a = b
    /\ readers = {} \/ writers = {}

Awaiting == pc[Sync] = "AWAITING"

\* Whatever the permissions do, the closure leaves the final lines.
UndoLeavesFinal ==
    /\ FinalStays
    /\ Awaiting /\ undo.kind = "truncate" => undo.num \in Len(board) .. Len(file)

\* Every line has the number of its place.
Numbered(seq) == \A i \in 1 .. Len(seq) : seq[i].number = i - 1

\* Line i is the final one, if an undo can put it back at all.
Agrees(i) == Len(board[i].text) = 2 => file[i] = board[i]

\* While the file was always accessible: it differs from the final lines only by
\* the operation that is not final, and the closure takes back exactly that.
UndoFits ==
    ~unopened =>
        /\ message_number = Len(file) /\ Numbered(file) /\ Numbered(board)
        /\ ~Awaiting => Len(file) = Len(board) /\ \A i \in 1 .. Len(board) : Agrees(i)
        /\ Awaiting =>
             \/ /\ undo.kind = "truncate"
                /\ Len(file) = Len(board) + 1 /\ undo.num = Len(board)
                /\ \A i \in 1 .. Len(board) : Agrees(i)
             \/ /\ undo.kind = "restore"
                /\ Len(file) = Len(board) /\ undo.num < Len(board)
                /\ \A i \in 1 .. Len(board) : i # undo.num + 1 => Agrees(i)
                /\ Len(board[undo.num + 1].text) = 2 => undo.text = board[undo.num + 1].text

IInv == OperationsTypeOK /\ Places /\ UndoLeavesFinal /\ UndoFits

-----------------------------------------------------------------------------
(* Sequences of lines.                                                     *)

\* A line appended leaves the earlier ones in place.
LEMMA AppendLine ==
    ASSUME NEW s \in Seq(Lines), NEW x \in Lines
    PROVE  /\ Append(s, x) \in Seq(Lines) /\ Len(Append(s, x)) = Len(s) + 1
           /\ \A i \in 1 .. Len(s) : Append(s, x)[i] = s[i]
           /\ Append(s, x)[Len(s) + 1] = x
BY AppendProperties

\* A line exchanged leaves the others in place.
LEMMA ExchangeLine ==
    ASSUME NEW s \in Seq(Lines), NEW k \in Nat, k < Len(s), NEW x \in Lines
    PROVE  /\ [s EXCEPT ![k + 1] = x] \in Seq(Lines)
           /\ Len([s EXCEPT ![k + 1] = x]) = Len(s)
           /\ \A i \in 1 .. Len(s) : i # k + 1 => [s EXCEPT ![k + 1] = x][i] = s[i]
           /\ [s EXCEPT ![k + 1] = x][k + 1] = x
BY ExceptSeq

\* A file cut to n lines keeps the first n.
LEMMA CutLines ==
    ASSUME NEW s \in Seq(Lines), NEW n \in 0 .. Len(s)
    PROVE  /\ SubSeq(s, 1, n) \in Seq(Lines) /\ Len(SubSeq(s, 1, n)) = n
           /\ \A i \in 1 .. n : SubSeq(s, 1, n)[i] = s[i]
BY SubSeqProperties

\* The undo of a REPLACE keeps the first two parts of a text.
LEMMA TwoParts ==
    ASSUME NEW t \in Seq(Parts), Len(t) > 1
    PROVE  /\ SubSeq(t, 1, 2) \in Seq(Parts)
           /\ Len(t) = 2 => SubSeq(t, 1, 2) = t
BY SubSeqProperties

\* What lines and requests are made of.
LEMMA LineTypes ==
    /\ \A n \in Int, t \in Seq(Parts) : Line(n, t) \in Lines
    /\ Junk \in Seq(Parts) /\ <<>> \in Seq(Parts)
    /\ \A r \in Requests : r.num \in Nat /\ r.text \in Seq(Parts) /\ Line(r.num, <<>>) \in Lines
    /\ \A n \in Nat : Line(n, <<>>) \in Lines
<1>1. \A n \in Int, t \in Seq(Parts) : Line(n, t) \in Lines
  BY DEF Line, Lines
<1>2. Junk \in Seq(Parts) /\ <<>> \in Seq(Parts)
  <2>1. "junk" \in Parts
    BY DEF Parts
  <2> QED BY <2>1, EmptySeq DEF Junk
<1>3. \A m \in Messages : m \in Seq(Parts)
  <2>1. Seq(STRING) \subseteq Seq(Parts)
    BY SeqMonotonic DEF Parts
  <2> QED BY <2>1, OperationsAssumption
<1>4. ASSUME NEW r \in Requests
      PROVE  r.num \in Nat /\ r.text \in Seq(Parts)
  <2>1. CASE r \in [op : {"READ"}, num : 0 .. MaxRequests, text : {<<>>}]
    <3>1. r.num \in 0 .. MaxRequests /\ r.text = <<>>
      BY <2>1
    <3> QED BY <1>2, <3>1, OperationsAssumption
  <2>2. CASE r \in [op : {"WRITE"}, num : {0}, text : Messages]
    BY <1>3, <2>2
  <2>3. CASE r \in [op : {"REPLACE"}, num : 0 .. MaxRequests, text : {m \in Messages : Len(m) = 2}]
    BY <1>3, <2>3, OperationsAssumption
  <2> QED BY <2>1, <2>2, <2>3 DEF Requests
<1>5. \A n \in Nat : Line(n, <<>>) \in Lines
  <2>1. \A n \in Nat : n \in Int
    OBVIOUS
  <2> QED BY <1>1, <1>2, <2>1, Zenon
<1> QED BY <1>1, <1>2, <1>4, <1>5

-----------------------------------------------------------------------------
(* WRITE and REPLACE, and their undoing.                                   *)

\* What an operation does to the file, and what its closure remembers.
Performed(th) ==
    /\ file' \in Seq(Lines) /\ message_number' \in Int
    /\ undo' \in Closures
    /\ Len(file') >= Len(file)
    /\ undo'.kind = "truncate" => undo'.num = Len(file)
    /\ permitted => \E i \in 1 .. Len(file') : file'[i] = Line(Number(th), request[th].text)
    /\ permitted /\ ~unopened => message_number' = Len(file') /\ Numbered(file')
    /\ permitted =>
         \/ /\ undo'.kind = "truncate"
            /\ Len(file') = Len(file) + 1
            /\ \A i \in 1 .. Len(file) : file'[i] = file[i]
         \/ /\ undo'.kind = "restore"
            /\ Len(file') = Len(file) /\ undo'.num < Len(file)
            /\ \A i \in 1 .. Len(file) : i # undo'.num + 1 => file'[i] = file[i]
            /\ Len(file[undo'.num + 1].text) = 2 => undo'.text = file[undo'.num + 1].text

\* Perform, by board and synchronization threads, leaves what Performed says.
LEMMA PerformFacts ==
    ASSUME OperationsTypeOK, ~unopened => message_number = Len(file) /\ Numbered(file),
           NEW th \in Threads, Perform(th)
    PROVE  Performed(th)
<1> DEFINE r == request[th]
<1>1. r.num \in Nat /\ r.text \in Seq(Parts) /\ file \in Seq(Lines) /\ message_number \in Int
  BY LineTypes DEF OperationsTypeOK
<1>2. Len(file) \in Nat /\ permitted \in BOOLEAN
  BY <1>1, LenProperties DEF OperationsTypeOK
<1>3. CASE r.op = "WRITE" /\ writeOperation(r.text)
  <2> DEFINE x == Line(message_number, r.text)
  <2>1. x \in Lines /\ x.number = message_number
    BY <1>1, LineTypes DEF Line
  <2>2. message_number' = message_number + 1 /\ Number(th) = message_number
    BY <1>3 DEF writeOperation, Number
  <2>3. CASE permitted
    <3>1. /\ undo'.kind = "truncate" /\ undo'.num = Len(file) /\ undo'.text = <<>>
          /\ undo' = [kind |-> "truncate", num |-> Len(file), text |-> <<>>]
          /\ file' = Append(file, x)
      BY <1>3, <2>3 DEF writeOperation
    <3>2. undo' \in Closures
      BY <1>2, <3>1, LineTypes DEF Closures
    <3> HIDE DEF x
    <3>3. /\ file' \in Seq(Lines) /\ Len(file') = Len(file) + 1
          /\ \A i \in 1 .. Len(file) : file'[i] = file[i]
          /\ file'[Len(file) + 1] = x
      BY <1>1, <2>1, <3>1, AppendLine
    <3>4. ~unopened => message_number' = Len(file') /\ Numbered(file')
      BY <1>2, <2>1, <2>2, <3>3 DEF Numbered
    <3>5. \E i \in 1 .. Len(file') : file'[i] = Line(Number(th), request[th].text)
      BY <1>2, <2>2, <3>3 DEF x
    <3>6. message_number' \in Int /\ Len(file') >= Len(file)
      BY <1>1, <1>2, <2>2, <3>3
    <3>7. undo'.kind = "truncate" /\ undo'.num = Len(file)
      BY <3>1, Zenon
    <3> QED BY <2>3, <3>2, <3>3, <3>4, <3>5, <3>6, <3>7 DEF Performed
  <2>4. CASE ~permitted
    <3>1. undo' = [kind |-> "fail", num |-> 0, text |-> <<>>] /\ file' = file
      BY <1>3, <2>4 DEF writeOperation
    <3>2. undo' \in Closures
      BY <3>1, LineTypes DEF Closures
    <3>3. undo'.kind = "fail"
      BY <3>1
    <3> QED BY <1>1, <1>2, <2>2, <2>4, <3>1, <3>2, <3>3 DEF Performed
  <2> QED BY <2>3, <2>4
<1>4. CASE /\ r.op = "REPLACE" /\ (permitted => Replaceable(r.num))
           /\ replaceOperation(r.num, r.text)
  <2> DEFINE x == Line(r.num, r.text)
  <2>1. x \in Lines /\ x.number = r.num
    BY <1>1, LineTypes DEF Line
  <2>2. /\ message_number' = message_number /\ Number(th) = r.num
        /\ undo' = [kind |-> "restore", num |-> r.num, text |-> getMessageNumberInfo(r.num)]
        /\ undo'.kind = "restore" /\ undo'.num = r.num
        /\ undo'.text = getMessageNumberInfo(r.num)
    BY <1>4 DEF replaceOperation, Number
  <2>3. CASE permitted
    <3>1. r.num < Len(file) /\ Len(file[r.num + 1].text) > 1
      BY <1>4, <2>3 DEF Replaceable
    <3>2. file[r.num + 1].text \in Seq(Parts)
      <4>1. r.num + 1 \in 1 .. Len(file)
        BY <1>1, <1>2, <3>1
      <4>2. file[r.num + 1] \in Lines
        BY <1>1, <4>1, ElementOfSeq
      <4> QED BY <4>2 DEF Lines
    <3>3. /\ undo'.text = SubSeq(file[r.num + 1].text, 1, 2)
          /\ file' = [file EXCEPT ![r.num + 1] = x]
      BY <1>4, <2>2, <2>3 DEF replaceOperation, getMessageNumberInfo, Replaced
    <3>4. /\ undo'.text \in Seq(Parts)
          /\ Len(file[r.num + 1].text) = 2 => undo'.text = file[r.num + 1].text
      BY <3>1, <3>2, <3>3, TwoParts
    <3>5. undo' \in Closures
      BY <1>1, <2>2, <3>4 DEF Closures
    <3> HIDE DEF x
    <3>6. /\ file' \in Seq(Lines) /\ Len(file') = Len(file)
          /\ \A i \in 1 .. Len(file) : i # r.num + 1 => file'[i] = file[i]
          /\ file'[r.num + 1] = x
      BY <1>1, <2>1, <3>1, <3>3, ExchangeLine
    <3>7. ~unopened => message_number' = Len(file') /\ Numbered(file')
      <4> SUFFICES ASSUME ~unopened PROVE message_number' = Len(file') /\ Numbered(file')
        OBVIOUS
      <4>1. ASSUME NEW i \in 1 .. Len(file') PROVE file'[i].number = i - 1
        <5>1. i \in 1 .. Len(file) /\ file[i].number = i - 1
          BY <3>6 DEF Numbered
        <5>2. CASE i = r.num + 1
          BY <1>1, <2>1, <3>6, <5>2
        <5>3. CASE i # r.num + 1
          BY <3>6, <5>1, <5>3
        <5> QED BY <5>2, <5>3
      <4> QED BY <2>2, <3>6, <4>1 DEF Numbered
    <3>8. \E i \in 1 .. Len(file') : file'[i] = Line(Number(th), request[th].text)
      <4>1. r.num + 1 \in 1 .. Len(file')
        <5>1. Len(file') = Len(file) /\ r.num < Len(file) /\ r.num \in Nat /\ Len(file) \in Nat
          BY <1>1, <1>2, <3>1, <3>6
        <5> HIDE DEF r
        <5> QED BY <5>1
      <4> QED BY <2>2, <3>6, <4>1 DEF x
    <3>9. /\ message_number' \in Int /\ Len(file') >= Len(file)
          /\ undo'.kind # "truncate" /\ undo'.num < Len(file)
      BY <1>1, <1>2, <2>2, <3>1, <3>6
    <3>10. /\ \A i \in 1 .. Len(file) : i # undo'.num + 1 => file'[i] = file[i]
           /\ Len(file[undo'.num + 1].text) = 2 => undo'.text = file[undo'.num + 1].text
      BY <2>2, <3>4, <3>6
    <3> HIDE DEF r
    <3> QED BY <2>2, <3>5, <3>6, <3>7, <3>8, <3>9, <3>10 DEF Performed
  <2>4. CASE ~permitted
    <3>1. undo'.text = Junk /\ file' = file
      BY <1>4, <2>2, <2>4 DEF replaceOperation, getMessageNumberInfo, Replaced
    <3>2. undo' \in Closures
      BY <1>1, <2>2, <3>1, LineTypes DEF Closures
    <3> QED BY <1>1, <1>2, <2>2, <2>4, <3>1, <3>2 DEF Performed
  <2> QED BY <2>3, <2>4
<1> QED BY <1>3, <1>4 DEF Perform

-----------------------------------------------------------------------------
(* Every step keeps the invariant.                                         *)

\* A step that leaves the file, the final lines and the closure alone.
LEMMA QuietStep ==
    ASSUME IInv, UNCHANGED <<file, board, message_number, undo, unopened>>, Awaiting' <=> Awaiting
    PROVE  UndoLeavesFinal' /\ UndoFits'
<1>1. UndoLeavesFinal'
  BY DEF IInv, UndoLeavesFinal, FinalStays
<1>2. /\ \A i : Agrees(i)' <=> Agrees(i)
      /\ Numbered(file)' = Numbered(file) /\ Numbered(board)' = Numbered(board)
  BY DEF Agrees, Numbered
<1>3. UndoFits'
  BY <1>2 DEF IInv, UndoFits
<1> QED BY <1>1, <1>3

\* Permissions change.
LEMMA ChangeModeKeepsInvariant ==
    ASSUME IInv, ChangeMode
    PROVE  IInv'
<1>1. OperationsTypeOK' /\ Places'
  BY DEF ChangeMode, IInv, OperationsTypeOK, Places
<1> QED BY <1>1, QuietStep DEF ChangeMode, Awaiting, IInv

\* An answer that is not about the file.
LEMMA AnswerFacts ==
    ASSUME OperationsTypeOK, NEW th \in Threads, NEW line \in Lines,
           NEW code \in {"UNKNOWN", "ERROR", "MESSAGE", "WROTE"}, Answer(th, code, line)
    PROVE  /\ answer' \in [Threads -> Answers]
           /\ pc' = [pc EXCEPT ![th] = "idle"]
BY DEF OperationsTypeOK, Answer, Answers

\* The number of a request is validated, or turned down.
LEMMA StartKeepsInvariant ==
    ASSUME IInv, NEW th \in Threads, NEW r \in Requests, Start(th, r)
    PROVE  IInv'
<1>1. \E place \in {"idle", "valid"} : pc' = [pc EXCEPT ![th] = place]
  BY DEF Start, Answer
<1>2. answer' \in [Threads -> Answers]
  <2>1. Line(r.num, <<>>) \in Lines
    BY LineTypes
  <2>2. CASE th # Sync /\ r.op # "WRITE" /\ r.num >= message_number
    <3>1. OperationsTypeOK /\ Answer(th, "UNKNOWN", Line(r.num, <<>>))
      BY <2>2 DEF Start, IInv
    <3> QED BY <2>1, <3>1, AnswerFacts
  <2>3. CASE ~(th # Sync /\ r.op # "WRITE" /\ r.num >= message_number)
    BY <2>3 DEF Start, IInv, OperationsTypeOK
  <2> QED BY <2>2, <2>3
<1>3. OperationsTypeOK'
  BY <1>1, <1>2 DEF Start, IInv, OperationsTypeOK
<1>4. Places'
  BY <1>1 DEF Start, IInv, OperationsTypeOK, Places
<1>5. Awaiting' <=> Awaiting
  BY <1>1 DEF Start, IInv, OperationsTypeOK, Awaiting, Threads
<1> QED BY <1>3, <1>4, <1>5, QuietStep DEF Start, IInv

\* The file is accessible and the thread queues for the lock, or it answers ERROR.
LEMMA AccessKeepsInvariant ==
    ASSUME IInv, NEW th \in Threads, Access(th)
    PROVE  IInv'
<1>1. \E place \in {"idle", "waiting"} : pc' = [pc EXCEPT ![th] = place]
  BY DEF Access, Answer
<1>2. answer' \in [Threads -> Answers]
  <2>1. Line(request[th].num, <<>>) \in Lines
    BY LineTypes DEF IInv, OperationsTypeOK
  <2>2. CASE ~permitted
    <3>1. OperationsTypeOK /\ Answer(th, "ERROR", Line(request[th].num, <<>>))
      BY <2>2 DEF Access, IInv
    <3> QED BY <2>1, <3>1, AnswerFacts
  <2>3. CASE permitted
    BY <2>3 DEF Access, IInv, OperationsTypeOK
  <2> QED BY <2>2, <2>3
<1>3. OperationsTypeOK'
  BY <1>1, <1>2 DEF Access, IInv, OperationsTypeOK
<1>4. Places'
  BY <1>1 DEF Access, IInv, OperationsTypeOK, Places
<1>5. Awaiting' <=> Awaiting
  BY <1>1 DEF Access, IInv, OperationsTypeOK, Awaiting, Threads
<1> QED BY <1>3, <1>4, <1>5, QuietStep DEF Access, IInv

\* A READ gets the lock.
LEMMA EnterReadKeepsInvariant ==
    ASSUME IInv, NEW th \in Threads, EnterRead(th)
    PROVE  IInv'
<1> USE DEF EnterRead, Lock!EnterRead
<1>1. OperationsTypeOK'
  BY DEF IInv, OperationsTypeOK
<1>2. Places'
  BY DEF IInv, OperationsTypeOK, Places
<1>3. Awaiting' <=> Awaiting
  BY DEF IInv, OperationsTypeOK, Awaiting, Threads
<1> QED BY <1>1, <1>2, <1>3, QuietStep DEF IInv

\* A WRITE or REPLACE gets the lock.
LEMMA EnterWriteKeepsInvariant ==
    ASSUME IInv, NEW th \in Threads, EnterWrite(th)
    PROVE  IInv'
<1> USE DEF EnterWrite, Lock!EnterWrite
<1>1. OperationsTypeOK'
  BY DEF IInv, OperationsTypeOK
<1>2. Places'
  BY DEF IInv, OperationsTypeOK, Places
<1>3. Awaiting' <=> Awaiting
  BY DEF IInv, OperationsTypeOK, Awaiting, Threads
<1> QED BY <1>1, <1>2, <1>3, QuietStep DEF IInv

\* What readline leaves in the buffer is a line, whatever is in the file.
LEMMA LineReadFacts ==
    ASSUME OperationsTypeOK, NEW k \in Nat
    PROVE  LineRead(k) \in Lines
<1>1. Line(k, Junk) \in Lines
  BY LineTypes
<1>2. file # <<>> => Len(file) \in 1 .. Len(file) /\ (k < Len(file) => k + 1 \in 1 .. Len(file))
  BY EmptySeq, LenProperties DEF OperationsTypeOK
<1>3. \A i \in 1 .. Len(file) : file[i] \in Lines
  BY ElementOfSeq DEF OperationsTypeOK
<1> QED BY <1>1, <1>2, <1>3 DEF LineRead

\* readMessageFromFile answers and gives the lock back.
LEMMA ReadKeepsInvariant ==
    ASSUME IInv, NEW th \in Threads, readMessageFromFile(th)
    PROVE  IInv'
<1> USE DEF readMessageFromFile, Lock!LeaveRead
<1>1. LineRead(request[th].num) \in Lines
  BY LineReadFacts, LineTypes DEF IInv, OperationsTypeOK
<1>2. /\ answer' \in [Threads -> Answers]
      /\ pc' = [pc EXCEPT ![th] = "idle"]
  BY <1>1, AnswerFacts DEF IInv
<1>3. OperationsTypeOK'
  BY <1>2 DEF IInv, OperationsTypeOK
<1>4. Places'
  BY <1>2 DEF IInv, OperationsTypeOK, Places
<1>5. Awaiting' <=> Awaiting
  BY <1>2 DEF IInv, OperationsTypeOK, Awaiting, Threads
<1> QED BY <1>3, <1>4, <1>5, QuietStep DEF IInv

\* A REPLACE runs into an assert.
LEMMA CrashKeepsInvariant ==
    ASSUME IInv, NEW th \in Threads, Crash(th)
    PROVE  IInv'
<1>1. OperationsTypeOK' /\ Places'
  BY DEF Crash, IInv, OperationsTypeOK, Places
<1> QED BY <1>1, QuietStep DEF Crash, Awaiting, IInv

\* A board thread performs its operation, which is final at once.
LEMMA PerformLocallyKeepsInvariant ==
    ASSUME IInv, NEW th \in Threads, PerformLocally(th)
    PROVE  IInv'
<1> USE DEF PerformLocally, Lock!LeaveWrite
<1>1. /\ OperationsTypeOK /\ th \in writers /\ pc[Sync] # "AWAITING"
      /\ ~unopened => message_number = Len(file) /\ Numbered(file)
  BY DEF IInv, Places, UndoFits, Threads
<1>2. Performed(th)
  BY <1>1, PerformFacts
<1>3. Line(Number(th), request[th].text) \in Lines
  BY <1>1, LineTypes DEF OperationsTypeOK, Number
<1>4. /\ answer' \in [Threads -> Answers]
      /\ pc' = [pc EXCEPT ![th] = "idle"]
  BY <1>1, <1>3, AnswerFacts
<1>5. OperationsTypeOK'
  BY <1>1, <1>2, <1>4 DEF OperationsTypeOK, Performed, Open
<1>6. Places'
  BY <1>1, <1>4 DEF IInv, OperationsTypeOK, Places
<1>7. ~Awaiting'
  BY <1>1, <1>4 DEF OperationsTypeOK, Awaiting, Threads
<1>8. Len(file') \in Nat /\ Len(board') = Len(file') /\ \A i : Agrees(i)'
  BY <1>5, LenProperties DEF OperationsTypeOK, Agrees
<1>9. UndoLeavesFinal'
  BY <1>7, <1>8 DEF UndoLeavesFinal, FinalStays
<1>10. ~unopened' => message_number' = Len(file') /\ Numbered(file')
  BY <1>2 DEF Performed, Open
<1>11. UndoFits'
  BY <1>7, <1>8, <1>10 DEF UndoFits, Numbered
<1> QED BY <1>5, <1>6, <1>9, <1>11 DEF IInv

\* The synchronization thread performs the operation of its master: what it
\* changes is what its closure takes back.
LEMMA PerformCommitKeepsInvariant ==
    ASSUME IInv, PerformCommit
    PROVE  IInv'
<1> USE DEF PerformCommit, PerformForMaster
<1>1. /\ OperationsTypeOK /\ Sync \in Threads /\ ~Awaiting
      /\ ~unopened => message_number = Len(file) /\ Numbered(file)
  BY DEF IInv, UndoFits, Threads, Awaiting
<1>2. Performed(Sync)
  BY <1>1, PerformFacts
<1>3. Line(Number(Sync), request[Sync].text) \in Lines
  BY <1>1, LineTypes DEF OperationsTypeOK, Number
<1>4. OperationsTypeOK'
  BY <1>1, <1>2, <1>3 DEF OperationsTypeOK, Performed, Open, Answers
<1>5. Places'
  BY <1>1 DEF IInv, OperationsTypeOK, Places
<1>6. Len(file) \in Nat /\ Len(board) \in Nat /\ Len(file') \in Nat /\ board' = board
  BY <1>1, <1>4, LenProperties DEF OperationsTypeOK
<1>7. UndoLeavesFinal'
  BY <1>2, <1>6 DEF IInv, UndoLeavesFinal, FinalStays, Performed
<1>8. UndoFits'
  <2> SUFFICES ASSUME ~unopened' PROVE UndoFits'
    BY DEF UndoFits
  <2>1. permitted /\ ~unopened
    BY DEF Open
  <2>2. /\ Len(file) = Len(board) /\ \A i \in 1 .. Len(board) : Agrees(i)
        /\ Numbered(board)
    BY <1>1, <2>1 DEF IInv, UndoFits
  <2>3. message_number' = Len(file') /\ Numbered(file')
    BY <1>2, <2>1 DEF Performed
  <2>4. CASE /\ undo'.kind = "truncate"
             /\ Len(file') = Len(file) + 1
             /\ \A i \in 1 .. Len(file) : file'[i] = file[i]
    <3>1. undo'.num = Len(board)
      BY <1>2, <2>2, <2>4 DEF Performed
    <3>2. \A i \in 1 .. Len(board) : Agrees(i)'
      BY <1>6, <2>2, <2>4 DEF Agrees
    <3> QED
      BY <1>1, <1>6, <2>2, <2>3, <2>4, <3>1, <3>2
         DEF UndoFits, Awaiting, Numbered, OperationsTypeOK
  <2>5. CASE /\ undo'.kind = "restore"
             /\ Len(file') = Len(file) /\ undo'.num < Len(file)
             /\ \A i \in 1 .. Len(file) : i # undo'.num + 1 => file'[i] = file[i]
             /\ Len(file[undo'.num + 1].text) = 2 => undo'.text = file[undo'.num + 1].text
    <3>1. \A i \in 1 .. Len(board) : i # undo'.num + 1 => Agrees(i)'
      BY <1>6, <2>2, <2>5 DEF Agrees
    <3>2. Len(board[undo'.num + 1].text) = 2 => undo'.text = board[undo'.num + 1].text
      <4>1. undo'.num + 1 \in 1 .. Len(board)
        BY <1>4, <1>6, <2>2, <2>5 DEF OperationsTypeOK, Closures
      <4> QED BY <2>2, <2>5, <4>1 DEF Agrees
    <3> QED
      BY <1>1, <1>6, <2>2, <2>3, <2>5, <3>1, <3>2
         DEF UndoFits, Awaiting, Numbered, OperationsTypeOK
  <2> QED BY <1>2, <2>1, <2>4, <2>5 DEF Performed
<1> QED BY <1>4, <1>5, <1>7, <1>8 DEF IInv

\* The operation of the master becomes final.
LEMMA KeepKeepsInvariant ==
    ASSUME IInv, Keep
    PROVE  IInv'
<1> USE DEF Keep, Lock!LeaveWrite
<1>1. OperationsTypeOK /\ Sync \in Threads /\ file' = file /\ board' = file
  BY DEF IInv, Threads
<1>2. OperationsTypeOK'
  BY <1>1 DEF OperationsTypeOK
<1>3. Places'
  BY <1>1 DEF IInv, OperationsTypeOK, Places
<1>4. ~Awaiting'
  BY <1>1 DEF OperationsTypeOK, Awaiting
<1>5. Len(file) \in Nat /\ \A i : Agrees(i)'
  BY <1>1, LenProperties DEF OperationsTypeOK, Agrees
<1>6. UndoLeavesFinal'
  BY <1>1, <1>4, <1>5 DEF UndoLeavesFinal, FinalStays
<1>7. UndoFits'
  BY <1>1, <1>4, <1>5 DEF IInv, UndoFits, Numbered
<1> QED BY <1>2, <1>3, <1>6, <1>7 DEF IInv

\* What an undo leaves of the file.
LEMMA UndoFacts ==
    ASSUME IInv, Awaiting, undoCommitOperation
    PROVE  /\ file' \in Seq(Lines) /\ message_number' \in Int
           /\ Len(file') >= Len(board)
           /\ permitted /\ ~unopened =>
                /\ message_number' = Len(file') /\ Len(file') = Len(board)
                /\ \A i \in 1 .. Len(board) : /\ Len(board[i].text) = 2 => file'[i] = board[i]
                                              /\ file'[i].number = i - 1
<1>1. /\ file \in Seq(Lines) /\ board \in Seq(Lines) /\ message_number \in Int
      /\ undo.num \in Nat /\ undo.text \in Seq(Parts) /\ permitted \in BOOLEAN
  BY DEF IInv, OperationsTypeOK, Closures
<1>2. Len(file) \in Nat /\ Len(board) \in Nat /\ Len(file) >= Len(board)
  BY <1>1, LenProperties DEF IInv, UndoLeavesFinal, FinalStays
<1>3. CASE undo.kind = "truncate" /\ permitted
  <2>1. file' = SubSeq(file, 1, undo.num) /\ message_number' = message_number - 1
    BY <1>3 DEF undoCommitOperation
  <2>2. undo.num \in 0 .. Len(file) /\ undo.num >= Len(board)
    BY <1>1, <1>2, <1>3 DEF IInv, UndoLeavesFinal
  <2>3. /\ file' \in Seq(Lines) /\ Len(file') = undo.num
        /\ \A i \in 1 .. undo.num : file'[i] = file[i]
    BY <1>1, <2>1, <2>2, CutLines
  <2>4. ~unopened => /\ Len(file) = Len(board) + 1 /\ undo.num = Len(board)
                     /\ message_number = Len(file) /\ Numbered(file)
                     /\ \A i \in 1 .. Len(board) : Agrees(i)
    BY <1>3 DEF IInv, UndoFits
  <2>5. ASSUME ~unopened
        PROVE  \A i \in 1 .. Len(board) : /\ Len(board[i].text) = 2 => file'[i] = board[i]
                                          /\ file'[i].number = i - 1
    BY <1>2, <2>3, <2>4, <2>5 DEF Agrees, Numbered
  <2>6. message_number' \in Int /\ (~unopened => message_number' = Len(board))
    BY <1>1, <1>2, <2>1, <2>4
  <2>7. ~unopened => Len(file') = Len(board)
    BY <2>3, <2>4
  <2> QED BY <2>2, <2>3, <2>5, <2>6, <2>7
<1>4. CASE undo.kind \in {"truncate", "fail"} /\ (undo.kind = "truncate" => ~permitted)
  <2>1. file' = file /\ message_number' = message_number - 1
    BY <1>4 DEF undoCommitOperation
  <2>2. permitted => undo.kind = "fail"
    BY <1>4
  <2>3. undo.kind = "fail" => unopened
    BY DEF IInv, UndoFits
  <2> QED BY <1>1, <1>2, <2>1, <2>2, <2>3
<1>5. CASE undo.kind = "restore" /\ permitted
  <2> DEFINE x == Line(undo.num, undo.text)
  <2>1. /\ file' = [file EXCEPT ![undo.num + 1] = x]
        /\ undo.num < Len(file) /\ message_number' = message_number
    BY <1>5 DEF undoCommitOperation, Replaced
  <2>2. x \in Lines /\ x.number = undo.num /\ x.text = undo.text
    BY <1>1, LineTypes DEF Line
  <2>3. \A y \in Lines : y.number = undo.num /\ y.text = undo.text => y = x
    BY <2>2 DEF Lines
  <2> HIDE DEF x
  <2>4. /\ file' \in Seq(Lines) /\ Len(file') = Len(file)
        /\ \A i \in 1 .. Len(file) : i # undo.num + 1 => file'[i] = file[i]
        /\ file'[undo.num + 1] = x
    BY <1>1, <2>1, <2>2, ExchangeLine
  <2>5. ASSUME ~unopened
        PROVE  /\ message_number' = Len(file') /\ Len(file') = Len(board)
               /\ \A i \in 1 .. Len(board) : /\ Len(board[i].text) = 2 => file'[i] = board[i]
                                             /\ file'[i].number = i - 1
    <3>1. /\ message_number = Len(file) /\ Numbered(file) /\ Numbered(board)
          /\ Len(file) = Len(board) /\ undo.num < Len(board)
          /\ \A i \in 1 .. Len(board) : i # undo.num + 1 => Agrees(i)
          /\ Len(board[undo.num + 1].text) = 2 => undo.text = board[undo.num + 1].text
      BY <1>5, <2>5 DEF IInv, UndoFits
    <3>2. ASSUME NEW i \in 1 .. Len(board), i # undo.num + 1
          PROVE  /\ Len(board[i].text) = 2 => file'[i] = board[i]
                 /\ file'[i].number = i - 1
      BY <1>2, <2>4, <3>1, <3>2 DEF Agrees, Numbered
    <3>3. undo.num + 1 \in 1 .. Len(board) /\ undo.num + 1 - 1 = undo.num
      BY <1>1, <1>2, <3>1
    <3>4. board[undo.num + 1] \in Lines /\ board[undo.num + 1].number = undo.num
      BY <1>1, <3>1, <3>3, ElementOfSeq DEF Numbered
    <3>5. Len(board[undo.num + 1].text) = 2 => file'[undo.num + 1] = board[undo.num + 1]
      BY <2>3, <2>4, <3>1, <3>4
    <3>6. file'[undo.num + 1].number = undo.num + 1 - 1
      BY <2>2, <2>4, <3>3
    <3>7. message_number' = Len(file') /\ Len(file') = Len(board)
      BY <2>1, <2>4, <3>1
    <3>8. ASSUME NEW i \in 1 .. Len(board)
          PROVE  /\ Len(board[i].text) = 2 => file'[i] = board[i]
                 /\ file'[i].number = i - 1
      <4>1. CASE i = undo.num + 1
        <5>1. i - 1 = undo.num + 1 - 1
          BY <1>1, <4>1
        <5> QED BY <3>5, <3>6, <4>1, <5>1, Zenon
      <4>2. CASE i # undo.num + 1
        BY <3>2, <4>2
      <4> QED BY <4>1, <4>2
    <3> QED BY <3>7, <3>8
  <2> QED BY <1>1, <1>2, <1>5, <2>1, <2>4, <2>5
<1>6. CASE undo.kind = "restore" /\ ~permitted
  <2>1. file' = file /\ message_number' = message_number
    BY <1>6 DEF undoCommitOperation, Replaced
  <2> QED BY <1>1, <1>2, <1>6, <2>1
<1> QED BY <1>1, <1>3, <1>4, <1>5, <1>6 DEF undoCommitOperation

\* The operation of the master is taken back.
LEMMA UndoKeepsInvariant ==
    ASSUME IInv, Undo
    PROVE  IInv'
<1> USE DEF Undo, Lock!LeaveWrite
<1>1. OperationsTypeOK /\ Sync \in Threads /\ Awaiting /\ board' = board
  BY DEF IInv, Threads, Awaiting
<1>2. /\ file' \in Seq(Lines) /\ message_number' \in Int
      /\ Len(file') >= Len(board)
      /\ permitted /\ ~unopened =>
           /\ message_number' = Len(file') /\ Len(file') = Len(board)
           /\ \A i \in 1 .. Len(board) : /\ Len(board[i].text) = 2 => file'[i] = board[i]
                                         /\ file'[i].number = i - 1
  BY <1>1, UndoFacts
<1>3. OperationsTypeOK'
  BY <1>1, <1>2 DEF OperationsTypeOK, Open
<1>4. Places'
  BY <1>1 DEF IInv, OperationsTypeOK, Places
<1>5. ~Awaiting'
  BY <1>1 DEF OperationsTypeOK, Awaiting
<1>6. UndoLeavesFinal'
  BY <1>1, <1>2, <1>5 DEF UndoLeavesFinal, FinalStays
<1>7. UndoFits'
  <2> SUFFICES ASSUME ~unopened' PROVE UndoFits'
    BY DEF UndoFits
  <2>1. permitted /\ ~unopened
    BY DEF Open
  <2>2. Numbered(board)' /\ Numbered(file)'
    BY <1>1, <1>2, <2>1 DEF IInv, UndoFits, Numbered
  <2> QED BY <1>1, <1>2, <1>5, <2>1, <2>2 DEF UndoFits, Agrees
<1> QED BY <1>3, <1>4, <1>6, <1>7 DEF IInv

-----------------------------------------------------------------------------
(* The theorems.                                                           *)

\* A step that changes nothing.
LEMMA StutterKeepsInvariant ==
    ASSUME IInv, UNCHANGED vars
    PROVE  IInv'
<1>1. OperationsTypeOK' /\ Places'
  BY DEF vars, IInv, OperationsTypeOK, Places
<1> QED BY <1>1, QuietStep DEF vars, Awaiting, IInv

\* The invariant holds in every reachable state, whatever the permissions do.
THEOREM OperationsInvariant == Spec => []IInv
<1>1. Init => IInv
  <2> SUFFICES ASSUME Init PROVE IInv
    OBVIOUS
  <2> USE DEF Init, Lock!Init
  <2>1. <<>> \in Seq(Lines) /\ Len(<<>>) = 0
    BY EmptySeq
  <2>2. Nothing \in Requests
    BY OperationsAssumption DEF Nothing, Requests
  <2>3. Line(0, <<>>) \in Lines /\ <<>> \in Seq(Parts)
    BY LineTypes
  <2>4. OperationsTypeOK
    <3>1. file \in Seq(Lines) /\ board \in Seq(Lines)
      BY <2>1, Zenon
    <3>2. permitted \in BOOLEAN /\ unopened \in BOOLEAN
      BY Zenon
    <3>3. message_number \in Int /\ readers \in SUBSET Threads /\ writers \in SUBSET Threads
      OBVIOUS
    <3>4. pc \in [Threads -> {"idle", "valid", "waiting", "reading", "writing", "AWAITING"}]
      OBVIOUS
    <3>5. request \in [Threads -> Requests]
      BY <2>2
    <3>6. undo \in Closures
      BY <2>3 DEF Closures
    <3>7. answer \in [Threads -> Answers]
      BY <2>3 DEF Answers
    <3> QED BY <3>1, <3>2, <3>3, <3>4, <3>5, <3>6, <3>7 DEF OperationsTypeOK
  <2>5. Places /\ UndoLeavesFinal
    BY <2>1 DEF Places, UndoLeavesFinal, FinalStays, Awaiting, Threads
  <2>6. UndoFits
    BY <2>1 DEF UndoFits, Awaiting, Numbered, Threads
  <2> QED BY <2>4, <2>5, <2>6 DEF IInv
<1>2. IInv /\ [Next]_vars => IInv'
  BY ChangeModeKeepsInvariant, StartKeepsInvariant, AccessKeepsInvariant, EnterReadKeepsInvariant,
     ReadKeepsInvariant, EnterWriteKeepsInvariant, PerformLocallyKeepsInvariant,
     CrashKeepsInvariant, PerformCommitKeepsInvariant, KeepKeepsInvariant, UndoKeepsInvariant,
     StutterKeepsInvariant DEF Next
<1> QED BY <1>1, <1>2, PTL DEF Spec

\* Who reads sees the final operations and nothing else.
THEOREM ReadsAreFinal == Spec => []ReadsFinal
<1>1. IInv => ReadsFinal
  <2> SUFFICES ASSUME IInv, NEW th \in Boards, pc[th] = "reading", ~unopened
               PROVE  /\ Len(file) = Len(board)
                      /\ \A i \in DOMAIN board : Len(board[i].text) = 2 => file[i] = board[i]
    BY DEF ReadsFinal
  <2>1. ~Awaiting
    BY DEF IInv, Places, Awaiting, Threads
  <2>2. DOMAIN board = 1 .. Len(board)
    BY LenProperties DEF IInv, OperationsTypeOK
  <2> QED BY <2>1, <2>2 DEF IInv, UndoFits, Agrees
<1> QED BY <1>1, OperationsInvariant, PTL

\* No undo, and no loss of the permissions, makes the file shorter than the final
\* operations made it.
THEOREM FinalLinesStay == Spec => []FinalStays
<1>1. IInv => FinalStays
  BY DEF IInv, UndoLeavesFinal
<1> QED BY <1>1, OperationsInvariant, PTL

\* What is answered WROTE is in the file, under the number answered.
THEOREM AnsweredIsWritten == Spec => WroteIsWritten
<1>1. ASSUME IInv, [Next]_vars, NEW th \in Threads, answer'[th] # answer[th],
             answer'[th].code = "WROTE", permitted
      PROVE  answer'[th].line \in {file'[i] : i \in DOMAIN file'}
  <2> DEFINE written == Line(Number(th), request[th].text)
  <2>1. OperationsTypeOK /\ (~unopened => message_number = Len(file) /\ Numbered(file))
    BY <1>1 DEF IInv, UndoFits
  <2>2. ASSUME Perform(th), file' \in Seq(Lines), answer'[th].line = written
        PROVE  answer'[th].line \in {file'[i] : i \in DOMAIN file'}
    <3>1. \E i \in 1 .. Len(file') : file'[i] = written
      BY <1>1, <2>1, <2>2, PerformFacts DEF Performed
    <3>2. DOMAIN file' = 1 .. Len(file')
      BY <2>2, LenProperties
    <3> HIDE DEF written
    <3> QED BY <2>2, <3>1, <3>2
  <2>3. IInv'
    BY <1>1, ChangeModeKeepsInvariant, StartKeepsInvariant, AccessKeepsInvariant,
       EnterReadKeepsInvariant, ReadKeepsInvariant, EnterWriteKeepsInvariant,
       PerformLocallyKeepsInvariant, CrashKeepsInvariant, PerformCommitKeepsInvariant,
       KeepKeepsInvariant, UndoKeepsInvariant, StutterKeepsInvariant DEF Next
  <2>4. file' \in Seq(Lines) /\ answer \in [Threads -> Answers]
    BY <2>1, <2>3 DEF IInv, OperationsTypeOK
  <2>5. ASSUME NEW b \in Threads, PerformLocally(b)
        PROVE  b = th /\ Perform(th) /\ answer'[th].line = written
    BY <1>1, <2>4, <2>5 DEF PerformLocally, Answer
  <2>6. ASSUME PerformCommit
        PROVE  th = Sync /\ Perform(th) /\ answer'[th].line = written
    BY <1>1, <2>4, <2>6 DEF PerformCommit, PerformForMaster
  <2>7. ASSUME NEW b \in Threads,
               (\E r \in Requests : Start(b, r)) \/ Access(b) \/ readMessageFromFile(b)
        PROVE  FALSE
    <3>1. \E code \in {"UNKNOWN", "ERROR", "MESSAGE"} : \E line : Answer(b, code, line)
      BY <1>1, <2>7 DEF Start, Access, readMessageFromFile
    <3>2. /\ answer'[b].code \in {"UNKNOWN", "ERROR", "MESSAGE"}
          /\ b # th => answer'[th] = answer[th]
      BY <2>4, <3>1 DEF Answer
    <3> QED BY <1>1, <3>2
  <2>8. ASSUME NEW b \in Threads,
               \/ ChangeMode \/ EnterRead(b) \/ EnterWrite(b) \/ Crash(b) \/ Keep \/ Undo
               \/ UNCHANGED vars
        PROVE  FALSE
    BY <1>1, <2>8 DEF ChangeMode, EnterRead, EnterWrite, Crash, Keep, Undo, vars
  <2> QED BY <1>1, <2>2, <2>4, <2>5, <2>6, <2>7, <2>8 DEF Next
<1>2. IInv /\ [Next]_vars =>
        [\A th \in Threads :
            (answer'[th] # answer[th] /\ answer'[th].code = "WROTE" /\ permitted)
               => answer'[th].line \in {file'[i] : i \in DOMAIN file'}]_vars
  BY <1>1
<1> QED BY <1>2, OperationsInvariant, PTL DEF Spec, WroteIsWritten

\* READ answers a final message with that message, whatever was undone while it
\* waited for the lock.
THEOREM ReadAnswersAreFinal == Spec => ReadAnswersFinal
<1>1. ASSUME IInv, [Next]_vars, NEW th \in Boards, pc[th] = "reading", pc'[th] = "idle",
             permitted, ~unopened, request[th].num < Len(board)
      PROVE  /\ answer'[th].line.number = request[th].num
             /\ Len(board[request[th].num + 1].text) = 2 =>
                  answer'[th].line = board[request[th].num + 1]
  <2> DEFINE k == request[th].num
  <2>1. th \in Threads /\ k \in Nat /\ k < Len(board) /\ OperationsTypeOK /\ th # Sync
    BY <1>1, LineTypes, OperationsAssumption DEF IInv, OperationsTypeOK, Threads
  <2>2. /\ Len(file) = Len(board) /\ Len(board) \in Nat
        /\ Numbered(file) /\ \A i \in 1 .. Len(board) : Agrees(i)
    <3>1. ~Awaiting
      BY <1>1, <2>1 DEF IInv, Places, Awaiting, Threads
    <3> QED BY <1>1, <2>1, <3>1, LenProperties DEF IInv, UndoFits, OperationsTypeOK
  <2> HIDE DEF k
  <2>3. k + 1 \in 1 .. Len(board) /\ k + 1 - 1 = k /\ k < Len(file)
    BY <2>1, <2>2
  <2>4. file[k + 1].number = k /\ (Len(board[k + 1].text) = 2 => file[k + 1] = board[k + 1])
    BY <2>1, <2>2, <2>3 DEF Numbered, Agrees
  <2>5. file # <<>>
    BY <2>1, <2>2, <2>3, EmptySeq
  <2>6. readMessageFromFile(th)
    <3> USE <1>1, <2>1 DEF OperationsTypeOK
    <3>1. ASSUME NEW b \in Threads, readMessageFromFile(b)
          PROVE  b = th
      BY <3>1 DEF readMessageFromFile, Answer
    <3>2. ASSUME NEW b \in Threads,
                 \/ \E r \in Requests : Start(b, r)
                 \/ Access(b) \/ EnterRead(b) \/ EnterWrite(b) \/ PerformLocally(b) \/ Crash(b)
          PROVE  FALSE
      BY <3>2 DEF Start, Access, EnterRead, EnterWrite, PerformLocally, Crash, Answer
    <3>3. ASSUME ChangeMode \/ PerformCommit \/ Keep \/ Undo \/ UNCHANGED vars
          PROVE  FALSE
      BY <3>3 DEF ChangeMode, PerformCommit, PerformForMaster, Keep, Undo, vars
    <3> QED BY <3>1, <3>2, <3>3 DEF Next
  <2>7. answer'[th].line = LineRead(k)
    BY <2>1, <2>6 DEF readMessageFromFile, Answer, OperationsTypeOK, k
  <2>8. LineRead(k) = file[k + 1]
    BY <1>1, <2>3, <2>5 DEF LineRead
  <2> QED BY <2>4, <2>7, <2>8 DEF k
<1>2. IInv /\ [Next]_vars =>
        [\A th \in Boards :
            LET k == request[th].num IN
               pc[th] = "reading" /\ pc'[th] = "idle" /\ permitted /\ ~unopened /\ k < Len(board)
                  => /\ answer'[th].line.number = k
                     /\ Len(board[k + 1].text) = 2 => answer'[th].line = board[k + 1]]_vars
  BY <1>1
<1> QED BY <1>2, OperationsInvariant, PTL DEF Spec, ReadAnswersFinal
=============================================================================
