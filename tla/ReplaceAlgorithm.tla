-------------------------- MODULE ReplaceAlgorithm --------------------------
(***************************************************************************)
(* optimalReplaceAlgorithm and obtainLengthOfLineToBeReplaced, byte for    *)
(* byte: line number of the board file is overwritten in place, and what   *)
(* follows it is moved by the difference of the lengths, one byte at a     *)
(* time, backwards or forwards.  The other modules take the whole as one   *)
(* step, under the write lock.                                             *)
(*                                                                         *)
(* The file is the function bytes on the offsets 0 .. size - 1.  What is   *)
(* written beyond its end leaves a hole of zero bytes.  It may have lines  *)
(* that are longer than the buffer of readline, which a REPLACE stores and *)
(* which come about when a line is appended to one without a newline, and  *)
(* it need not end with a newline.  getMessageNumberInfo has just read the *)
(* message, with the same calls of readline, and every open succeeds.      *)
(***************************************************************************)
EXTENDS Integers, FiniteSets

CONSTANTS
    Bytes,      \* the bytes of the lines
    Newline,
    Zero,       \* the byte of a hole
    Sizes,      \* the sizes of the board files considered
    Lengths,    \* the lengths of the new lines considered
    LineMax     \* the longest line readline returns, ALEN - 1

ASSUME BytesAssumption ==
    /\ Newline \in Bytes
    /\ Zero \notin Bytes
    /\ Sizes \subseteq Nat
    /\ Lengths \subseteq Nat \ {0}
    /\ LineMax \in Nat \ {0}

VARIABLES
    original, originalSize,       \* the file before
    number,                       \* messageNumberToReplace
    line, K,                      \* lineToStore and its strlen
    bytes, size,                  \* the file
    pc,
    l, position,                  \* the scan: lines read, offset of fileDescriptor
    before,                       \* totalBytesBeforeLineToReplace
    length,                       \* lengthOfLineToBeReplaced
    reader, writer,               \* the offsets of fd1 and fd2
    fileSizeAfterReplacement

input == <<original, originalSize, number, line, K>>
scan == <<l, position, before, length>>
shift == <<reader, writer, fileSizeAfterReplacement>>
vars == <<input, bytes, size, pc, scan, shift>>

-----------------------------------------------------------------------------
(* The file and its lines.                                                 *)

\* The line that begins at p ends before e, where the next begins.
IsLine(p, e) ==
    /\ p < e
    /\ p > 0 => original[p - 1] = Newline
    /\ e < originalSize => original[e - 1] = Newline
    /\ \A i \in p .. e - 2 : original[i] # Newline

NewlinesBefore(p) == {i \in 0 .. p - 1 : original[i] = Newline}

\* The line to replace is from p to e - 1.
Named(p, e) == IsLine(p, e) /\ Cardinality(NewlinesBefore(p)) = number

Terminated == originalSize > 0 => original[originalSize - 1] = Newline

\* readline, called at offset p, stops before q: at the end of the line, of the
\* file or of the buffer.
StopsAt(p, q) ==
    /\ q \in p .. size /\ q - p <= LineMax
    /\ \A i \in p .. q - 1 : bytes[i] # Newline
    /\ q < size /\ q - p < LineMax => bytes[q] = Newline

\* The newline is read with the line, if there is one and the buffer has room.
AfterStop(p, q) == IF q < size /\ q - p < LineMax THEN q + 1 ELSE q

\* How often readline returns something, from offset p on.
Pieces ==
    LET n[p \in 0 .. size] ==
            IF p = size THEN 0
            ELSE 1 + n[AfterStop(p, CHOOSE q \in 0 .. size : StopsAt(p, q))]
    IN  n[0]

Init ==
    /\ originalSize \in Sizes
    /\ original \in [0 .. originalSize - 1 -> Bytes]
    /\ bytes = original /\ size = originalSize
    /\ number \in 0 .. originalSize /\ number < Pieces
    /\ K \in Lengths
    /\ line \in [0 .. K - 1 -> Bytes]
    /\ \A i \in 0 .. K - 1 : line[i] = Newline <=> i = K - 1
    /\ pc = "scan"
    /\ l = 0 /\ position = 0 /\ before = 0 /\ length = 0
    /\ reader = 0 /\ writer = 0 /\ fileSizeAfterReplacement = 0

-----------------------------------------------------------------------------
(* obtainLengthOfLineToBeReplaced.                                         *)

BugNewlineNotCounted(q) ==
    /\ pc = "scan" /\ l < number /\ position < size
    /\ StopsAt(position, q)
    /\ before' = before + (q - position)
    /\ position' = AfterStop(position, q)
    /\ l' = l + 1
    /\ UNCHANGED <<input, bytes, size, pc, length, shift>>

SkipLine(q) ==
    /\ pc = "scan" /\ l < number /\ position < size
    /\ StopsAt(position, q)
    /\ before' = before + (q - position) + 1
    /\ position' = AfterStop(position, q)
    /\ l' = l + 1
    /\ UNCHANGED <<input, bytes, size, pc, length, shift>>

FindLine(q) ==
    /\ pc = "scan" /\ l = number /\ position < size
    /\ StopsAt(position, q)
    /\ length' = (q - position) + 1
    /\ pc' = "found"
    /\ UNCHANGED <<input, bytes, size, l, position, before, shift>>

-----------------------------------------------------------------------------
(* optimalReplaceAlgorithm.                                                *)

\* write(fd, data, n) at offset p.
WriteAt(p, data, n) ==
    /\ size' = IF p + n > size THEN p + n ELSE size
    /\ bytes' = [i \in 0 .. size' - 1 |->
                   IF i \in p .. p + n - 1 THEN data[i - p]
                   ELSE IF i < size THEN bytes[i] ELSE Zero]

\* One turn of either loop: read one byte, write it; at the end of the file
\* nothing is read, and the cleared buffer is written.
MoveByte ==
    WriteAt(writer, [i \in {0} |-> IF reader < size THEN bytes[reader] ELSE Zero], 1)

\* Case 1.
Overwrite ==
    /\ pc = "found" /\ K = length
    /\ WriteAt(before, line, K)
    /\ pc' = "done"
    /\ UNCHANGED <<input, scan, shift>>

\* Case 2, up to the loop.
StartBackward ==
    /\ pc = "found" /\ K < length
    /\ WriteAt(before, line, K)
    /\ reader' = before + length
    /\ writer' = before + K
    /\ fileSizeAfterReplacement' = size' + (K - length)
    /\ pc' = "backward"
    /\ UNCHANGED <<input, scan>>

Backward ==
    /\ pc = "backward" /\ writer < fileSizeAfterReplacement
    /\ MoveByte
    /\ reader' = IF reader < size THEN reader + 1 ELSE reader
    /\ writer' = writer + 1
    /\ UNCHANGED <<input, pc, scan, fileSizeAfterReplacement>>

Truncate ==
    /\ pc = "backward" /\ writer >= fileSizeAfterReplacement
    /\ size' = fileSizeAfterReplacement
    /\ bytes' = [i \in 0 .. size' - 1 |-> bytes[i]]
    /\ pc' = "done"
    /\ UNCHANGED <<input, scan, shift>>

BugLineFirst ==
    /\ pc = "found" /\ K > length
    /\ WriteAt(before, line, K)
    /\ reader' = size - 1
    /\ writer' = size + (K - length) - 1
    /\ pc' = "forward"
    /\ UNCHANGED <<input, scan, fileSizeAfterReplacement>>

\* Case 3, up to the loop, which begins at the last byte.
StartForward ==
    /\ pc = "found" /\ K > length
    /\ reader' = size - 1
    /\ writer' = size + (K - length) - 1
    /\ pc' = "forward"
    /\ UNCHANGED <<input, bytes, size, scan, fileSizeAfterReplacement>>

BugSeekOneBack ==
    /\ pc = "forward" /\ reader >= before + length
    /\ MoveByte
    /\ UNCHANGED <<input, pc, scan, shift>>

\* lseek by -2 after one byte read and one written: one step back.
Forward ==
    /\ pc = "forward" /\ reader >= before + length
    /\ MoveByte
    /\ reader' = reader - 1
    /\ writer' = writer - 1
    /\ UNCHANGED <<input, pc, scan, fileSizeAfterReplacement>>

PutLine ==
    /\ pc = "forward" /\ reader < before + length
    /\ WriteAt(before, line, K)
    /\ pc' = "done"
    /\ UNCHANGED <<input, scan, shift>>

\* The function has returned: the only place to stop.
Return == pc = "done" /\ UNCHANGED vars

-----------------------------------------------------------------------------

Next ==
    \/ \E q \in 0 .. size : SkipLine(q) \/ FindLine(q)
    \/ Overwrite
    \/ StartBackward \/ Backward \/ Truncate
    \/ StartForward \/ Forward \/ PutLine
    \/ Return

Spec == Init /\ [][Next]_vars

-----------------------------------------------------------------------------
(* Properties.                                                             *)

\* The file is the original with the new line in the place of p .. e - 1.
ReplacedAt(p, e) ==
    /\ size = originalSize + K - (e - p)
    /\ bytes = [i \in 0 .. size - 1 |->
                  IF i < p THEN original[i]
                  ELSE IF i < p + K THEN line[i - p]
                  ELSE original[i - K + (e - p)]]

\* No line up to the one to replace is longer than the buffer: readline returns it
\* in one piece.
ShortLines ==
    \A p, e \in 0 .. originalSize :
        IsLine(p, e) /\ Cardinality(NewlinesBefore(p)) <= number => e - p <= LineMax

\* The file has the line, and the scan can find it.
Findable == (\E p, e \in 0 .. originalSize : Named(p, e)) /\ ShortLines

\* The line to replace is the last one, and has no newline.
CutLine == ~Terminated /\ number = Cardinality(NewlinesBefore(originalSize))

\* At the end exactly the line with the given number is replaced, and every
\* other byte of the file is kept, whatever the lengths of the new line and of the
\* lines that follow.  Excepted are files with a longer line than readline returns
\* at or before the one to replace (it is counted as several, with a newline each,
\* and the wrong bytes are replaced), and a line without a newline when a shorter
\* one takes its place: the newline it does not have is counted, and the file is
\* truncated one byte early.  Code: the scan, the three cases, the offsets of both
\* loops.
LineReplaced ==
    pc = "done" /\ Findable /\ ~(CutLine /\ K < length) =>
        \E p, e \in 0 .. originalSize : Named(p, e) /\ ReplacedAt(p, e)

\* Byte i of the original is at offset x.
IsAt(i, x) == x \in 0 .. size - 1 /\ bytes[x] = original[i]

\* At every moment, and so wherever a kill stops the rewriting: the bytes before the
\* line are as they were; in place of the line there is the old one or the new one,
\* whole; and nothing that follows it is lost, since up to some byte m it is in its
\* old place and from there on in the new one, or the other way round.  The files
\* CutShort of module BulletinBoard leaves are these, taken by lines.  (Excepted as
\* above is the newline of the new line.)  Code: the order of the writes, truncation
\* last in case 2, the line last in case 3, and the directions of the loops.
NothingLost ==
    Findable =>
        \E p, e \in 0 .. originalSize :
            /\ Named(p, e)
            /\ \A i \in 0 .. p - 1 : IsAt(i, i)
            /\ \/ \A i \in p .. e - 1 : IsAt(i, i)
               \/ \A i \in 0 .. K - 1 : p + i < size /\ bytes[p + i] = line[i]
               \/ CutLine /\ K < length
            /\ \E m \in e .. originalSize : \A i \in e .. originalSize - 1 :
                 IsAt(i, IF i < m <=> K < e - p THEN i + K - (e - p) ELSE i)

\* A bound on the steps left: lines to skip, then bytes to move.
OrZero(i) == IF i < 0 THEN 0 ELSE i

StepsLeft ==
    CASE pc = "scan" -> number - l + originalSize + 2
      [] pc = "found" -> originalSize + 1
      [] pc = "backward" -> OrZero(fileSizeAfterReplacement - writer) + 1
      [] pc = "forward" -> OrZero(reader - (before + length) + 1) + 1
      [] pc = "done" -> 0

\* Every step brings the end nearer, whatever the file: a loop moves no more bytes
\* than the file has, although the file it reads grows under it.  As there is no
\* deadlock before Return, all loops end.  Code: the scan loop, and the lseek calls
\* that move fd1 and fd2 in the loops of cases 2 and 3.
StepsBounded == [][StepsLeft' < StepsLeft /\ StepsLeft' >= 0]_vars
=============================================================================
