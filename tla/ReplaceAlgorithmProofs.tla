------------------------ MODULE ReplaceAlgorithmProofs ------------------------
(***************************************************************************)
(* The proof that optimalReplaceAlgorithm replaces exactly the line it was *)
(* given and loses nothing on the way, for files, lines and numbers of any *)
(* size where the scan can find the line, and that it ends on any file.    *)
(*                                                                         *)
(* The scan keeps its offset at the beginning of a line and counts the     *)
(* newlines before it.  In both loops the file consists of a part that is  *)
(* as it should be at the end, a part that is still as it was, and between *)
(* the two offsets the bytes that do not matter any more.                  *)
(***************************************************************************)
EXTENDS ReplaceAlgorithm, FiniteSetTheorems, WellFoundedInduction, TLAPS

-----------------------------------------------------------------------------
(* The inductive invariant.                                                *)

\* What the algorithm is given: line number exists, and the scan can find it.
InputOK ==
    /\ originalSize \in Nat
    /\ original \in [0 .. originalSize - 1 -> Bytes]
    /\ Findable
    /\ number \in Nat
    /\ K \in Nat \ {0}
    /\ line \in [0 .. K - 1 -> Bytes]

Unchanged == bytes = original /\ size = originalSize

\* A line begins at p, the one with the number n.
LineBegins(p, n) ==
    /\ p \in 0 .. originalSize
    /\ p > 0 => original[p - 1] = Newline
    /\ Cardinality(NewlinesBefore(p)) = n

Scanning ==
    pc = "scan" =>
        /\ Unchanged
        /\ l \in 0 .. number
        /\ before = position
        /\ LineBegins(before, l)

\* length counts the newline, also when a cut line does not have it.
EndOfLine == IF before + length <= originalSize THEN before + length ELSE originalSize

Found ==
    pc # "scan" =>
        /\ LineBegins(before, number)
        /\ length \in Nat \ {0}
        /\ IsLine(before, EndOfLine)
        /\ before + length <= originalSize + 1
        /\ before + length > originalSize => CutLine

\* Up to the offset of fd2 the file is as it should be, from the offset of fd1 on
\* as it was.
MovingBackward ==
    pc = "backward" =>
        /\ K < length
        /\ size = originalSize
        /\ fileSizeAfterReplacement = originalSize + K - length
        /\ writer \in before + K .. originalSize
        /\ IF before + length > originalSize THEN writer = before + K
           ELSE writer <= fileSizeAfterReplacement
        /\ reader = writer + length - K
        /\ bytes \in [0 .. size - 1 -> Bytes]
        /\ \A i \in 0 .. writer - 1 :
              bytes[i] = IF i < before THEN original[i]
                         ELSE IF i < before + K THEN line[i - before]
                         ELSE original[i - K + length]
        /\ \A i \in reader .. size - 1 : bytes[i] = original[i]

\* Up to the offset of fd1 the file is as it was, beyond that of fd2 as it should
\* be.  The first byte that is moved makes the file as long as it will be.
MovingForward ==
    pc = "forward" =>
        /\ K > length
        /\ reader \in Int /\ reader < originalSize /\ reader >= before
        /\ reader >= before + length - 1 \/ reader = originalSize - 1
        /\ writer = reader + K - length
        /\ size = IF reader = originalSize - 1 THEN originalSize ELSE originalSize + K - length
        /\ DOMAIN bytes = 0 .. size - 1
        /\ \A i \in 0 .. reader : bytes[i] = original[i]
        /\ \A i \in writer + 1 .. size - 1 : bytes[i] = original[i - K + length]

\* The file with the line from before to EndOfLine replaced.
SizeAfter == originalSize + K - (EndOfLine - before)

FileAfter ==
    [i \in 0 .. SizeAfter - 1 |->
        IF i < before THEN original[i]
        ELSE IF i < before + K THEN line[i - before]
        ELSE original[i - K + (EndOfLine - before)]]

\* At the end this is the file, or the newline of the last line has been cut off.
Finished ==
    pc = "done" =>
        \/ size = SizeAfter /\ bytes = FileAfter
        \/ /\ CutLine /\ K < length /\ before + length > originalSize
           /\ \A i \in 0 .. before - 1 : IsAt(i, i)

IInv ==
    /\ pc \in {"scan", "found", "backward", "forward", "done"}
    /\ InputOK /\ Scanning /\ Found
    /\ pc = "found" => Unchanged
    /\ MovingBackward /\ MovingForward /\ Finished

-----------------------------------------------------------------------------
(* Lines and their numbers.                                                *)

\* A set of numbers that is not empty has a least one.
LEMMA LeastNumber ==
    ASSUME NEW S \in SUBSET Nat, S # {}
    PROVE  \E n \in S : \A m \in S : n <= m
<1> DEFINE R == OpToRel(<, Nat)
<1>1. PICK n \in S : \A m \in S : ~(<<m, n>> \in R)
  <2>1. IsWellFoundedOn(R, Nat)
    BY NatLessThanWellFounded
  <2> HIDE DEF R
  <2> QED BY <2>1, WFMin, Zenon
<1>2. \A m \in S : m < n => <<m, n>> \in R
  BY DEF OpToRel
<1> HIDE DEF R
<1>3. \A m \in S : ~(m < n)
  BY <1>1, <1>2
<1> QED BY <1>3

\* readline, called at the beginning of a line, returns the whole line: the
\* buffer is never too short for it.
LEMMA WholeLine ==
    ASSUME InputOK, Unchanged, NEW p \in 0 .. originalSize - 1, NEW q \in Nat,
           p > 0 => original[p - 1] = Newline, Cardinality(NewlinesBefore(p)) <= number,
           StopsAt(p, q)
    PROVE  /\ q \in p .. originalSize /\ (q < originalSize => q - p < LineMax)
           /\ \A i \in p .. q - 1 : original[i] # Newline
           /\ q < originalSize => original[q] = Newline /\ IsLine(p, q + 1)
           /\ q = originalSize => IsLine(p, q) /\ ~Terminated
<1> USE BytesAssumption DEF InputOK, Unchanged, StopsAt
<1>0. \A e \in 0 .. originalSize : IsLine(p, e) => e - p <= LineMax
  BY DEF Findable, ShortLines
<1>1. ASSUME q < originalSize PROVE q - p # LineMax
  <2> SUFFICES ASSUME q - p = LineMax PROVE FALSE
    OBVIOUS
  <2> DEFINE S == {i \in q .. originalSize - 1 : original[i] = Newline}
  <2>1. CASE S = {}
    <3>1. \A i \in p .. originalSize - 1 : original[i] # Newline
      BY <2>1
    <3>2. IsLine(p, originalSize)
      BY <3>1 DEF IsLine
    <3> QED BY <1>0, <1>1, <3>2
  <2>2. CASE S # {}
    <3>1. PICK n \in S : \A m \in S : n <= m
      <4>1. S \in SUBSET Nat
        OBVIOUS
      <4> HIDE DEF S
      <4> QED BY <2>2, <4>1, LeastNumber
    <3>2. \A i \in p .. n - 1 : original[i] # Newline
      BY <3>1
    <3>3. IsLine(p, n + 1)
      BY <3>1, <3>2 DEF IsLine
    <3> QED BY <1>0, <3>1, <3>3
  <2> QED BY <2>1, <2>2
<1>2. q \in p .. originalSize /\ (q < originalSize => q - p < LineMax)
  BY <1>1
<1>3. \A i \in p .. q - 1 : original[i] # Newline
  OBVIOUS
<1>4. q < originalSize => original[q] = Newline /\ IsLine(p, q + 1)
  BY <1>2, <1>3 DEF IsLine
<1>5. q = originalSize => IsLine(p, q) /\ ~Terminated
  BY <1>2, <1>3 DEF IsLine, Terminated
<1> QED BY <1>2, <1>3, <1>4, <1>5

\* There are finitely many newlines, and not fewer before a later offset.
LEMMA NewlinesFacts ==
    ASSUME InputOK, NEW a \in 0 .. originalSize, NEW b \in a .. originalSize
    PROVE  /\ IsFiniteSet(NewlinesBefore(a)) /\ Cardinality(NewlinesBefore(a)) \in Nat
           /\ Cardinality(NewlinesBefore(a)) <= Cardinality(NewlinesBefore(b))
<1>1. IsFiniteSet(0 .. b - 1)
  BY FS_Interval DEF InputOK
<1>2. NewlinesBefore(b) \in SUBSET (0 .. b - 1) /\ NewlinesBefore(a) \in SUBSET NewlinesBefore(b)
  BY DEF NewlinesBefore, InputOK
<1>3. IsFiniteSet(NewlinesBefore(b))
  BY <1>1, <1>2, FS_Subset
<1> QED BY <1>2, <1>3, FS_Subset, FS_CardinalityType

\* The newline at q is the only one from p to q: the line after it has the next
\* number.
LEMMA NextLineBegins ==
    ASSUME InputOK, NEW p \in 0 .. originalSize, NEW n \in Nat, LineBegins(p, n),
           NEW q \in p .. originalSize - 1, original[q] = Newline,
           \A i \in p .. q - 1 : original[i] # Newline
    PROVE  LineBegins(q + 1, n + 1)
<1>1. NewlinesBefore(q + 1) = NewlinesBefore(p) \cup {q}
  BY DEF NewlinesBefore, InputOK
<1>2. q \notin NewlinesBefore(p)
  BY DEF NewlinesBefore, InputOK
<1>3. IsFiniteSet(NewlinesBefore(p))
  BY NewlinesFacts DEF InputOK
<1>4. Cardinality(NewlinesBefore(q + 1)) = n + 1
  BY <1>1, <1>2, <1>3, FS_AddElement DEF LineBegins
<1>5. q + 1 \in 0 .. originalSize /\ original[q + 1 - 1] = Newline
  BY DEF InputOK
<1> QED BY <1>4, <1>5 DEF LineBegins

\* No newline follows: this is the last line.
LEMMA LastLine ==
    ASSUME InputOK, NEW p \in 0 .. originalSize, NEW n, LineBegins(p, n),
           \A i \in p .. originalSize - 1 : original[i] # Newline
    PROVE  Cardinality(NewlinesBefore(originalSize)) = n
<1>1. NewlinesBefore(originalSize) = NewlinesBefore(p)
  BY DEF NewlinesBefore, InputOK
<1> QED BY <1>1 DEF LineBegins

-----------------------------------------------------------------------------
(* The steps.                                                              *)

\* A step that leaves the input alone leaves what is said of it alone.
LEMMA InputKept ==
    ASSUME UNCHANGED input
    PROVE  /\ InputOK' <=> InputOK
           /\ CutLine' <=> CutLine
           /\ \A p, e : IsLine(p, e)' <=> IsLine(p, e)
           /\ \A p, n : LineBegins(p, n)' <=> LineBegins(p, n)
           /\ \A p : NewlinesBefore(p)' = NewlinesBefore(p)
BY DEF input, InputOK, CutLine, IsLine, LineBegins, NewlinesBefore, Findable, Named, ShortLines,
   Terminated

\* A line is skipped only if there is another one behind it.
LEMMA SkipLineKeepsInvariant ==
    ASSUME IInv, NEW q \in 0 .. size, SkipLine(q)
    PROVE  IInv'
<1> USE DEF SkipLine
<1>1. InputOK /\ Unchanged /\ before = position /\ LineBegins(before, l) /\ l \in 0 .. number
  BY DEF IInv, Scanning
<1>2. number \in Nat /\ originalSize \in Nat /\ position \in 0 .. originalSize - 1 /\ q \in Nat
  BY <1>1 DEF InputOK, Unchanged, LineBegins
<1>3. /\ q \in position .. originalSize /\ (q < originalSize => q - position < LineMax)
      /\ \A i \in position .. q - 1 : original[i] # Newline
      /\ q < originalSize => original[q] = Newline
  BY <1>1, <1>2, WholeLine DEF LineBegins
<1>4. q < originalSize
  <2> SUFFICES ASSUME q = originalSize PROVE FALSE
    BY <1>2, <1>3
  <2>1. Cardinality(NewlinesBefore(originalSize)) = l
    BY <1>1, <1>2, <1>3, LastLine
  <2>2. PICK p \in 0 .. originalSize : Cardinality(NewlinesBefore(p)) = number
    BY <1>1 DEF InputOK, Findable, Named
  <2>3. number <= l
    BY <1>1, <1>2, <2>1, <2>2, NewlinesFacts
  <2> QED BY <1>1, <1>2, <2>3
<1>5. LineBegins(q + 1, l + 1)
  BY <1>1, <1>2, <1>3, <1>4, NextLineBegins
<1>6. position' = q + 1 /\ before' = q + 1 /\ l' \in 0 .. number' /\ l' = l + 1
  BY <1>1, <1>2, <1>3, <1>4 DEF AfterStop, Unchanged, input
<1>7. Scanning'
  BY <1>1, <1>5, <1>6, InputKept DEF Scanning, Unchanged, input
<1> QED BY <1>1, <1>7, InputKept DEF IInv, Found, MovingBackward, MovingForward, Finished

\* The line is found, whole, with its number.
LEMMA FindLineKeepsInvariant ==
    ASSUME IInv, NEW q \in 0 .. size, FindLine(q)
    PROVE  IInv'
<1> USE DEF FindLine
<1>1. InputOK /\ Unchanged /\ before = position /\ LineBegins(before, number)
  BY DEF IInv, Scanning
<1>2. number \in Nat /\ originalSize \in Nat /\ position \in 0 .. originalSize - 1 /\ q \in Nat
  BY <1>1 DEF InputOK, Unchanged, LineBegins
<1>3. /\ q \in position .. originalSize
      /\ \A i \in position .. q - 1 : original[i] # Newline
      /\ q < originalSize => IsLine(position, q + 1)
      /\ q = originalSize => IsLine(position, q) /\ ~Terminated
  BY <1>1, <1>2, WholeLine DEF LineBegins
<1>4. q = originalSize => CutLine
  <2> SUFFICES ASSUME q = originalSize PROVE CutLine
    OBVIOUS
  <2>1. before \in 0 .. originalSize
    BY <1>1, <1>2
  <2>2. Cardinality(NewlinesBefore(originalSize)) = number
    BY <1>1, <1>3, <2>1, LastLine
  <2> QED BY <1>3, <2>2 DEF CutLine
<1>5. /\ length' = q - position + 1 /\ before' = position
      /\ length' \in Nat \ {0} /\ before' + length' = q + 1
  BY <1>1, <1>2, <1>3
<1>6. EndOfLine' = IF q < originalSize THEN q + 1 ELSE q
  BY <1>2, <1>3, <1>5 DEF EndOfLine, input
<1>7. Found'
  BY <1>1, <1>2, <1>3, <1>4, <1>5, <1>6, InputKept DEF Found, input
<1>8. Unchanged'
  BY <1>1 DEF Unchanged, input
<1> QED
  BY <1>1, <1>7, <1>8, InputKept DEF IInv, Scanning, MovingBackward, MovingForward, Finished

\* What is known of the offsets once the line is found.
Offsets ==
    /\ originalSize \in Nat /\ K \in Nat \ {0} /\ length \in Nat \ {0}
    /\ before \in 0 .. originalSize - 1
    /\ EndOfLine \in before + 1 .. originalSize
    /\ \/ before + length <= originalSize /\ EndOfLine = before + length
       \/ before + length = originalSize + 1 /\ EndOfLine = originalSize /\ CutLine

\* After the scan the offsets are those of the line asked for.
LEMMA FoundFacts ==
    ASSUME IInv, pc # "scan"
    PROVE  Offsets /\ IsLine(before, EndOfLine) /\ Cardinality(NewlinesBefore(before)) = number
<1>1. InputOK /\ LineBegins(before, number) /\ length \in Nat \ {0} /\ IsLine(before, EndOfLine)
  BY DEF IInv, Found
<1>2. originalSize \in Nat /\ K \in Nat \ {0} /\ before \in 0 .. originalSize
  BY <1>1 DEF InputOK, LineBegins
<1>3. \/ before + length <= originalSize /\ EndOfLine = before + length
      \/ before + length = originalSize + 1 /\ EndOfLine = originalSize /\ CutLine
  BY <1>1, <1>2 DEF IInv, Found, EndOfLine
<1>4. before < EndOfLine
  BY <1>1 DEF IsLine
<1> QED BY <1>1, <1>2, <1>3, <1>4 DEF Offsets, LineBegins

\* The three parts of that file.
LEMMA FileAfterFacts ==
    ASSUME Offsets, NEW i \in 0 .. SizeAfter - 1
    PROVE  /\ i \in Nat
           /\ i < before => FileAfter[i] = original[i]
           /\ i >= before /\ i < before + K => FileAfter[i] = line[i - before]
           /\ i >= before + K =>
                /\ before + length <= originalSize
                /\ i - K + length \in before + length .. originalSize - 1
                /\ FileAfter[i] = original[i - K + length]
<1>1. i \in Nat
  BY DEF Offsets, SizeAfter
<1>2. CASE i < before
  BY <1>1, <1>2 DEF Offsets, FileAfter
<1>3. CASE i >= before /\ i < before + K
  BY <1>1, <1>3 DEF Offsets, FileAfter
<1>4. CASE i >= before + K
  <2>1. before + length <= originalSize /\ i < originalSize + K - length
    BY <1>1, <1>4 DEF Offsets, SizeAfter
  <2>2. i - K + (EndOfLine - before) = i - K + length
    BY <1>1, <2>1 DEF Offsets
  <2>3. i - K + length \in before + length .. originalSize - 1
    BY <1>1, <1>4, <2>1 DEF Offsets
  <2>4. ~(i < before) /\ ~(i < before + K)
    BY <1>1, <1>4 DEF Offsets
  <2>5. FileAfter[i] = original[i - K + (EndOfLine - before)]
    BY <2>4 DEF FileAfter
  <2> QED BY <1>1, <2>1, <2>2, <2>3, <2>4, <2>5
<1> QED BY <1>1, <1>2, <1>3, <1>4 DEF Offsets

\* A step behind the scan that leaves its result alone.
LEMMA ShiftKeepsFound ==
    ASSUME IInv, pc # "scan", UNCHANGED <<input, scan>>,
           pc' \in {"backward", "forward", "done"}
    PROVE  /\ pc' \in {"scan", "found", "backward", "forward", "done"} /\ pc' # "found"
           /\ InputOK' /\ Scanning' /\ Found'
           /\ EndOfLine' = EndOfLine /\ (CutLine' <=> CutLine)
<1>1. EndOfLine' = EndOfLine
  BY DEF EndOfLine, input, scan
<1>2. InputOK' /\ (CutLine' <=> CutLine)
  BY InputKept DEF IInv
<1>3. LineBegins(before, number)' /\ IsLine(before, EndOfLine)'
  BY <1>1 DEF IInv, Found, LineBegins, IsLine, NewlinesBefore, input, scan
<1>4. Found'
  BY <1>2, <1>3 DEF IInv, Found, input, scan
<1> QED BY <1>1, <1>2, <1>4 DEF Scanning

\* A step that ends the algorithm with that file, or without the last newline.
LEMMA DoneKeepsInvariant ==
    ASSUME IInv, pc # "scan", pc' = "done", UNCHANGED <<input, scan>>,
           \/ size' = SizeAfter /\ bytes' = FileAfter
           \/ /\ CutLine /\ K < length /\ before + length > originalSize
              /\ \A i \in 0 .. before - 1 : IsAt(i, i)'
    PROVE  IInv'
<1>1. /\ EndOfLine' = EndOfLine /\ (CutLine' <=> CutLine)
      /\ UNCHANGED <<before, length, K, line, original, originalSize>>
  BY ShiftKeepsFound DEF input, scan
<1>2. SizeAfter' = SizeAfter /\ FileAfter' = FileAfter
  BY <1>1 DEF SizeAfter, FileAfter
<1>3. Finished'
  BY <1>1, <1>2 DEF Finished
<1> QED BY <1>3, ShiftKeepsFound DEF IInv, MovingBackward, MovingForward

\* What a write of the n bytes of data at the offset p leaves.
Written(p, data, n) ==
    /\ size' = IF p + n > size THEN p + n ELSE size
    /\ bytes' = [i \in 0 .. size' - 1 |-> bytes'[i]]
    /\ \A i \in 0 .. size' - 1 :
          bytes'[i] = IF i \in p .. p + n - 1 THEN data[i - p]
                      ELSE IF i < size THEN bytes[i] ELSE Zero

\* WriteAt leaves what Written says.
LEMMA WriteAtFacts ==
    ASSUME NEW p, NEW data, NEW n, WriteAt(p, data, n)
    PROVE  Written(p, data, n)
BY DEF WriteAt, Written

\* What one turn of a loop leaves.
Moved ==
    /\ size' = IF writer + 1 > size THEN writer + 1 ELSE size
    /\ bytes' = [i \in 0 .. size' - 1 |-> bytes'[i]]
    /\ \A i \in 0 .. size' - 1 :
          bytes'[i] = IF i = writer THEN bytes[reader]
                      ELSE IF i < size THEN bytes[i] ELSE Zero

\* MoveByte leaves what Moved says.
LEMMA MoveByteFacts ==
    ASSUME writer \in Nat, size \in Nat, reader \in 0 .. size - 1, MoveByte
    PROVE  Moved
<1> DEFINE data == [i \in {0} |-> IF reader < size THEN bytes[reader] ELSE Zero]
<1>1. Written(writer, data, 1)
  BY WriteAtFacts DEF MoveByte
<1>2. data[0] = bytes[reader]
  OBVIOUS
<1> HIDE DEF data
<1>3. size' \in Nat
  BY <1>1 DEF Written
<1>4. ASSUME NEW i \in 0 .. size' - 1
      PROVE  bytes'[i] = IF i = writer THEN bytes[reader]
                         ELSE IF i < size THEN bytes[i] ELSE Zero
  <2>1. i \in writer .. writer + 1 - 1 <=> i = writer
    BY <1>3
  <2>2. i = writer => i - writer = 0
    BY <1>3
  <2> QED BY <1>1, <1>2, <2>1, <2>2 DEF Written
<1> QED BY <1>1, <1>4 DEF Written, Moved

\* Case 1: a line of the same length.
LEMMA OverwriteKeepsInvariant ==
    ASSUME IInv, Overwrite
    PROVE  IInv'
<1> USE DEF Overwrite
<1>1. Unchanged /\ Offsets /\ Written(before, line, K)
  BY FoundFacts, WriteAtFacts DEF IInv
<1>2. size' = SizeAfter
  BY <1>1 DEF Written, SizeAfter, Unchanged, Offsets
<1>3. ASSUME NEW i \in 0 .. SizeAfter - 1
      PROVE  bytes'[i] = FileAfter[i]
  <2>1. i >= before + K => i - K + length = i
    BY <1>1, FileAfterFacts DEF Offsets
  <2>2. bytes'[i] = IF i \in before .. before + K - 1 THEN line[i - before]
                    ELSE IF i < size THEN bytes[i] ELSE Zero
    BY <1>1, <1>2 DEF Written
  <2> QED BY <1>1, <2>1, <2>2, FileAfterFacts DEF Unchanged, Offsets
<1>4. bytes' = FileAfter
  BY <1>1, <1>2, <1>3 DEF Written, FileAfter
<1> QED BY <1>2, <1>4, DoneKeepsInvariant

\* Case 3, at the end: the bytes behind the line are in their places.
LEMMA PutLineKeepsInvariant ==
    ASSUME IInv, PutLine
    PROVE  IInv'
<1> USE DEF PutLine
<1>1. MovingForward /\ Offsets /\ Written(before, line, K)
  BY FoundFacts, WriteAtFacts DEF IInv
<1>2. size' = SizeAfter
  <2>1. size' = IF before + K > size THEN before + K ELSE size
    BY <1>1 DEF Written
  <2>2. /\ K > length /\ reader < before + length
        /\ reader \in Int /\ reader < originalSize
        /\ reader >= before + length - 1 \/ reader = originalSize - 1
        /\ size = IF reader = originalSize - 1 THEN originalSize ELSE originalSize + K - length
    BY <1>1 DEF MovingForward
  <2>3. CASE reader = originalSize - 1
    BY <1>1, <2>1, <2>2, <2>3 DEF SizeAfter, Offsets
  <2>4. CASE reader # originalSize - 1
    BY <1>1, <2>1, <2>2, <2>4 DEF SizeAfter, Offsets
  <2> QED BY <2>3, <2>4
<1>3. ASSUME NEW i \in 0 .. SizeAfter - 1
      PROVE  bytes'[i] = FileAfter[i]
  <2>1. bytes'[i] = IF i \in before .. before + K - 1 THEN line[i - before]
                    ELSE IF i < size THEN bytes[i] ELSE Zero
    BY <1>1, <1>2 DEF Written
  <2>2. i < before => i < size /\ bytes[i] = original[i]
    BY <1>1, FileAfterFacts DEF MovingForward, Offsets
  <2>3. i >= before + K => i < size /\ bytes[i] = original[i - K + length]
    <3> SUFFICES ASSUME i >= before + K
                 PROVE  i < size /\ bytes[i] = original[i - K + length]
      OBVIOUS
    <3>1. before + length <= originalSize /\ i - K + length \in before + length .. originalSize - 1
      BY <1>1, FileAfterFacts
    <3>2. size = originalSize + K - length /\ i \in writer + 1 .. size - 1
      BY <1>1, <3>1, FileAfterFacts DEF MovingForward, Offsets
    <3>3. i < size
      BY <1>1, <3>2, FileAfterFacts DEF Offsets
    <3> QED BY <1>1, <3>2, <3>3 DEF MovingForward
  <2> QED BY <1>1, <2>1, <2>2, <2>3, FileAfterFacts DEF Offsets
<1>4. bytes' = FileAfter
  BY <1>1, <1>2, <1>3 DEF Written, FileAfter
<1> QED BY <1>2, <1>4, DoneKeepsInvariant

\* Case 2, at the end: the rest of the file is cut off.
LEMMA TruncateKeepsInvariant ==
    ASSUME IInv, Truncate
    PROVE  IInv'
<1> USE DEF Truncate
<1>1. MovingBackward /\ Offsets
  BY FoundFacts DEF IInv
<1>2. CASE before + length > originalSize
  <2>1. size' = before + K - 1 /\ K < length /\ writer = before + K /\ size = originalSize
    BY <1>1, <1>2 DEF MovingBackward, Offsets
  <2>2. ASSUME NEW i \in 0 .. before - 1 PROVE IsAt(i, i)'
    <3>1. i \in 0 .. size' - 1 /\ i \in 0 .. writer - 1 /\ i < before
      BY <1>1, <2>1 DEF Offsets
    <3>2. bytes'[i] = bytes[i] /\ bytes[i] = original[i]
      BY <1>1, <3>1 DEF MovingBackward
    <3> QED BY <3>1, <3>2 DEF IsAt, input
  <2> QED BY <1>1, <1>2, <2>1, <2>2, DoneKeepsInvariant DEF Offsets
<1>3. CASE before + length <= originalSize
  <2>1. size' = SizeAfter
    BY <1>1, <1>3 DEF MovingBackward, SizeAfter, Offsets
  <2>2. ASSUME NEW i \in 0 .. SizeAfter - 1
        PROVE  bytes'[i] = FileAfter[i]
    <3>1. i \in 0 .. writer - 1 /\ i \in Nat /\ bytes'[i] = bytes[i]
      BY <1>1, <1>3, <2>1, FileAfterFacts DEF MovingBackward, SizeAfter, Offsets
    <3>2. bytes[i] = IF i < before THEN original[i]
                     ELSE IF i < before + K THEN line[i - before]
                     ELSE original[i - K + length]
      BY <1>1, <1>3, <3>1 DEF MovingBackward
    <3> QED BY <1>1, <3>1, <3>2, FileAfterFacts DEF Offsets
  <2>3. bytes' = FileAfter
    BY <2>1, <2>2 DEF FileAfter
  <2> QED BY <2>1, <2>3, DoneKeepsInvariant
<1> QED BY <1>1, <1>2, <1>3 DEF Offsets

\* Case 2, up to the loop.
LEMMA StartBackwardKeepsInvariant ==
    ASSUME IInv, StartBackward
    PROVE  IInv'
<1> USE DEF StartBackward
<1>1. Unchanged /\ InputOK /\ Offsets /\ Written(before, line, K)
  BY FoundFacts, WriteAtFacts DEF IInv
<1>2. MovingBackward'
  <2>1. UNCHANGED <<original, originalSize, line, K, before, length>> /\ (CutLine' <=> CutLine)
    BY InputKept DEF input, scan
  <2>2. before + K <= originalSize /\ size' = originalSize
    BY <1>1 DEF Written, Unchanged, Offsets
  <2>3. \A i \in 0 .. originalSize - 1 :
           bytes'[i] = IF i \in before .. before + K - 1 THEN line[i - before] ELSE original[i]
    BY <1>1, <2>2 DEF Written, Unchanged, Offsets
  <2>4. \A i \in 0 .. originalSize - 1 : bytes'[i] \in Bytes
    BY <1>1, <2>2, <2>3 DEF InputOK, Offsets
  <2>5. bytes' \in [0 .. size' - 1 -> Bytes]
    BY <1>1, <2>2, <2>4 DEF Written
  <2>6. /\ reader' = before + length /\ writer' = before + K
        /\ fileSizeAfterReplacement' = originalSize + K - length
    BY <1>1, <2>2 DEF Offsets
  <2>7. /\ writer' \in before + K .. originalSize /\ reader' = writer' + length - K
        /\ IF before + length > originalSize THEN writer' = before + K
           ELSE writer' <= fileSizeAfterReplacement'
    BY <1>1, <2>2, <2>6 DEF Offsets
  <2>8. ASSUME NEW i \in 0 .. writer' - 1
        PROVE  bytes'[i] = IF i < before THEN original[i]
                           ELSE IF i < before + K THEN line[i - before]
                           ELSE original[i - K + length]
    <3>1. i \in 0 .. originalSize - 1 /\ (i \in before .. before + K - 1 <=> ~(i < before))
      BY <1>1, <2>2, <2>6 DEF Offsets
    <3>2. i < before + K
      BY <1>1, <2>6 DEF Offsets
    <3> QED BY <2>3, <3>1, <3>2
  <2>9. \A i \in reader' .. size' - 1 : bytes'[i] = original[i]
    <3> SUFFICES ASSUME NEW i \in reader' .. size' - 1 PROVE bytes'[i] = original[i]
      OBVIOUS
    <3>1. i \in 0 .. originalSize - 1 /\ i \notin before .. before + K - 1
      BY <1>1, <2>2, <2>6 DEF Offsets
    <3> QED BY <2>3, <3>1
  <2> QED BY <2>1, <2>2, <2>5, <2>6, <2>7, <2>8, <2>9 DEF MovingBackward
<1> QED BY <1>2, ShiftKeepsFound DEF IInv, MovingForward, Finished

\* One byte is moved towards the beginning.
LEMMA BackwardKeepsInvariant ==
    ASSUME IInv, Backward
    PROVE  IInv'
<1> USE DEF Backward
<1>1. MovingBackward /\ InputOK /\ Offsets
  BY FoundFacts DEF IInv
<1>2. MovingBackward'
  <2>1. UNCHANGED <<original, originalSize, line, K, before, length>> /\ (CutLine' <=> CutLine)
    BY InputKept DEF input, scan
  <2>2. /\ before + length <= originalSize
        /\ reader \in 0 .. size - 1 /\ writer \in 0 .. size - 1 /\ size = originalSize
    <3>1. /\ K < length /\ size = originalSize /\ reader = writer + length - K
          /\ fileSizeAfterReplacement = originalSize + K - length
          /\ writer \in before + K .. originalSize
          /\ IF before + length > originalSize THEN writer = before + K
             ELSE writer <= fileSizeAfterReplacement
      BY <1>1 DEF MovingBackward
    <3> QED BY <1>1, <3>1 DEF Offsets
  <2>3. Moved
    BY <1>1, <2>2, MoveByteFacts DEF Offsets
  <2>4. size' = size /\ reader' = reader + 1
    BY <1>1, <2>2, <2>3 DEF Moved, Offsets
  <2>5. \A i \in 0 .. size - 1 : bytes'[i] = IF i = writer THEN original[reader] ELSE bytes[i]
    <3>1. bytes[reader] = original[reader]
      BY <1>1, <2>2 DEF MovingBackward, Offsets
    <3> QED BY <1>1, <2>2, <2>3, <2>4, <3>1 DEF Moved, Offsets
  <2>6. bytes' \in [0 .. size' - 1 -> Bytes]
    BY <1>1, <2>2, <2>3, <2>4, <2>5 DEF InputOK, Moved, MovingBackward
  <2>7. writer' = writer + 1 /\ writer - K + length = reader
    BY <1>1, <2>2 DEF MovingBackward, Offsets
  <2>8. ASSUME NEW i \in 0 .. writer' - 1
        PROVE  bytes'[i] = IF i < before THEN original[i]
                           ELSE IF i < before + K THEN line[i - before]
                           ELSE original[i - K + length]
    <3>1. CASE i = writer
      <4>1. writer >= before + K
        BY <1>1 DEF MovingBackward, Offsets
      <4>2. ~(i < before) /\ ~(i < before + K) /\ i \in 0 .. size - 1
        BY <1>1, <2>2, <3>1, <4>1 DEF Offsets
      <4> QED BY <2>5, <2>7, <3>1, <4>2
    <3>2. CASE i # writer
      <4>1. i \in 0 .. writer - 1 /\ i \in 0 .. size - 1
        BY <1>1, <2>2, <2>7, <3>2 DEF Offsets
      <4> QED BY <1>1, <2>5, <3>2, <4>1 DEF MovingBackward
    <3> QED BY <3>1, <3>2
  <2>9. \A i \in reader' .. size' - 1 : bytes'[i] = original[i]
    BY <1>1, <2>2, <2>4, <2>5 DEF MovingBackward, Offsets
  <2>10. /\ writer' \in before + K .. originalSize /\ reader' = writer' + length - K
         /\ writer' <= fileSizeAfterReplacement
    BY <1>1, <2>2, <2>4 DEF MovingBackward, Offsets
  <2>11. /\ K < length /\ fileSizeAfterReplacement = originalSize + K - length
         /\ UNCHANGED fileSizeAfterReplacement
    BY <1>1 DEF MovingBackward
  <2>12. ~(before + length > originalSize)
    BY <1>1, <2>2 DEF Offsets
  <2> QED BY <2>1, <2>2, <2>4, <2>6, <2>8, <2>9, <2>10, <2>11, <2>12 DEF MovingBackward
<1> QED BY <1>2, ShiftKeepsFound DEF IInv, MovingForward, Finished

\* Case 3, up to the loop.
LEMMA StartForwardKeepsInvariant ==
    ASSUME IInv, StartForward
    PROVE  IInv'
<1> USE DEF StartForward
<1>1. Unchanged /\ InputOK /\ Offsets
  BY FoundFacts DEF IInv
<1>2. MovingForward'
  BY <1>1 DEF Unchanged, InputOK, MovingForward, Offsets, input, scan
<1> QED BY <1>2, ShiftKeepsFound DEF IInv, MovingBackward, Finished

\* One byte is moved towards the end.
LEMMA ForwardKeepsInvariant ==
    ASSUME IInv, Forward
    PROVE  IInv'
<1> USE DEF Forward
<1>1. MovingForward /\ Offsets
  BY FoundFacts DEF IInv
<1>2. MovingForward'
  <2>1. /\ before + length <= originalSize
        /\ reader \in 0 .. size - 1 /\ writer \in Nat /\ size \in Nat
    <3>1. /\ K > length /\ reader \in Int /\ reader < originalSize /\ reader >= before
          /\ reader >= before + length /\ writer = reader + K - length
          /\ size = IF reader = originalSize - 1 THEN originalSize ELSE originalSize + K - length
      BY <1>1 DEF MovingForward
    <3>2. before + length <= originalSize
      BY <1>1, <3>1 DEF Offsets
    <3> QED BY <1>1, <3>1, <3>2 DEF Offsets
  <2>2. Moved
    BY <2>1, MoveByteFacts
  <2>3. size' = originalSize + K - length /\ writer \in 0 .. size' - 1 /\ size <= size'
    <3>1. size' = IF writer + 1 > size THEN writer + 1 ELSE size
      BY <2>2 DEF Moved
    <3>2. /\ K > length /\ reader < originalSize /\ writer = reader + K - length
          /\ size = IF reader = originalSize - 1 THEN originalSize ELSE originalSize + K - length
      BY <1>1 DEF MovingForward
    <3> QED BY <1>1, <2>1, <3>1, <3>2 DEF Offsets
  <2>4. /\ DOMAIN bytes' = 0 .. size' - 1
        /\ bytes'[writer] = original[reader]
        /\ \A i \in 0 .. size - 1 : i # writer => bytes'[i] = bytes[i]
    <3>1. bytes[reader] = original[reader]
      BY <1>1, <2>1 DEF MovingForward
    <3>2. \A i \in 0 .. size - 1 : i \in 0 .. size' - 1 /\ i < size
      BY <1>1, <2>1, <2>3 DEF Offsets
    <3> QED BY <2>2, <2>3, <3>1, <3>2 DEF Moved
  <2>5. UNCHANGED <<original, originalSize, K, before, length>>
    BY DEF input, scan
  <2>6. \A i \in 0 .. reader' : bytes'[i] = original[i]
    <3> SUFFICES ASSUME NEW i \in 0 .. reader' PROVE bytes'[i] = original[i]
      OBVIOUS
    <3>1. i \in 0 .. reader /\ i \in 0 .. size - 1 /\ i # writer
      BY <1>1, <2>1 DEF MovingForward, Offsets
    <3> QED BY <1>1, <2>4, <3>1 DEF MovingForward
  <2>7. \A i \in writer' + 1 .. size' - 1 : bytes'[i] = original[i - K + length]
    <3> SUFFICES ASSUME NEW i \in writer' + 1 .. size' - 1
                 PROVE  bytes'[i] = original[i - K + length]
      OBVIOUS
    <3>1. CASE i = writer
      BY <1>1, <2>1, <2>4, <3>1 DEF MovingForward, Offsets
    <3>2. CASE i # writer
      <4>1. i \in writer + 1 .. size - 1 /\ i \in 0 .. size - 1
        BY <1>1, <2>1, <2>3, <3>2 DEF MovingForward, Offsets
      <4> QED BY <1>1, <2>4, <3>2, <4>1 DEF MovingForward
    <3> QED BY <3>1, <3>2
  <2>8. /\ K > length /\ reader' = reader - 1 /\ writer' = writer - 1
        /\ writer = reader + K - length /\ reader \in Int /\ reader < originalSize
    BY <1>1 DEF MovingForward
  <2>9. /\ reader' \in Int /\ reader' < originalSize /\ reader' >= before
        /\ reader' >= before + length - 1 /\ reader' # originalSize - 1
        /\ writer' = reader' + K - length
    BY <1>1, <2>1, <2>8 DEF Offsets
  <2> QED BY <2>3, <2>4, <2>5, <2>6, <2>7, <2>8, <2>9 DEF MovingForward
<1> QED BY <1>2, ShiftKeepsFound DEF IInv, MovingBackward, Finished

-----------------------------------------------------------------------------
(* The theorems.                                                           *)

\* The invariant holds in every reachable state, if the scan can find the line.
THEOREM Invariance == Spec => [](Findable => IInv)
<1>1. Init /\ Findable => IInv
  <2> SUFFICES ASSUME Init, Findable PROVE IInv
    OBVIOUS
  <2>1. InputOK
    BY BytesAssumption DEF Init, InputOK
  <2>2. NewlinesBefore(0) = {}
    BY DEF NewlinesBefore
  <2>3. LineBegins(0, 0)
    <3>1. Cardinality(NewlinesBefore(0)) = 0
      BY <2>2, FS_EmptySet
    <3> QED BY <2>1, <3>1 DEF LineBegins, InputOK
  <2>4. Scanning
    BY <2>1, <2>3 DEF Init, Scanning, Unchanged, InputOK
  <2> QED BY <2>1, <2>4 DEF Init, IInv, Found, MovingBackward, MovingForward, Finished
<1>2. IInv /\ [Next]_vars => IInv'
  <2> SUFFICES ASSUME IInv, [Next]_vars PROVE IInv'
    OBVIOUS
  <2>1. CASE \E q \in 0 .. size : SkipLine(q) \/ FindLine(q)
    BY <2>1, SkipLineKeepsInvariant, FindLineKeepsInvariant
  <2>2. CASE UNCHANGED vars
    <3>1. InputOK' /\ (CutLine' <=> CutLine) /\ (Unchanged' <=> Unchanged)
      BY <2>2, InputKept DEF vars, IInv, input, Unchanged
    <3>2. EndOfLine' = EndOfLine
      BY <2>2 DEF vars, EndOfLine, input, scan
    <3>3. Scanning' /\ Found'
      BY <2>2, <3>1, <3>2 DEF vars, IInv, Scanning, Found, LineBegins, IsLine, NewlinesBefore,
         input, scan
    <3>4. MovingBackward' /\ MovingForward'
      BY <2>2, <3>1 DEF vars, IInv, MovingBackward, MovingForward, input, scan, shift
    <3>5. Finished'
      <4>1. SizeAfter' = SizeAfter /\ FileAfter' = FileAfter
        BY <2>2, <3>2 DEF vars, input, scan, SizeAfter, FileAfter
      <4>2. \A i : IsAt(i, i)' <=> IsAt(i, i)
        BY <2>2 DEF vars, input, IsAt
      <4> QED BY <2>2, <3>1, <4>1, <4>2 DEF IInv, Finished, vars, input, scan
    <3> QED BY <2>2, <3>1, <3>3, <3>4, <3>5 DEF IInv, vars
  <2> QED
    BY <2>1, <2>2, OverwriteKeepsInvariant, StartBackwardKeepsInvariant, BackwardKeepsInvariant,
       TruncateKeepsInvariant, StartForwardKeepsInvariant, ForwardKeepsInvariant,
       PutLineKeepsInvariant DEF Next, Return
<1>3. [Next]_vars => (Findable' <=> Findable)
  <2>1. [Next]_vars => UNCHANGED input
    BY DEF Next, vars, SkipLine, FindLine, Overwrite, StartBackward, Backward, Truncate,
       StartForward, Forward, PutLine, Return
  <2>2. UNCHANGED input => (Findable' <=> Findable)
    BY DEF input, Findable, Named, ShortLines, IsLine, NewlinesBefore
  <2> QED BY <2>1, <2>2
<1> QED BY <1>1, <1>2, <1>3, PTL DEF Spec

\* For every board file, every number of a line the scan can find in it and every
\* new line: exactly that line is replaced, unless it is a cut line and the new one
\* is shorter.
THEOREM LineIsReplaced == Spec => []LineReplaced
<1>1. (Findable => IInv) => LineReplaced
  <2> SUFFICES ASSUME IInv, pc = "done", ~(CutLine /\ K < length)
               PROVE  \E p, e \in 0 .. originalSize : Named(p, e) /\ ReplacedAt(p, e)
    BY DEF LineReplaced
  <2>1. Offsets /\ Named(before, EndOfLine)
    BY FoundFacts DEF Named
  <2>2. size = SizeAfter /\ bytes = FileAfter
    BY DEF IInv, Finished
  <2>3. ReplacedAt(before, EndOfLine)
    BY <2>2 DEF ReplacedAt, SizeAfter, FileAfter
  <2>4. before \in 0 .. originalSize /\ EndOfLine \in 0 .. originalSize
    BY <2>1 DEF Offsets
  <2> QED BY <2>1, <2>3, <2>4
<1> QED BY <1>1, Invariance, PTL

\* What NothingLost says of the line from p to e - 1 and of the byte m.
LineWhole(p, e) ==
    \/ \A i \in p .. e - 1 : IsAt(i, i)
    \/ \A i \in 0 .. K - 1 : p + i < size /\ bytes[p + i] = line[i]
    \/ CutLine /\ K < length

RestWhole(p, e, m) ==
    \A i \in e .. originalSize - 1 :
        IsAt(i, IF i < m <=> K < e - p THEN i + K - (e - p) ELSE i)

\* It is enough to give the byte m.
LEMMA NothingLostBy ==
    ASSUME IInv, Offsets, Named(before, EndOfLine), NEW m \in EndOfLine .. originalSize,
           \A i \in 0 .. before - 1 : IsAt(i, i), LineWhole(before, EndOfLine),
           RestWhole(before, EndOfLine, m)
    PROVE  NothingLost
<1>1. before \in 0 .. originalSize /\ EndOfLine \in 0 .. originalSize
  BY DEF Offsets
<1> QED BY <1>1 DEF NothingLost, LineWhole, RestWhole

\* As long as nothing is written nothing is lost.
LEMMA UnchangedLosesNothing ==
    ASSUME InputOK, Unchanged
    PROVE  NothingLost
<1>1. PICK p \in 0 .. originalSize, e \in 0 .. originalSize : Named(p, e)
  BY DEF InputOK, Findable
<1>2. originalSize \in Nat /\ K \in Nat /\ p < e
  BY <1>1 DEF InputOK, Named, IsLine
<1>3. \A i \in 0 .. originalSize - 1 : IsAt(i, i)
  BY DEF Unchanged, IsAt
<1>4. (\A i \in 0 .. p - 1 : IsAt(i, i)) /\ (\A i \in p .. e - 1 : IsAt(i, i))
  BY <1>2, <1>3
<1> DEFINE m == IF K < e - p THEN e ELSE originalSize
<1>5. m \in e .. originalSize
  BY <1>2
<1>6. \A i \in e .. originalSize - 1 :
         IsAt(i, IF i < m <=> K < e - p THEN i + K - (e - p) ELSE i)
  BY <1>2, <1>3
<1> HIDE DEF m
<1> QED BY <1>1, <1>4, <1>5, <1>6 DEF NothingLost

\* Nor while the rest is moved towards the beginning: what is left to move is
\* behind the offset of fd1.
LEMMA BackwardLosesNothing ==
    ASSUME IInv, pc = "backward"
    PROVE  NothingLost
<1>1. Offsets /\ Named(before, EndOfLine) /\ MovingBackward
  BY FoundFacts DEF IInv, Named
<1>2. /\ K < length /\ size = originalSize /\ reader = writer + length - K
      /\ writer \in before + K .. originalSize
  BY <1>1 DEF MovingBackward
<1>3. \A i \in 0 .. before - 1 : IsAt(i, i)
  <2> SUFFICES ASSUME NEW i \in 0 .. before - 1 PROVE IsAt(i, i)
    OBVIOUS
  <2>1. i \in 0 .. writer - 1 /\ i \in 0 .. size - 1 /\ i < before
    BY <1>1, <1>2 DEF Offsets
  <2> QED BY <1>1, <2>1 DEF MovingBackward, IsAt
<1>4. LineWhole(before, EndOfLine)
  <2> SUFFICES ASSUME NEW i \in 0 .. K - 1
               PROVE  before + i < size /\ bytes[before + i] = line[i]
    BY DEF LineWhole
  <2> DEFINE x == before + i
  <2>1. x \in 0 .. writer - 1 /\ x < size /\ ~(x < before) /\ x < before + K /\ x - before = i
    BY <1>1, <1>2 DEF Offsets
  <2>2. bytes[x] = line[x - before]
    BY <1>1, <2>1 DEF MovingBackward
  <2> QED BY <2>1, <2>2
<1>5. CASE before + length > originalSize
  <2>1. EndOfLine = originalSize /\ originalSize \in Nat
    BY <1>1, <1>5 DEF Offsets
  <2>2. RestWhole(before, EndOfLine, originalSize)
    BY <2>1 DEF RestWhole
  <2> QED BY <1>1, <1>3, <1>4, <2>1, <2>2, NothingLostBy
<1>6. CASE before + length <= originalSize
  <2>1. EndOfLine = before + length /\ reader \in EndOfLine .. originalSize
    BY <1>1, <1>2, <1>6 DEF Offsets, MovingBackward
  <2>2. ASSUME NEW i \in EndOfLine .. originalSize - 1
        PROVE  IsAt(i, IF i < reader <=> K < EndOfLine - before
                       THEN i + K - (EndOfLine - before) ELSE i)
    <3>1. K < EndOfLine - before /\ EndOfLine - before = length
      BY <1>1, <1>2, <2>1 DEF Offsets
    <3>2. CASE i < reader
      <4> DEFINE x == i + K - length
      <4>1. /\ x \in 0 .. writer - 1 /\ x \in 0 .. size - 1
            /\ ~(x < before) /\ ~(x < before + K) /\ x - K + length = i
        BY <1>1, <1>2, <2>1, <3>2 DEF Offsets
      <4>2. bytes[x] = original[x - K + length]
        BY <1>1, <4>1 DEF MovingBackward
      <4> QED BY <3>1, <3>2, <4>1, <4>2 DEF IsAt
    <3>3. CASE ~(i < reader)
      <4>1. i \in reader .. size - 1 /\ i \in 0 .. size - 1
        BY <1>1, <1>2, <2>1, <3>3 DEF Offsets
      <4> QED BY <1>1, <3>1, <3>3, <4>1 DEF MovingBackward, IsAt
    <3> QED BY <3>2, <3>3
  <2>3. RestWhole(before, EndOfLine, reader)
    BY <2>2 DEF RestWhole
  <2> QED BY <1>1, <1>3, <1>4, <2>1, <2>3, NothingLostBy
<1> QED BY <1>1, <1>5, <1>6 DEF Offsets

\* Nor while it is moved towards the end: what is left to move is up to the offset
\* of fd1, and the old line is there until all is moved.
LEMMA ForwardLosesNothing ==
    ASSUME IInv, pc = "forward"
    PROVE  NothingLost
<1>1. Offsets /\ Named(before, EndOfLine) /\ MovingForward
  BY FoundFacts DEF IInv, Named
<1>2. /\ K > length /\ reader \in Int /\ reader < originalSize /\ reader >= before
      /\ reader >= before + length - 1 \/ reader = originalSize - 1
      /\ writer = reader + K - length
      /\ size = IF reader = originalSize - 1 THEN originalSize ELSE originalSize + K - length
  BY <1>1 DEF MovingForward
<1>3. EndOfLine \in before + 1 .. reader + 1 /\ reader + 1 \in EndOfLine .. originalSize
  BY <1>1, <1>2 DEF Offsets
<1>4. \A i \in 0 .. reader : IsAt(i, i)
  <2> SUFFICES ASSUME NEW i \in 0 .. reader PROVE IsAt(i, i)
    OBVIOUS
  <2>1. i \in 0 .. size - 1
    BY <1>1, <1>2 DEF Offsets
  <2> QED BY <1>1, <2>1 DEF MovingForward, IsAt
<1>5. \A i \in 0 .. before - 1 : IsAt(i, i)
  BY <1>1, <1>2, <1>4 DEF Offsets
<1>6. LineWhole(before, EndOfLine)
  <2>1. \A i \in before .. EndOfLine - 1 : i \in 0 .. reader
    BY <1>1, <1>2, <1>3 DEF Offsets
  <2> QED BY <1>4, <2>1 DEF LineWhole
<1>7. ASSUME NEW i \in EndOfLine .. originalSize - 1
      PROVE  IsAt(i, IF i < reader + 1 <=> K < EndOfLine - before
                     THEN i + K - (EndOfLine - before) ELSE i)
  <2>1. i \in Nat /\ before + length <= originalSize /\ EndOfLine - before = length
    BY <1>1 DEF Offsets
  <2>2. ~(K < EndOfLine - before)
    BY <1>1, <1>2, <2>1 DEF Offsets
  <2>3. CASE i < reader + 1
    <3>1. i \in 0 .. reader
      BY <1>2, <2>1, <2>3
    <3> QED BY <1>4, <2>2, <2>3, <3>1
  <2>4. CASE ~(i < reader + 1)
    <3> DEFINE x == i + K - length
    <3>1. x \in writer + 1 .. size - 1 /\ x \in 0 .. size - 1 /\ x - K + length = i
      BY <1>1, <1>2, <2>1, <2>4 DEF Offsets
    <3>2. bytes[x] = original[x - K + length]
      BY <1>1, <3>1 DEF MovingForward
    <3>3. IsAt(i, x)
      BY <3>1, <3>2 DEF IsAt
    <3> QED BY <2>1, <2>2, <2>4, <3>3
  <2> QED BY <2>3, <2>4
<1>8. RestWhole(before, EndOfLine, reader + 1)
  BY <1>7 DEF RestWhole
<1> QED BY <1>1, <1>3, <1>5, <1>6, <1>8, NothingLostBy

\* At the end the whole rest is in its new place.
LEMMA DoneLosesNothing ==
    ASSUME IInv, pc = "done"
    PROVE  NothingLost
<1>1. Offsets /\ Named(before, EndOfLine) /\ Finished
  BY FoundFacts DEF IInv, Named
<1>2. CASE size = SizeAfter /\ bytes = FileAfter
  <2>1. SizeAfter \in Nat /\ before + K <= SizeAfter
    BY <1>1 DEF Offsets, SizeAfter
  <2>2. \A i \in 0 .. before - 1 : IsAt(i, i)
    <3> SUFFICES ASSUME NEW i \in 0 .. before - 1 PROVE IsAt(i, i)
      OBVIOUS
    <3>1. i \in 0 .. SizeAfter - 1 /\ i < before
      BY <1>1, <2>1 DEF Offsets
    <3> QED BY <1>1, <1>2, <3>1, FileAfterFacts DEF IsAt
  <2>3. LineWhole(before, EndOfLine)
    <3> SUFFICES ASSUME NEW i \in 0 .. K - 1
                 PROVE  before + i < size /\ bytes[before + i] = line[i]
      BY DEF LineWhole
    <3> DEFINE x == before + i
    <3>1. x \in 0 .. SizeAfter - 1 /\ x >= before /\ x < before + K /\ x < SizeAfter /\ x - before = i
      BY <1>1, <2>1 DEF Offsets
    <3>2. bytes[x] = line[x - before]
      BY <1>1, <1>2, <3>1, FileAfterFacts
    <3> QED BY <1>2, <3>1, <3>2
  <2>4. ASSUME NEW i \in EndOfLine .. originalSize - 1
        PROVE  IsAt(i, i + K - (EndOfLine - before))
    <3>1. i \in Nat /\ before + length <= originalSize /\ EndOfLine = before + length
      BY <1>1 DEF Offsets
    <3> DEFINE x == i + K - length
    <3>2. x \in 0 .. SizeAfter - 1 /\ x >= before + K /\ x - K + length = i
      BY <1>1, <3>1 DEF Offsets, SizeAfter
    <3>3. bytes[x] = original[x - K + length]
      BY <1>1, <1>2, <3>2, FileAfterFacts
    <3>4. IsAt(i, x)
      BY <1>2, <3>2, <3>3 DEF IsAt
    <3>5. i + K - (EndOfLine - before) = x
      BY <1>1, <3>1 DEF Offsets
    <3> QED BY <3>4, <3>5
  <2> DEFINE m == IF K < EndOfLine - before THEN originalSize ELSE EndOfLine
  <2>5. m \in EndOfLine .. originalSize
    BY <1>1 DEF Offsets
  <2>6. \A i \in EndOfLine .. originalSize - 1 : i < m <=> K < EndOfLine - before
    BY <1>1 DEF Offsets
  <2> HIDE DEF m
  <2>7. RestWhole(before, EndOfLine, m)
    BY <2>4, <2>6 DEF RestWhole
  <2> QED BY <1>1, <2>2, <2>3, <2>5, <2>7, NothingLostBy
<1>3. CASE /\ CutLine /\ K < length /\ before + length > originalSize
           /\ \A i \in 0 .. before - 1 : IsAt(i, i)
  <2>1. EndOfLine = originalSize /\ originalSize \in Nat
    BY <1>1, <1>3 DEF Offsets
  <2>2. RestWhole(before, EndOfLine, originalSize)
    BY <2>1 DEF RestWhole
  <2>3. LineWhole(before, EndOfLine)
    BY <1>3 DEF LineWhole
  <2> QED BY <1>1, <1>3, <2>1, <2>2, <2>3, NothingLostBy
<1> QED BY <1>1, <1>2, <1>3 DEF Finished

\* Wherever the rewriting is stopped: for every board file, every line the scan can
\* find in it and every new line, the file consists of what was before the line, of
\* the old or the new line, and of all that followed it, some of it twice.
THEOREM NothingIsLost == Spec => []NothingLost
<1>1. (Findable => IInv) => NothingLost
  <2>1. CASE ~Findable
    BY <2>1 DEF NothingLost
  <2>2. CASE IInv
    <3>1. pc \in {"scan", "found"} => InputOK /\ Unchanged
      BY <2>2 DEF IInv, Scanning
    <3>2. pc \in {"scan", "found", "backward", "forward", "done"}
      BY <2>2 DEF IInv
    <3> QED BY <2>2, <3>1, <3>2, UnchangedLosesNothing, BackwardLosesNothing,
               ForwardLosesNothing, DoneLosesNothing
  <2> QED BY <2>1, <2>2
<1> QED BY <1>1, Invariance, PTL

-----------------------------------------------------------------------------
(* The end is reached, whatever the file.                                  *)

\* The numbers the loops depend on, also where the scan does not find the line.
Numbers ==
    /\ pc \in {"scan", "found", "backward", "forward", "done"}
    /\ originalSize \in Nat /\ number \in Nat /\ K \in Nat
    /\ l \in 0 .. number /\ before \in Nat /\ position \in Nat
    /\ pc \in {"scan", "found"} => size = originalSize
    /\ pc # "scan" => originalSize > 0 /\ length \in Nat \ {0}
    /\ pc = "found" => position <= before /\ position + length <= originalSize + 1
    /\ pc = "scan" => position <= before
    /\ pc = "backward" => writer \in Int /\ fileSizeAfterReplacement \in Int
    /\ pc = "forward" => reader \in Int

\* They stay numbers.
LEMMA NumbersStay == Numbers /\ [Next]_vars => Numbers'
<1> SUFFICES ASSUME Numbers, [Next]_vars PROVE Numbers'
  OBVIOUS
<1> USE DEF Numbers
<1>1. ASSUME NEW q \in 0 .. size, SkipLine(q) PROVE Numbers'
  <2>1. q \in position .. size /\ position' \in {q, q + 1}
    BY <1>1 DEF SkipLine, StopsAt, AfterStop
  <2> QED BY <1>1, <2>1 DEF SkipLine, input
<1>2. ASSUME NEW q \in 0 .. size, FindLine(q) PROVE Numbers'
  <2>1. q \in position .. size
    BY <1>2 DEF FindLine, StopsAt
  <2> QED BY <1>2, <2>1 DEF FindLine, input
<1>3. CASE Overwrite \/ Truncate \/ PutLine
  BY <1>3 DEF Overwrite, Truncate, PutLine, input, scan
<1>4. CASE StartBackward
  <2>1. size' = IF before + K > size THEN before + K ELSE size
    BY <1>4 DEF StartBackward, WriteAt
  <2>2. size' \in Int
    BY <1>4, <2>1 DEF StartBackward
  <2> QED BY <1>4, <2>2 DEF StartBackward, input, scan
<1>5. CASE Backward \/ Forward
  BY <1>5 DEF Backward, Forward, input, scan
<1>6. CASE StartForward
  BY <1>6 DEF StartForward, input, scan
<1>7. CASE UNCHANGED vars
  BY <1>7 DEF vars, input, scan, shift
<1> QED BY <1>1, <1>2, <1>3, <1>4, <1>5, <1>6, <1>7 DEF Next, Return

\* For files, lines and numbers of any size, and whether or not the scan finds the
\* line, the algorithm takes no more than number + originalSize + 2 steps: each
\* brings the end nearer.
THEOREM StepsAreBounded == Spec => StepsBounded
<1>1. ASSUME Numbers, [Next]_vars PROVE [StepsLeft' < StepsLeft /\ StepsLeft' >= 0]_vars
  <2> USE <1>1 DEF Numbers
  <2>1. ASSUME NEW q \in 0 .. size, SkipLine(q)
        PROVE  StepsLeft' < StepsLeft /\ StepsLeft' >= 0
    BY <2>1 DEF SkipLine, StepsLeft, input
  <2>2. ASSUME NEW q \in 0 .. size, FindLine(q)
        PROVE  StepsLeft' < StepsLeft /\ StepsLeft' >= 0
    BY <2>2 DEF FindLine, StepsLeft, input
  <2>3. CASE Overwrite \/ Truncate \/ PutLine
    <3>1. StepsLeft' = 0
      BY <2>3 DEF Overwrite, Truncate, PutLine, StepsLeft
    <3>2. StepsLeft \in Int /\ StepsLeft > 0
      BY <2>3 DEF Overwrite, Truncate, PutLine, StepsLeft, OrZero
    <3> QED BY <3>1, <3>2
  <2>4. CASE StartBackward
    <3>1. /\ pc = "found" /\ pc' = "backward" /\ K < length /\ size = originalSize
          /\ size' = IF before + K > size THEN before + K ELSE size
          /\ writer' = before + K /\ fileSizeAfterReplacement' = size' + (K - length)
      BY <2>4 DEF StartBackward, WriteAt
    <3>2. OrZero(fileSizeAfterReplacement' - writer') < originalSize
      BY <3>1 DEF OrZero
    <3>3. StepsLeft = originalSize + 1
      BY <3>1 DEF StepsLeft
    <3>4. StepsLeft' = OrZero(fileSizeAfterReplacement' - writer') + 1
      BY <3>1 DEF StepsLeft, OrZero
    <3>5. OrZero(fileSizeAfterReplacement' - writer') \in Nat
      BY <3>1 DEF OrZero
    <3> QED BY <3>2, <3>3, <3>4, <3>5
  <2>5. CASE Backward
    <3>1. /\ pc = "backward" /\ pc' = "backward" /\ writer < fileSizeAfterReplacement
          /\ writer' = writer + 1 /\ fileSizeAfterReplacement' = fileSizeAfterReplacement
      BY <2>5 DEF Backward
    <3> QED BY <3>1 DEF StepsLeft, OrZero
  <2>6. CASE StartForward
    <3>1. /\ pc = "found" /\ pc' = "forward" /\ reader' = originalSize - 1
          /\ UNCHANGED <<before, length>>
      BY <2>6 DEF StartForward, scan
    <3> QED BY <3>1 DEF StepsLeft, OrZero
  <2>7. CASE Forward
    <3>1. /\ pc = "forward" /\ pc' = "forward" /\ reader >= before + length
          /\ reader' = reader - 1 /\ UNCHANGED <<before, length>>
      BY <2>7 DEF Forward, scan
    <3> QED BY <3>1 DEF StepsLeft, OrZero
  <2> QED BY <1>1, <2>1, <2>2, <2>3, <2>4, <2>5, <2>6, <2>7 DEF Next, Return
<1>2. Init => Numbers
  BY BytesAssumption DEF Init, Numbers
<1> QED BY <1>1, <1>2, NumbersStay, PTL DEF Spec, StepsBounded

\* While it scans, the algorithm always finds something to read: the line asked for
\* has not been passed, and readline stops somewhere.
ScanGoesOn ==
    pc = "scan" /\ Findable => position < size /\ \E q \in 0 .. size : StopsAt(position, q)

\* So the scan is never stuck; behind it one of the three cases, or a turn or the end
\* of a loop, always applies.
THEOREM ScanIsNeverStuck == Spec => []ScanGoesOn
<1>1. ASSUME IInv, pc = "scan" PROVE position < size /\ \E q \in 0 .. size : StopsAt(position, q)
  <2>1. InputOK /\ Unchanged /\ LineBegins(position, l) /\ l \in 0 .. number
    BY <1>1 DEF IInv, Scanning
  <2>2. originalSize \in Nat /\ number \in Nat /\ position \in 0 .. originalSize /\ size = originalSize
    BY <2>1 DEF InputOK, LineBegins, Unchanged
  <2>3. position < size
    <3> SUFFICES ASSUME position = originalSize PROVE FALSE
      BY <2>2
    <3>1. PICK p \in 0 .. originalSize - 1 : Cardinality(NewlinesBefore(p)) = number
      BY <2>1, <2>2 DEF InputOK, Findable, Named, IsLine
    <3>2. originalSize > 0 /\ original[originalSize - 1] = Newline
      BY <2>1, <2>2, <3>1 DEF LineBegins
    <3> DEFINE e == originalSize - 1
    <3>3. /\ p \in 0 .. originalSize /\ e \in p .. originalSize /\ e \in 0 .. originalSize
      BY <2>2, <3>1
    <3>4. IsFiniteSet(NewlinesBefore(e)) /\ number <= Cardinality(NewlinesBefore(e))
      BY <2>1, <3>1, <3>3, NewlinesFacts
    <3>5. NewlinesBefore(originalSize) = NewlinesBefore(e) \cup {e} /\ e \notin NewlinesBefore(e)
      BY <2>2, <3>2 DEF NewlinesBefore
    <3>6. Cardinality(NewlinesBefore(originalSize)) = Cardinality(NewlinesBefore(e)) + 1
      BY <3>4, <3>5, FS_AddElement
    <3>7. Cardinality(NewlinesBefore(e)) \in Nat /\ Cardinality(NewlinesBefore(originalSize)) = l
      BY <2>1, <3>4, FS_CardinalityType DEF LineBegins
    <3> QED BY <2>1, <2>2, <3>4, <3>6, <3>7
  <2> DEFINE S == {i \in position .. size : \/ i = size \/ i = position + LineMax
                                            \/ i < size /\ bytes[i] = Newline}
  <2>4. PICK q \in S : \A m \in S : q <= m
    <3>1. S \in SUBSET Nat /\ size \in S
      BY <2>2
    <3> HIDE DEF S
    <3> QED BY <3>1, LeastNumber
  <2>5. LineMax \in Nat
    BY BytesAssumption
  <2>6. q \in 0 .. size /\ q \in position .. size /\ q - position <= LineMax
    BY <2>2, <2>4, <2>5
  <2>7. \A i \in position .. q - 1 : bytes[i] # Newline
    <3> SUFFICES ASSUME NEW i \in position .. q - 1, bytes[i] = Newline PROVE FALSE
      OBVIOUS
    <3>1. i \in S /\ ~(q <= i)
      BY <2>2, <2>6
    <3> QED BY <2>4, <3>1
  <2>8. q < size /\ q - position < LineMax => bytes[q] = Newline
    BY <2>2, <2>4, <2>5
  <2> QED BY <2>3, <2>6, <2>7, <2>8 DEF StopsAt
<1> QED BY <1>1, Invariance, PTL DEF ScanGoesOn
=============================================================================
