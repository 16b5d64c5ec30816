------------------------------ MODULE ReadLine ------------------------------
(***************************************************************************)
(* readlineFromSocket (tcp-utils.cpp): how the bytes of a client become    *)
(* the commands of a session.  The bytes arrive one by one at any time;    *)
(* read waits for the next one, recv_nonblock with timeout 0 sees only     *)
(* what has arrived.  After a line end the function swallows the rest of   *)
(* it, and the first byte beyond it is kept in residue for the next call.  *)
(***************************************************************************)
EXTENDS Naturals, Sequences, SequencesExt

CONSTANTS
    Letters,     \* the bytes that are not line ends
    LineEnds,    \* '\r' and '\n'
    MaxInput,    \* bound on the bytes a client sends
    ALEN         \* the most bytes a line can have (the code passes its ALEN - 1)

ASSUME LineAssumption ==
    /\ Letters \cap LineEnds = {}
    /\ MaxInput \in Nat
    /\ ALEN \in Nat \ {0, 1}

VARIABLES
    input,      \* everything the client sends before it closes the connection
    arrived,    \* how much of it has arrived; one more: the end too
    read,       \* how much of it the server has read
    pc,         \* "line", "end" (the do loop), "done" (recv_nodata)
    begin,
    buf,        \* the line so far; it begins with the residue
    commands    \* the lines returned so far

vars == <<input, arrived, read, pc, begin, buf, commands>>

Init ==
    /\ input \in UNION {[1 .. n -> Letters \cup LineEnds] : n \in 0 .. MaxInput}
    /\ arrived = 0 /\ read = 0
    /\ pc = "line" /\ begin = TRUE
    /\ buf = <<>> /\ commands = <<>>

Available == read < arrived /\ read < Len(input)
AtEnd == read = Len(input) /\ arrived > Len(input)
NextByte == input[read + 1]

Arrive ==
    /\ arrived <= Len(input)
    /\ arrived' = arrived + 1
    /\ UNCHANGED <<input, read, pc, begin, buf, commands>>

\* The line is returned, and the next call starts with the residue.
Return(text, residue) ==
    /\ commands' = Append(commands, text)
    /\ buf' = residue
    /\ begin' = TRUE
    /\ pc' = "line"

ReadLetter ==
    /\ pc = "line" /\ Available /\ NextByte \notin LineEnds
    /\ read' = read + 1
    /\ IF Len(buf) + 1 = ALEN
       THEN Return(Append(buf, NextByte), <<>>)
       ELSE buf' = Append(buf, NextByte) /\ begin' = FALSE /\ UNCHANGED <<pc, commands>>
    /\ UNCHANGED <<input, arrived>>

ReadLineEnd ==
    /\ pc = "line" /\ Available /\ NextByte \in LineEnds
    /\ read' = read + 1
    /\ pc' = "end"
    /\ UNCHANGED <<input, arrived, begin, buf, commands>>

\* read returns 0: nothing more, or the end of a line without a line end.
ReadEnd ==
    /\ pc = "line" /\ AtEnd
    /\ pc' = IF begin THEN "done" ELSE "end"
    /\ UNCHANGED <<input, arrived, read, begin, buf, commands>>

SkipLineEnd ==
    /\ pc = "end" /\ Available /\ NextByte \in LineEnds
    /\ read' = read + 1
    /\ UNCHANGED <<input, arrived, pc, begin, buf, commands>>

BugResidueDropped ==
    /\ pc = "end" /\ Available /\ NextByte \notin LineEnds
    /\ read' = read + 1
    /\ Return(buf, <<>>)
    /\ UNCHANGED <<input, arrived>>

KeepResidue ==
    /\ pc = "end" /\ Available /\ NextByte \notin LineEnds
    /\ read' = read + 1
    /\ Return(buf, <<NextByte>>)
    /\ UNCHANGED <<input, arrived>>

\* Nothing has arrived, or the connection is at its end.
NothingMore ==
    /\ pc = "end" /\ ~Available
    /\ Return(buf, <<>>)
    /\ UNCHANGED <<input, arrived, read>>

Next ==
    \/ Arrive
    \/ ReadLetter \/ ReadLineEnd \/ ReadEnd
    \/ SkipLineEnd \/ KeepResidue \/ NothingMore

Spec == Init /\ [][Next]_vars

-----------------------------------------------------------------------------
(* The reference: a line is what stands between line ends, in pieces of at *)
(* most ALEN bytes; what follows the last line end is a line of its own.    *)

AddByte(split, c) ==
    IF c \in LineEnds /\ Len(split.text) > 0
    THEN [lines |-> Append(split.lines, split.text), text |-> <<>>]
    ELSE IF c \notin LineEnds /\ Len(split.text) + 1 = ALEN
    THEN [lines |-> Append(split.lines, Append(split.text, c)), text |-> <<>>]
    ELSE [split EXCEPT !.text = IF c \in LineEnds THEN @ ELSE Append(@, c)]

\* What the first n bytes amount to: the lines that are complete, and the next one.
Splits[n \in 0 .. Len(input)] ==
    IF n = 0 THEN [lines |-> <<>>, text |-> <<>>] ELSE AddByte(Splits[n - 1], input[n])

Split == Splits[Len(input)]

Sent == IF Split.text = <<>> THEN Split.lines ELSE Append(Split.lines, Split.text)

NonEmpty(lines) ==
    LET first[n \in 0 .. Len(lines)] ==
            IF n = 0 THEN <<>>
            ELSE IF lines[n] = <<>> THEN first[n - 1] ELSE Append(first[n - 1], lines[n])
    IN  first[Len(lines)]

\* However the bytes are cut into segments, the commands that are not empty are
\* the lines the client has sent, in order, none lost, cut or joined.  Only what
\* follows the last line end may be lost, if it is a single byte (the residue at
\* the end of the connection).  Code: residue, and the do loop.
CommandsAsSent ==
    /\ IsPrefix(NonEmpty(commands), Sent)
    /\ pc = "done" =>
         \/ NonEmpty(commands) = Sent
         \/ Len(Split.text) = 1 /\ NonEmpty(commands) = Split.lines
=============================================================================
