--------------------------- MODULE ReadLineProofs ---------------------------
(***************************************************************************)
(* readlineFromSocket returns the lines that were sent, for any input, any *)
(* bound on the length of a line and any way the bytes are cut into        *)
(* segments.                                                               *)
(*                                                                         *)
(* The reference definitions are recursive functions.  That they satisfy   *)
(* their equations is shown first, by induction in the form the least      *)
(* number principle gives for sets.  The invariant then says that what     *)
(* was returned and what is in buf is what the reference makes of the      *)
(* bytes read so far.                                                      *)
(***************************************************************************)
EXTENDS ReadLine, SequenceTheorems, WellFoundedInduction, TLAPS

-----------------------------------------------------------------------------
(* The inductive invariant.                                                *)

Text == Seq(Letters)

ReadTypeOK ==
    /\ input \in Seq(Letters \cup LineEnds)
    /\ read \in 0 .. Len(input)
    /\ begin \in BOOLEAN
    /\ buf \in Text /\ Len(buf) < ALEN
    /\ commands \in Seq(Text)

\* The lines read completely were returned, and buf is the next one.
InStep == NonEmpty(commands) = Splits[read].lines /\ buf = Splits[read].text

\* A line end was read: the line in buf is complete.
LineEnded == NonEmpty(Append(commands, buf)) = Splits[read].lines /\ Splits[read].text = <<>>

\* The connection has ended, and the line without a line end was returned too.
AllReturned ==
    /\ read = Len(input)
    /\ Splits[read].text # <<>>
    /\ NonEmpty(commands) = Append(Splits[read].lines, Splits[read].text)

IInv ==
    /\ ReadTypeOK
    /\ pc = "line" => \/ InStep /\ (begin => Len(buf) <= 1)
                      \/ AllReturned /\ begin /\ buf = <<>>
    /\ pc = "end" => LineEnded \/ (read = Len(input) /\ InStep)
    /\ pc = "done" => \/ read = Len(input) /\ InStep /\ Len(buf) <= 1
                      \/ AllReturned
    /\ pc \in {"line", "end", "done"}

-----------------------------------------------------------------------------
(* Induction, and recursion on numbers.                                    *)

\* A set of numbers that is not empty has a least one.
LEMMA LeastNumber ==
    ASSUME NEW S \in SUBSET Nat, S # {}
    PROVE  \E n \in S : \A m \in S : n <= m
<1> DEFINE R == OpToRel(<, Nat)
<1>1. PICK n \in S : \A m \in S : ~(<<m, n>> \in R)
  <2>1. IsWellFoundedOn(R, Nat)
    BY NatLessThanWellFounded
  <2> HIDE DEF R
  <2> QED BY <2>1, WFMin, Zenon
<1>2. \A m \in S : m < n => <<m, n>> \in R
  BY DEF OpToRel
<1> HIDE DEF R
<1>3. \A m \in S : ~(m < n)
  BY <1>1, <1>2
<1> QED BY <1>3

\* Induction up to N, for the set of the numbers that have the property.
LEMMA Induction ==
    ASSUME NEW N \in Nat, NEW S, 0 \in S, \A n \in 1 .. N : n - 1 \in S => n \in S
    PROVE  \A n \in 0 .. N : n \in S
<1> DEFINE F == {n \in 0 .. N : n \notin S}
<1> SUFFICES ASSUME F # {} PROVE FALSE
  OBVIOUS
<1>1. F \in SUBSET Nat
  OBVIOUS
<1>2. PICK n \in F : \A m \in F : n <= m
  BY <1>1, LeastNumber
<1>3. n \in 0 .. N /\ n \notin S /\ n # 0
  BY <1>2
<1>4. n \in 1 .. N /\ n - 1 \in 0 .. N /\ ~(n <= n - 1)
  BY <1>3
<1>5. n - 1 \notin F
  BY <1>2, <1>4
<1> QED BY <1>3, <1>4, <1>5

\* A function f on 0 .. n that starts with base and goes on with step.
Follows(f, n, base, step) == f[0] = base /\ \A i \in 1 .. n : f[i] = step[i][f[i - 1]]

\* There is such a function.
LEMMA Recursion ==
    ASSUME NEW N \in Nat, NEW V, NEW base \in V, NEW step \in [1 .. N -> [V -> V]]
    PROVE  \E f \in [0 .. N -> V] : Follows(f, N, base, step)
<1> DEFINE S == {n \in 0 .. N : \E f \in [0 .. n -> V] : Follows(f, n, base, step)}
<1>1. 0 \in S
  <2> DEFINE f == [i \in 0 .. 0 |-> base]
  <2>1. f \in [0 .. 0 -> V] /\ Follows(f, 0, base, step)
    BY DEF Follows
  <2> QED BY <2>1
<1>2. ASSUME NEW n \in 1 .. N, n - 1 \in S
      PROVE  n \in S
  <2>1. PICK g \in [0 .. n - 1 -> V] : Follows(g, n - 1, base, step)
    BY <1>2
  <2> DEFINE f == [i \in 0 .. n |-> IF i = n THEN step[n][g[n - 1]] ELSE g[i]]
  <2>2. n - 1 \in 0 .. n - 1 /\ g[n - 1] \in V /\ step[n][g[n - 1]] \in V
    BY <2>1
  <2>3. f \in [0 .. n -> V]
    BY <2>2
  <2>4. f[0] = base
    BY <2>1 DEF Follows
  <2>5. ASSUME NEW i \in 1 .. n
        PROVE  f[i] = step[i][f[i - 1]]
    <3>1. f[i - 1] = g[i - 1]
      OBVIOUS
    <3>2. CASE i = n
      BY <3>1, <3>2
    <3>3. CASE i # n
      <4>1. i \in 1 .. n - 1 /\ f[i] = g[i]
        BY <3>3
      <4> QED BY <2>1, <3>1, <4>1 DEF Follows
    <3> QED BY <3>2, <3>3
  <2>6. Follows(f, n, base, step)
    BY <2>4, <2>5 DEF Follows
  <2> HIDE DEF f
  <2> QED BY <2>3, <2>6
<1> HIDE DEF S
<1>3. \A n \in 0 .. N : n \in S
  BY <1>1, <1>2, Induction
<1>4. N \in S
  BY <1>3
<1> QED BY <1>4 DEF S

-----------------------------------------------------------------------------
(* The lines of the input.                                                 *)

SplitType == [lines : Seq(Text), text : {x \in Text : Len(x) < ALEN}]

Start == [lines |-> <<>>, text |-> <<>>]

\* One byte more makes such a pair of such a pair.
LEMMA AddByteType ==
    ASSUME NEW x \in SplitType, NEW c \in Letters \cup LineEnds
    PROVE  AddByte(x, c) \in SplitType
<1>1. x.lines \in Seq(Text) /\ x.text \in Seq(Letters) /\ Len(x.text) \in Nat /\ Len(x.text) < ALEN
  BY DEF SplitType, Text
<1>2. ALEN \in Nat /\ ALEN > 1 /\ <<>> \in Text /\ Len(<<>>) = 0
  BY LineAssumption DEF Text
<1>3. CASE c \in LineEnds
  <2>1. CASE Len(x.text) > 0
    <3>1. AddByte(x, c) = [lines |-> Append(x.lines, x.text), text |-> <<>>]
      BY <1>3, <2>1 DEF AddByte
    <3>2. Append(x.lines, x.text) \in Seq(Text)
      BY <1>1 DEF Text
    <3> QED BY <1>2, <3>1, <3>2 DEF SplitType
  <2>2. CASE ~(Len(x.text) > 0)
    <3>1. AddByte(x, c) = [x EXCEPT !.text = x.text]
      BY <1>3, <2>2 DEF AddByte
    <3> QED BY <3>1 DEF SplitType
  <2> QED BY <2>1, <2>2
<1>4. CASE c \notin LineEnds
  <2>0. Append(x.text, c) \in Text /\ Len(Append(x.text, c)) = Len(x.text) + 1
    BY <1>1, <1>4 DEF Text
  <2>1. CASE Len(x.text) + 1 = ALEN
    <3>1. AddByte(x, c) = [lines |-> Append(x.lines, Append(x.text, c)), text |-> <<>>]
      BY <1>4, <2>1 DEF AddByte
    <3>2. Append(x.lines, Append(x.text, c)) \in Seq(Text)
      BY <1>1, <2>0
    <3> QED BY <1>2, <3>1, <3>2 DEF SplitType
  <2>2. CASE Len(x.text) + 1 # ALEN
    <3>1. AddByte(x, c) = [x EXCEPT !.text = Append(x.text, c)]
      BY <1>4, <2>2 DEF AddByte
    <3>2. Len(Append(x.text, c)) < ALEN
      BY <1>1, <1>2, <2>0, <2>2
    <3> QED BY <2>0, <3>1, <3>2 DEF SplitType
  <2> QED BY <2>1, <2>2
<1> QED BY <1>3, <1>4

\* The recursive function Splits is what its definition says.
LEMMA SplitsEquation ==
    ASSUME input \in Seq(Letters \cup LineEnds)
    PROVE  /\ Splits[0] = Start
           /\ \A n \in 1 .. Len(input) : Splits[n] = AddByte(Splits[n - 1], input[n])
           /\ \A n \in 0 .. Len(input) : Splits[n] \in SplitType
<1> DEFINE N == Len(input)
           step == [n \in 1 .. N |-> [x \in SplitType |-> AddByte(x, input[n])]]
<1>1. N \in Nat /\ \A n \in 1 .. N : input[n] \in Letters \cup LineEnds
  OBVIOUS
<1>2. Start \in SplitType
  BY LineAssumption DEF Start, SplitType, Text
<1>3. step \in [1 .. N -> [SplitType -> SplitType]]
  BY <1>1, AddByteType
<1>4. PICK f \in [0 .. N -> SplitType] : Follows(f, N, Start, step)
  <2> HIDE DEF step, N
  <2> QED BY <1>1, <1>2, <1>3, Recursion
<1>5. \A n \in 1 .. N : f[n] = AddByte(f[n - 1], input[n])
  <2> SUFFICES ASSUME NEW n \in 1 .. N PROVE f[n] = AddByte(f[n - 1], input[n])
    OBVIOUS
  <2>1. n - 1 \in 0 .. N /\ f[n - 1] \in SplitType /\ f[n] = step[n][f[n - 1]]
    BY <1>1, <1>4 DEF Follows
  <2> QED BY <2>1
<1>6. f = [n \in 0 .. N |-> IF n = 0 THEN Start ELSE AddByte(f[n - 1], input[n])]
  <2>1. ASSUME NEW n \in 0 .. N
        PROVE  f[n] = IF n = 0 THEN Start ELSE AddByte(f[n - 1], input[n])
    BY <1>1, <1>4, <1>5 DEF Follows
  <2> QED BY <2>1
<1>7. Splits = [n \in 0 .. N |-> IF n = 0 THEN Start ELSE AddByte(Splits[n - 1], input[n])]
  <2>1. Splits = CHOOSE g : g = [n \in 0 .. N |-> IF n = 0 THEN Start ELSE AddByte(g[n - 1], input[n])]
    BY DEF Splits, Start
  <2> HIDE DEF N
  <2> QED BY <1>6, <2>1
<1>8. /\ Splits[0] = Start
      /\ \A n \in 1 .. N : Splits[n] = AddByte(Splits[n - 1], input[n])
  BY <1>1, <1>7
<1>9. \A n \in 0 .. N : Splits[n] \in SplitType
  <2> DEFINE S == {n \in 0 .. N : Splits[n] \in SplitType}
  <2>1. 0 \in S
    BY <1>1, <1>2, <1>8
  <2>2. \A n \in 1 .. N : n - 1 \in S => n \in S
    BY <1>1, <1>8, AddByteType
  <2> HIDE DEF S
  <2>3. \A n \in 0 .. N : n \in S
    BY <1>1, <2>1, <2>2, Induction
  <2> QED BY <2>3 DEF S
<1> QED BY <1>8, <1>9

\* What a prefix is, element by element.
LEMMA PrefixElements ==
    ASSUME NEW S, NEW s \in Seq(S), NEW t \in Seq(S)
    PROVE  IsPrefix(s, t) <=> Len(s) <= Len(t) /\ \A i \in 1 .. Len(s) : s[i] = t[i]
<1>1. SubSeq(s, 1, Len(s)) = s
  BY SubSeqFull
<1>2. ASSUME Len(s) <= Len(t)
      PROVE  SubSeq(t, 1, Len(s)) = s <=> \A i \in 1 .. Len(s) : s[i] = t[i]
  <2> DEFINE u == SubSeq(t, 1, Len(s))
  <2>1. u \in Seq(S) /\ Len(u) = Len(s) /\ \A i \in 1 .. Len(s) : u[i] = t[i]
    BY <1>2
  <2> HIDE DEF u
  <2>2. ASSUME \A i \in 1 .. Len(s) : s[i] = t[i]
        PROVE  u = s
    <3>1. \A i \in 1 .. Len(u) : u[i] = s[i]
      BY <2>1, <2>2
    <3> QED BY <2>1, <3>1, SeqEqual
  <2>3. u = s => \A i \in 1 .. Len(s) : s[i] = t[i]
    BY <2>1
  <2> QED BY <2>2, <2>3 DEF u
<1> QED BY <1>1, <1>2 DEF IsPrefix

\* Every sequence is a prefix of itself and of what is appended to it, and so is
\* a prefix of a prefix.
LEMMA PrefixFacts ==
    ASSUME NEW S, NEW s \in Seq(S), NEW t \in Seq(S), NEW u \in Seq(S), NEW x \in S
    PROVE  /\ IsPrefix(s, s)
           /\ IsPrefix(s, Append(s, x))
           /\ IsPrefix(s, t) /\ IsPrefix(t, u) => IsPrefix(s, u)
<1>0. Len(s) \in Nat /\ Len(t) \in Nat /\ Len(u) \in Nat
  OBVIOUS
<1>1. IsPrefix(s, s)
  BY <1>0, PrefixElements
<1>2. IsPrefix(s, Append(s, x))
  <2> DEFINE v == Append(s, x)
  <2>1. v \in Seq(S) /\ Len(v) = Len(s) + 1 /\ \A i \in 1 .. Len(s) : v[i] = s[i]
    BY AppendProperties
  <2> HIDE DEF v
  <2>2. IsPrefix(s, v)
    BY <1>0, <2>1, PrefixElements
  <2> QED BY <2>2 DEF v
<1>3. ASSUME IsPrefix(s, t), IsPrefix(t, u)
      PROVE  IsPrefix(s, u)
  <2>1. Len(s) <= Len(t) /\ \A i \in 1 .. Len(s) : s[i] = t[i]
    BY <1>3, PrefixElements
  <2>2. Len(t) <= Len(u) /\ \A i \in 1 .. Len(t) : t[i] = u[i]
    BY <1>3, PrefixElements
  <2>3. Len(s) <= Len(u) /\ \A i \in 1 .. Len(s) : s[i] = u[i]
    BY <1>0, <2>1, <2>2
  <2> QED BY <2>3, PrefixElements
<1> QED BY <1>1, <1>2, <1>3

\* Complete lines stay.
LEMMA SplitsGrow ==
    ASSUME input \in Seq(Letters \cup LineEnds), NEW m \in 0 .. Len(input)
    PROVE  IsPrefix(Splits[m].lines, Split.lines)
<1> DEFINE N == Len(input)
           S == {n \in 0 .. N : m <= n => IsPrefix(Splits[m].lines, Splits[n].lines)}
<1>1. N \in Nat /\ \A n \in 0 .. N : Splits[n] \in SplitType
  BY SplitsEquation
<1>2. \A n \in 0 .. N : Splits[n].lines \in Seq(Text)
  BY <1>1 DEF SplitType
<1>3. <<>> \in Text /\ Splits[m].lines \in Seq(Text)
  BY <1>1, <1>2 DEF Text
<1>4. IsPrefix(Splits[m].lines, Splits[m].lines)
  BY <1>3, PrefixFacts
<1>5. 0 \in S
  <2>1. m <= 0 => m = 0
    OBVIOUS
  <2> QED BY <1>1, <1>4, <2>1
<1>6. ASSUME NEW n \in 1 .. N, n - 1 \in S
      PROVE  n \in S
  <2> SUFFICES ASSUME m <= n, m # n PROVE IsPrefix(Splits[m].lines, Splits[n].lines)
    BY <1>1, <1>4
  <2> DEFINE u == Splits[n - 1]
             c == input[n]
  <2>1. n - 1 \in 0 .. N /\ IsPrefix(Splits[m].lines, u.lines)
    BY <1>1, <1>6
  <2>2. Splits[n] = AddByte(u, c)
    BY SplitsEquation
  <2>3. /\ u \in SplitType /\ u.text \in Text /\ u.lines \in Seq(Text)
        /\ c \in Letters \cup LineEnds /\ AddByte(u, c).lines \in Seq(Text)
    BY <1>1, <1>2, <2>1, <2>2 DEF SplitType
  <2> HIDE DEF u, c
  <2>4. IsPrefix(u.lines, AddByte(u, c).lines)
    <3>1. CASE c \in LineEnds
      <4>1. AddByte(u, c).lines \in {u.lines, Append(u.lines, u.text)}
        BY <2>3, <3>1 DEF AddByte, SplitType
      <4>2. IsPrefix(u.lines, u.lines) /\ IsPrefix(u.lines, Append(u.lines, u.text))
        BY <2>3, PrefixFacts
      <4> QED BY <4>1, <4>2, Zenon
    <3>2. CASE c \notin LineEnds
      <4> DEFINE v == Append(u.text, c)
      <4>1. AddByte(u, c).lines \in {u.lines, Append(u.lines, v)}
        BY <2>3, <3>2 DEF AddByte, SplitType
      <4>2. v \in Text
        BY <2>3, <3>2 DEF Text
      <4> HIDE DEF v
      <4>3. IsPrefix(u.lines, u.lines) /\ IsPrefix(u.lines, Append(u.lines, v))
        BY <2>3, <4>2, PrefixFacts
      <4> QED BY <4>1, <4>3, Zenon
    <3> QED BY <3>1, <3>2
  <2> QED BY <1>3, <2>1, <2>2, <2>3, <2>4, PrefixFacts
<1> HIDE DEF S
<1>7. \A n \in 0 .. N : n \in S
  BY <1>1, <1>5, <1>6, Induction
<1>8. N \in S
  BY <1>1, <1>7
<1> QED BY <1>1, <1>8 DEF S, Split

-----------------------------------------------------------------------------
(* The commands that are not empty.                                        *)

\* The function in NonEmpty.
First(lines) ==
    CHOOSE f : f = [n \in 0 .. Len(lines) |->
                      IF n = 0 THEN <<>>
                      ELSE IF lines[n] = <<>> THEN f[n - 1] ELSE Append(f[n - 1], lines[n])]

\* It is what its definition says.
LEMMA FirstEquation ==
    ASSUME NEW lines \in Seq(Text)
    PROVE  /\ First(lines)[0] = <<>>
           /\ \A n \in 1 .. Len(lines) :
                 First(lines)[n] = IF lines[n] = <<>> THEN First(lines)[n - 1]
                                   ELSE Append(First(lines)[n - 1], lines[n])
           /\ \A n \in 0 .. Len(lines) : First(lines)[n] \in Seq(Text)
<1> DEFINE N == Len(lines)
           Add(x, n) == IF lines[n] = <<>> THEN x ELSE Append(x, lines[n])
           step == [n \in 1 .. N |-> [x \in Seq(Text) |-> Add(x, n)]]
<1>1. N \in Nat /\ \A n \in 1 .. N : lines[n] \in Text
  OBVIOUS
<1>2. <<>> \in Seq(Text)
  OBVIOUS
<1>3. \A n \in 1 .. N : \A x \in Seq(Text) : Add(x, n) \in Seq(Text)
  BY <1>1
<1>4. step \in [1 .. N -> [Seq(Text) -> Seq(Text)]]
  <2> HIDE DEF Add, N
  <2> QED BY <1>3
<1>5. PICK f \in [0 .. N -> Seq(Text)] : Follows(f, N, <<>>, step)
  <2> HIDE DEF step, N
  <2> QED BY <1>1, <1>2, <1>4, Recursion
<1>6. \A n \in 1 .. N : f[n] = Add(f[n - 1], n)
  <2> SUFFICES ASSUME NEW n \in 1 .. N PROVE f[n] = Add(f[n - 1], n)
    OBVIOUS
  <2>1. n - 1 \in 0 .. N
    BY <1>1
  <2>2. f[n] = step[n][f[n - 1]]
    <3> HIDE DEF step, N
    <3> QED BY <1>5 DEF Follows
  <2> HIDE DEF Add, N
  <2> QED BY <2>1, <2>2
<1>7. f = [n \in 0 .. N |-> IF n = 0 THEN <<>> ELSE Add(f[n - 1], n)]
  <2>1. ASSUME NEW n \in 0 .. N
        PROVE  f[n] = IF n = 0 THEN <<>> ELSE Add(f[n - 1], n)
    <3> HIDE DEF Add
    <3> QED BY <1>1, <1>5, <1>6 DEF Follows
  <2> HIDE DEF Add
  <2> QED BY <2>1
<1> DEFINE F == First(lines)
<1>8. F = [n \in 0 .. N |-> IF n = 0 THEN <<>> ELSE Add(F[n - 1], n)]
  <2>1. F = CHOOSE g : g = [n \in 0 .. N |-> IF n = 0 THEN <<>> ELSE Add(g[n - 1], n)]
    BY DEF First
  <2> HIDE DEF N, Add, F
  <2> QED BY <1>7, <2>1
<1> HIDE DEF F
<1>9. F[0] = <<>>
  BY <1>1, <1>8
<1>10. \A n \in 1 .. N : F[n] = Add(F[n - 1], n)
  <2> HIDE DEF Add
  <2> QED BY <1>1, <1>8
<1>11. \A n \in 0 .. N : F[n] \in Seq(Text)
  <2> DEFINE S == {n \in 0 .. N : F[n] \in Seq(Text)}
  <2> HIDE DEF Add
  <2>1. 0 \in S
    <3>1. 0 \in 0 .. N
      BY <1>1
    <3>2. F[0] \in Seq(Text)
      BY <1>2, <1>9, Zenon
    <3> HIDE DEF N
    <3> QED BY <3>1, <3>2, Zenon
  <2>2. \A n \in 1 .. N : n - 1 \in S => n \in S
    BY <1>1, <1>3, <1>10
  <2> HIDE DEF S
  <2>3. \A n \in 0 .. N : n \in S
    BY <1>1, <2>1, <2>2, Induction
  <2> QED BY <2>3 DEF S
<1> QED BY <1>9, <1>10, <1>11 DEF F

\* NonEmpty, one command more at a time.
LEMMA NonEmptyFacts ==
    /\ NonEmpty(<<>>) = <<>>
    /\ \A lines \in Seq(Text) : NonEmpty(lines) \in Seq(Text)
    /\ \A lines \in Seq(Text), x \in Text :
          NonEmpty(Append(lines, x)) = IF x = <<>> THEN NonEmpty(lines)
                                       ELSE Append(NonEmpty(lines), x)
<1>0. \A lines : NonEmpty(lines) = First(lines)[Len(lines)]
  BY DEF NonEmpty, First
<1>1. NonEmpty(<<>>) = <<>>
  <2>1. <<>> \in Seq(Text) /\ Len(<<>>) = 0
    OBVIOUS
  <2>2. First(<<>>)[0] = <<>>
    BY <2>1, FirstEquation
  <2> QED BY <1>0, <2>1, <2>2
<1>2. ASSUME NEW lines \in Seq(Text)
      PROVE  NonEmpty(lines) \in Seq(Text)
  <2>1. Len(lines) \in 0 .. Len(lines)
    OBVIOUS
  <2> QED BY <1>0, <2>1, FirstEquation
<1>3. ASSUME NEW lines \in Seq(Text), NEW x \in Text
      PROVE  NonEmpty(Append(lines, x)) = IF x = <<>> THEN NonEmpty(lines)
                                          ELSE Append(NonEmpty(lines), x)
  <2> DEFINE more == Append(lines, x)
             N == Len(lines)
             F == First(lines)
             G == First(more)
             S == {n \in 0 .. N : F[n] = G[n]}
  <2>1. /\ N \in Nat /\ more \in Seq(Text) /\ Len(more) = N + 1
        /\ \A i \in 1 .. N : more[i] = lines[i]
        /\ more[N + 1] = x
    BY AppendProperties
  <2> HIDE DEF more
  <2>2. F[0] = <<>> /\ \A n \in 1 .. N : F[n] = IF lines[n] = <<>> THEN F[n - 1]
                                                ELSE Append(F[n - 1], lines[n])
    BY FirstEquation
  <2>3. G[0] = <<>> /\ \A n \in 1 .. Len(more) : G[n] = IF more[n] = <<>> THEN G[n - 1]
                                                        ELSE Append(G[n - 1], more[n])
    BY <2>1, FirstEquation
  <2> HIDE DEF F, G, N
  <2>4. 0 \in S
    BY <2>1, <2>2, <2>3
  <2>5. ASSUME NEW n \in 1 .. N, n - 1 \in S
        PROVE  n \in S
    <3>1. F[n] = IF lines[n] = <<>> THEN F[n - 1] ELSE Append(F[n - 1], lines[n])
      BY <2>2
    <3>2. n \in 1 .. Len(more) /\ more[n] = lines[n]
      BY <2>1
    <3>3. G[n] = IF more[n] = <<>> THEN G[n - 1] ELSE Append(G[n - 1], more[n])
      BY <2>3, <3>2
    <3>4. F[n - 1] = G[n - 1]
      BY <2>5
    <3> QED BY <2>1, <3>1, <3>2, <3>3, <3>4
  <2> HIDE DEF S
  <2>6. \A n \in 0 .. N : n \in S
    BY <2>1, <2>4, <2>5, Induction
  <2>7. N \in S
    BY <2>1, <2>6
  <2>8. F[N] = G[N]
    BY <2>7 DEF S
  <2>9. N + 1 \in 1 .. Len(more) /\ N + 1 - 1 = N
    BY <2>1
  <2>10. G[N + 1] = IF x = <<>> THEN G[N] ELSE Append(G[N], x)
    BY <2>1, <2>3, <2>9
  <2>11. NonEmpty(lines) = F[N] /\ NonEmpty(more) = G[N + 1]
    BY <1>0, <2>1 DEF F, G, N
  <2> QED BY <2>8, <2>10, <2>11 DEF more
<1> QED BY <1>1, <1>2, <1>3

-----------------------------------------------------------------------------
(* Every step keeps the invariant.                                         *)

\* What the invariant says of the bytes read so far.
LEMMA ReadFacts ==
    ASSUME IInv
    PROVE  /\ Splits[read] \in SplitType
           /\ Splits[read].lines \in Seq(Text) /\ Splits[read].text \in Text
           /\ Len(Splits[read].text) < ALEN
           /\ NonEmpty(commands) \in Seq(Text) /\ NonEmpty(Append(commands, buf)) \in Seq(Text)
<1>1. Splits[read] \in SplitType
  BY SplitsEquation DEF IInv, ReadTypeOK
<1>2. commands \in Seq(Text) /\ Append(commands, buf) \in Seq(Text)
  BY DEF IInv, ReadTypeOK
<1> QED BY <1>1, <1>2, NonEmptyFacts DEF SplitType

\* The next byte, as the reference sees it.
LEMMA NextByteFacts ==
    ASSUME IInv, Available, read' = read + 1, input' = input
    PROVE  /\ read' \in 0 .. Len(input) /\ NextByte \in Letters \cup LineEnds
           /\ Splits'[read'] = AddByte(Splits[read], NextByte)
<1>1. input \in Seq(Letters \cup LineEnds) /\ read \in 0 .. Len(input) /\ read < Len(input)
  BY DEF IInv, ReadTypeOK, Available
<1>2. read' \in 1 .. Len(input) /\ read' - 1 = read
  BY <1>1
<1>3. Splits[read'] = AddByte(Splits[read], input[read'])
  BY <1>1, <1>2, SplitsEquation
<1>4. Splits' = Splits
  BY DEF Splits, AddByte
<1> QED BY <1>1, <1>2, <1>3, <1>4 DEF NextByte

\* A line end completes the line, if there is one.
LEMMA AddLineEnd ==
    ASSUME NEW x \in SplitType, NEW c \in LineEnds
    PROVE  /\ AddByte(x, c).text = <<>>
           /\ AddByte(x, c).lines = IF x.text = <<>> THEN x.lines ELSE Append(x.lines, x.text)
<1>1. x.text \in Seq(Letters) /\ Len(x.text) \in Nat /\ (x.text = <<>> <=> Len(x.text) = 0)
  BY EmptySeq DEF SplitType, Text
<1> QED BY <1>1 DEF AddByte, SplitType

\* A letter belongs to the line, which may be full.
LEMMA AddLetter ==
    ASSUME NEW x \in SplitType, NEW c \in Letters
    PROVE  /\ Len(x.text) + 1 = ALEN =>
                 AddByte(x, c) = [lines |-> Append(x.lines, Append(x.text, c)), text |-> <<>>]
           /\ Len(x.text) + 1 # ALEN =>
                 AddByte(x, c).lines = x.lines /\ AddByte(x, c).text = Append(x.text, c)
<1>1. c \notin LineEnds
  BY LineAssumption
<1> QED BY <1>1 DEF AddByte, SplitType

\* A letter of a line.
LEMMA ReadLetterKeepsInvariant ==
    ASSUME IInv, ReadLetter
    PROVE  IInv'
<1> DEFINE x == Splits[read]
           c == NextByte
<1>1. /\ pc = "line" /\ Available /\ c \notin LineEnds /\ read' = read + 1 /\ input' = input
      /\ read < Len(input)
  BY DEF ReadLetter, Available
<1>2. /\ read' \in 0 .. Len(input) /\ c \in Letters
      /\ Splits'[read'] = AddByte(x, c)
  BY <1>1, NextByteFacts
<1>3. x \in SplitType /\ NonEmpty(commands) = x.lines /\ buf = x.text
  <2>1. read # Len(input)
    BY <1>1 DEF IInv, ReadTypeOK
  <2> QED BY <1>1, <2>1, ReadFacts DEF IInv, InStep, AllReturned
<1>4. /\ buf \in Text /\ Len(buf) \in Nat /\ Len(buf) < ALEN /\ commands \in Seq(Text)
      /\ ALEN \in Nat /\ ALEN > 1 /\ <<>> \in Text /\ Len(<<>>) = 0
      /\ Append(buf, c) \in Text /\ Len(Append(buf, c)) = Len(buf) + 1
      /\ input \in Seq(Letters \cup LineEnds)
  BY <1>2, LineAssumption DEF IInv, ReadTypeOK, Text
<1> HIDE DEF x, c
<1>5. CASE Len(buf) + 1 = ALEN
  <2>1. commands' = Append(commands, Append(buf, c)) /\ buf' = <<>> /\ begin' = TRUE /\ pc' = "line"
    BY <1>5 DEF ReadLetter, Return, c
  <2>2. Splits'[read'].lines = Append(x.lines, Append(buf, c)) /\ Splits'[read'].text = <<>>
    BY <1>2, <1>3, <1>5, AddLetter
  <2>3. NonEmpty(commands') = Append(NonEmpty(commands), Append(buf, c))
    <3>1. Append(buf, c) # <<>>
      BY <1>2, <1>4, AppendProperties DEF Text
    <3> QED BY <1>4, <2>1, <3>1, NonEmptyFacts
  <2>4. ReadTypeOK'
    BY <1>1, <1>2, <1>4, <2>1 DEF ReadTypeOK
  <2>5. InStep' /\ Len(buf') <= 1
    BY <1>3, <1>4, <2>1, <2>2, <2>3 DEF InStep
  <2> QED BY <2>1, <2>4, <2>5 DEF IInv
<1>6. CASE Len(buf) + 1 # ALEN
  <2>1. commands' = commands /\ buf' = Append(buf, c) /\ begin' = FALSE /\ pc' = "line"
    BY <1>1, <1>6 DEF ReadLetter, c
  <2>2. Splits'[read'].lines = x.lines /\ Splits'[read'].text = Append(buf, c)
    BY <1>2, <1>3, <1>6, AddLetter
  <2>3. Len(buf') < ALEN
    BY <1>4, <1>6, <2>1
  <2>4. ReadTypeOK'
    BY <1>1, <1>2, <1>4, <2>1, <2>3 DEF ReadTypeOK
  <2>5. InStep'
    BY <1>3, <2>1, <2>2 DEF InStep
  <2> QED BY <2>1, <2>4, <2>5 DEF IInv
<1> QED BY <1>5, <1>6

\* The first byte of a line end.
LEMMA ReadLineEndKeepsInvariant ==
    ASSUME IInv, ReadLineEnd
    PROVE  IInv'
<1> DEFINE x == Splits[read]
           c == NextByte
<1>1. /\ pc = "line" /\ Available /\ c \in LineEnds /\ read' = read + 1 /\ read < Len(input)
      /\ pc' = "end" /\ UNCHANGED <<input, begin, buf, commands>>
  BY DEF ReadLineEnd, Available
<1>2. read' \in 0 .. Len(input) /\ Splits'[read'] = AddByte(x, c)
  BY <1>1, NextByteFacts
<1>3. x \in SplitType /\ NonEmpty(commands) = x.lines /\ buf = x.text
  <2>1. read # Len(input)
    BY <1>1 DEF IInv, ReadTypeOK
  <2> QED BY <1>1, <2>1, ReadFacts DEF IInv, InStep, AllReturned
<1>4. commands \in Seq(Text) /\ buf \in Text
  BY DEF IInv, ReadTypeOK
<1>5. NonEmpty(Append(commands, buf)) = IF buf = <<>> THEN NonEmpty(commands)
                                        ELSE Append(NonEmpty(commands), buf)
  BY <1>4, NonEmptyFacts
<1> HIDE DEF x, c
<1>6. LineEnded'
  BY <1>1, <1>2, <1>3, <1>5, AddLineEnd DEF LineEnded
<1>7. ReadTypeOK'
  BY <1>1, <1>2 DEF IInv, ReadTypeOK
<1> QED BY <1>1, <1>6, <1>7 DEF IInv

\* The rest of a line end.
LEMMA SkipLineEndKeepsInvariant ==
    ASSUME IInv, SkipLineEnd
    PROVE  IInv'
<1> DEFINE x == Splits[read]
           c == NextByte
<1>1. /\ pc = "end" /\ Available /\ c \in LineEnds /\ read' = read + 1 /\ read < Len(input)
      /\ UNCHANGED <<input, pc, begin, buf, commands>>
  BY DEF SkipLineEnd, Available
<1>2. read' \in 0 .. Len(input) /\ Splits'[read'] = AddByte(x, c)
  BY <1>1, NextByteFacts
<1>3. x \in SplitType /\ NonEmpty(Append(commands, buf)) = x.lines /\ x.text = <<>>
  <2>1. read # Len(input)
    BY <1>1 DEF IInv, ReadTypeOK
  <2> QED BY <1>1, <2>1, ReadFacts DEF IInv, LineEnded
<1> HIDE DEF x, c
<1>4. LineEnded'
  BY <1>1, <1>2, <1>3, AddLineEnd DEF LineEnded
<1>5. ReadTypeOK'
  BY <1>1, <1>2 DEF IInv, ReadTypeOK
<1> QED BY <1>1, <1>4, <1>5 DEF IInv

\* The byte after a line end is kept for the next line.
LEMMA KeepResidueKeepsInvariant ==
    ASSUME IInv, KeepResidue
    PROVE  IInv'
<1> DEFINE x == Splits[read]
           c == NextByte
<1>1. /\ pc = "end" /\ Available /\ c \notin LineEnds /\ read' = read + 1 /\ read < Len(input)
      /\ commands' = Append(commands, buf) /\ buf' = <<c>> /\ begin' = TRUE /\ pc' = "line"
      /\ input' = input
  BY DEF KeepResidue, Available, Return
<1>2. read' \in 0 .. Len(input) /\ c \in Letters /\ Splits'[read'] = AddByte(x, c)
  BY <1>1, NextByteFacts
<1>3. x \in SplitType /\ NonEmpty(Append(commands, buf)) = x.lines /\ x.text = <<>>
  <2>1. read # Len(input)
    BY <1>1 DEF IInv, ReadTypeOK
  <2> QED BY <1>1, <2>1, ReadFacts DEF IInv, LineEnded
<1> HIDE DEF x, c
<1>4. Len(x.text) + 1 # ALEN /\ Append(x.text, c) = <<c>>
  BY <1>2, <1>3, LineAssumption
<1>5. InStep'
  BY <1>1, <1>2, <1>3, <1>4, AddLetter DEF InStep
<1>6. buf' \in Text /\ Len(buf') = 1 /\ 1 < ALEN
  BY <1>1, <1>2, LineAssumption DEF Text
<1>7. commands' \in Seq(Text)
  BY <1>1 DEF IInv, ReadTypeOK
<1>8. ReadTypeOK'
  BY <1>1, <1>2, <1>6, <1>7 DEF IInv, ReadTypeOK
<1> QED BY <1>1, <1>5, <1>6, <1>8 DEF IInv

\* The line is returned without looking further: a line end was read, or the
\* connection is at its end.
LEMMA NothingMoreKeepsInvariant ==
    ASSUME IInv, NothingMore
    PROVE  IInv'
<1> DEFINE x == Splits[read]
<1>1. /\ pc = "end" /\ commands' = Append(commands, buf)
      /\ buf' = <<>> /\ begin' = TRUE /\ pc' = "line"
      /\ UNCHANGED <<input, read>>
  BY DEF NothingMore, Return
<1>2. Splits'[read'] = x
  <2>1. Splits' = Splits
    BY <1>1 DEF Splits, AddByte
  <2> QED BY <1>1, <2>1
<1>3. <<>> \in Text /\ Len(<<>>) = 0 /\ 0 < ALEN
  BY LineAssumption DEF Text
<1>4. commands \in Seq(Text) /\ buf \in Text /\ commands' \in Seq(Text)
  BY <1>1 DEF IInv, ReadTypeOK
<1>5. ReadTypeOK'
  BY <1>1, <1>3, <1>4 DEF IInv, ReadTypeOK
<1> HIDE DEF x
<1>6. CASE LineEnded
  <2>1. InStep'
    BY <1>1, <1>2, <1>6 DEF LineEnded, InStep, x
  <2> QED BY <1>1, <1>3, <1>5, <2>1 DEF IInv
<1>7. CASE read = Len(input) /\ InStep
  <2>1. NonEmpty(commands') = IF buf = <<>> THEN NonEmpty(commands)
                              ELSE Append(NonEmpty(commands), buf)
    BY <1>1, <1>4, NonEmptyFacts
  <2>2. CASE buf = <<>>
    <3>1. InStep'
      BY <1>1, <1>2, <1>7, <2>1, <2>2 DEF InStep, x
    <3> QED BY <1>1, <1>3, <1>5, <3>1 DEF IInv
  <2>3. CASE buf # <<>>
    <3>1. AllReturned'
      BY <1>1, <1>2, <1>7, <2>1, <2>3 DEF InStep, AllReturned, x
    <3> QED BY <1>1, <1>5, <3>1 DEF IInv
  <2> QED BY <2>2, <2>3
<1> QED BY <1>1, <1>6, <1>7 DEF IInv

\* A step that reads and returns nothing.
LEMMA QuietKeepsInvariant ==
    ASSUME IInv, Arrive \/ ReadEnd \/ UNCHANGED vars
    PROVE  IInv'
<1>1. UNCHANGED <<input, read, begin, buf, commands>>
  BY DEF Arrive, ReadEnd, vars
<1>2. Splits' = Splits
  BY <1>1 DEF Splits, AddByte
<1>3. /\ ReadTypeOK' /\ (InStep' <=> InStep) /\ (LineEnded' <=> LineEnded)
      /\ (AllReturned' <=> AllReturned)
  BY <1>1, <1>2 DEF IInv, ReadTypeOK, InStep, LineEnded, AllReturned
<1>4. CASE pc' = pc
  BY <1>1, <1>3, <1>4 DEF IInv
<1>5. CASE ReadEnd
  <2>1. pc = "line" /\ read = Len(input) /\ pc' = IF begin THEN "done" ELSE "end"
    BY <1>5 DEF ReadEnd, AtEnd
  <2> QED BY <1>1, <1>3, <2>1 DEF IInv
<1> QED BY <1>4, <1>5 DEF Arrive, vars

\* What the invariant is for.
LEMMA InvariantSuffices ==
    ASSUME IInv
    PROVE  CommandsAsSent
<1> DEFINE x == Splits[read]
<1>1. /\ input \in Seq(Letters \cup LineEnds) /\ read \in 0 .. Len(input) /\ Len(input) \in 0 .. Len(input)
      /\ buf \in Text /\ commands \in Seq(Text)
  BY DEF IInv, ReadTypeOK
<1>2. /\ x.lines \in Seq(Text) /\ x.text \in Text /\ NonEmpty(commands) \in Seq(Text)
      /\ Split.lines \in Seq(Text) /\ Split.text \in Text /\ Sent \in Seq(Text)
  BY <1>1, ReadFacts, SplitsEquation DEF Split, SplitType, Sent
<1>3. IsPrefix(x.lines, Split.lines) /\ IsPrefix(Split.lines, Sent)
  BY <1>1, <1>2, SplitsGrow, PrefixFacts DEF Sent
<1>4. read = Len(input) => x = Split
  BY DEF Split
<1> HIDE DEF x
<1>5. IsPrefix(x.lines, Sent)
  BY <1>2, <1>3, PrefixFacts
<1>6. CASE InStep
  <2>1. NonEmpty(commands) = x.lines /\ buf = x.text
    BY <1>6 DEF InStep, x
  <2>2. ASSUME pc = "done"
        PROVE  \/ NonEmpty(commands) = Sent
               \/ Len(Split.text) = 1 /\ NonEmpty(commands) = Split.lines
    <3>1. CASE AllReturned
      BY <1>4, <3>1 DEF AllReturned, Sent, x
    <3>2. CASE read = Len(input) /\ Len(buf) <= 1
      <4>1. x = Split /\ Len(buf) \in Nat /\ (buf = <<>> <=> Len(buf) = 0)
        BY <1>1, <1>4, <3>2, EmptySeq DEF Text
      <4>2. CASE buf = <<>>
        BY <2>1, <4>1, <4>2 DEF Sent
      <4>3. CASE buf # <<>>
        <5>1. Len(buf) = 1
          <6>1. Len(buf) # 0
            BY <4>1, <4>3, Zenon
          <6>2. \A n \in Nat : n <= 1 /\ n # 0 => n = 1
            OBVIOUS
          <6> QED BY <3>2, <4>1, <6>1, <6>2, Zenon
        <5> QED BY <2>1, <4>1, <5>1
      <4> QED BY <4>2, <4>3
    <3> QED BY <2>2, <3>1, <3>2 DEF IInv
  <2> QED BY <1>5, <2>1, <2>2 DEF CommandsAsSent
<1>7. CASE AllReturned
  <2>1. NonEmpty(commands) = Sent
    BY <1>4, <1>7 DEF AllReturned, Sent, x
  <2>2. IsPrefix(Sent, Sent)
    BY <1>1, <1>2, PrefixFacts
  <2> QED BY <2>1, <2>2 DEF CommandsAsSent
<1>8. CASE LineEnded /\ pc = "end"
  <2>1. NonEmpty(Append(commands, buf)) \in {NonEmpty(commands), Append(NonEmpty(commands), buf)}
    BY <1>1, NonEmptyFacts
  <2> DEFINE lines == NonEmpty(commands)
  <2> HIDE DEF lines
  <2>2. lines \in Seq(Text) /\ x.lines \in {lines, Append(lines, buf)}
    BY <1>2, <1>8, <2>1 DEF LineEnded, lines, x
  <2>3. IsPrefix(lines, x.lines)
    BY <1>1, <2>2, PrefixFacts
  <2>4. IsPrefix(lines, Sent)
    BY <1>1, <1>2, <1>5, <2>2, <2>3, PrefixFacts
  <2> QED BY <1>8, <2>4 DEF CommandsAsSent, lines
<1> QED BY <1>6, <1>7, <1>8 DEF IInv

-----------------------------------------------------------------------------

\* However many bytes the client sends, however long its lines are and however the
\* bytes are cut into segments, readlineFromSocket returns the lines that were sent;
\* at most a single byte after the last line end is lost.
THEOREM CommandsAreAsSent == Spec => []CommandsAsSent
<1>1. Init => IInv
  <2> SUFFICES ASSUME Init PROVE IInv
    OBVIOUS
  <2>1. input \in Seq(Letters \cup LineEnds)
    <3>1. PICK n \in 0 .. MaxInput : input \in [1 .. n -> Letters \cup LineEnds]
      BY DEF Init
    <3>2. n \in Nat
      BY LineAssumption
    <3> QED BY <3>1, <3>2, SeqDef
  <2>2. <<>> \in Text /\ Len(<<>>) = 0 /\ 0 < ALEN /\ <<>> \in Seq(Text)
    BY LineAssumption DEF Text
  <2>3. ReadTypeOK
    BY <2>1, <2>2 DEF Init, ReadTypeOK
  <2>4. InStep
    BY <2>1, NonEmptyFacts, SplitsEquation DEF Init, InStep, Start
  <2> QED BY <2>2, <2>3, <2>4 DEF Init, IInv
<1>2. IInv /\ [Next]_vars => IInv'
  BY ReadLetterKeepsInvariant, ReadLineEndKeepsInvariant, SkipLineEndKeepsInvariant,
     KeepResidueKeepsInvariant, NothingMoreKeepsInvariant, QuietKeepsInvariant DEF Next
<1>3. IInv => CommandsAsSent
  BY InvariantSuffices
<1> QED BY <1>1, <1>2, <1>3, PTL DEF Spec
=============================================================================
