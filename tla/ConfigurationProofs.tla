------------------------- MODULE ConfigurationProofs -------------------------
(***************************************************************************)
(* A reload gives the settings of the file the values a start would give   *)
(* them, for files and command lines of any length.                        *)
(*                                                                         *)
(* What readConfigurationParametersFromFile makes of a file is a recursive *)
(* function of its lines: the equation it satisfies, and that the last     *)
(* line of a key counts, is shown by induction over the lines.  The        *)
(* invariant of the handler says which settings have been read again at    *)
(* each of its steps.                                                      *)
(***************************************************************************)
EXTENDS Configuration, SequenceTheorems, WellFoundedInduction, TLAPS

-----------------------------------------------------------------------------
(* The inductive invariant.                                                *)

Lines == [key : Keys, value : Values]

Settings ==
    {s \in [Keys -> Values \cup {Default} \cup Seq(Values)] : s["PEERS"] \in Seq(Values)}

ConfigurationTypeOK ==
    /\ file \in Seq(Lines) /\ options \in Seq(Lines)
    /\ settings \in Settings /\ kept \in Settings
    /\ edited \in BOOLEAN
    /\ pc \in {"start", "running", "exited", "debug", "bbfile", "board", "sync"}

\* The settings that have been read again.
Reread ==
    CASE pc = "bbfile" -> {"DEBUG"}
      [] pc = "board" -> {"DEBUG", "BBFILE"}
      [] pc = "sync" -> {"DEBUG", "BBFILE", "THMAX", "BBPORT", "PEERS"}
      [] OTHER -> {}

\* What becomes of setting k.
Reloaded(k) == IF HasKey(k) THEN readConfigurationParametersFromFile(Defaults)[k] ELSE kept[k]

HalfReloaded ==
    pc \in {"debug", "bbfile", "board", "sync"} /\ ~edited =>
        \A k \in Keys :
            Unambiguous(k) => settings[k] = IF k \in Reread THEN Reloaded(k) ELSE kept[k]

IInv == ConfigurationTypeOK /\ HalfReloaded

-----------------------------------------------------------------------------
(* Induction, and recursion on numbers.                                    *)

\* A set of numbers that is not empty has a least one.
LEMMA LeastNumber ==
    ASSUME NEW S \in SUBSET Nat, S # {}
    PROVE  \E n \in S : \A m \in S : n <= m
<1> DEFINE R == OpToRel(<, Nat)
<1>1. PICK n \in S : \A m \in S : ~(<<m, n>> \in R)
  <2>1. IsWellFoundedOn(R, Nat)
    BY NatLessThanWellFounded
  <2> HIDE DEF R
  <2> QED BY <2>1, WFMin, Zenon
<1>2. \A m \in S : m < n => <<m, n>> \in R
  BY DEF OpToRel
<1> HIDE DEF R
<1>3. \A m \in S : ~(m < n)
  BY <1>1, <1>2
<1> QED BY <1>3

\* Induction up to N, for the set of the numbers that have the property.
LEMMA Induction ==
    ASSUME NEW N \in Nat, NEW S, 0 \in S, \A n \in 1 .. N : n - 1 \in S => n \in S
    PROVE  \A n \in 0 .. N : n \in S
<1> DEFINE F == {n \in 0 .. N : n \notin S}
<1> SUFFICES ASSUME F # {} PROVE FALSE
  OBVIOUS
<1>1. F \in SUBSET Nat
  OBVIOUS
<1>2. PICK n \in F : \A m \in F : n <= m
  BY <1>1, LeastNumber
<1>3. n \in 0 .. N /\ n \notin S /\ n # 0
  BY <1>2
<1>4. n \in 1 .. N /\ n - 1 \in 0 .. N /\ ~(n <= n - 1)
  BY <1>3
<1>5. n - 1 \notin F
  BY <1>2, <1>4
<1> QED BY <1>3, <1>4, <1>5

\* A function f on 0 .. n that starts with base and goes on with step.
Follows(f, n, base, step) == f[0] = base /\ \A i \in 1 .. n : f[i] = step[i][f[i - 1]]

\* There is such a function.
LEMMA Recursion ==
    ASSUME NEW N \in Nat, NEW V, NEW base \in V, NEW step \in [1 .. N -> [V -> V]]
    PROVE  \E f \in [0 .. N -> V] : Follows(f, N, base, step)
<1> DEFINE S == {n \in 0 .. N : \E f \in [0 .. n -> V] : Follows(f, n, base, step)}
<1>1. 0 \in S
  <2> DEFINE f == [i \in 0 .. 0 |-> base]
  <2>1. f \in [0 .. 0 -> V] /\ Follows(f, 0, base, step)
    BY DEF Follows
  <2> QED BY <2>1
<1>2. ASSUME NEW n \in 1 .. N, n - 1 \in S
      PROVE  n \in S
  <2>1. PICK g \in [0 .. n - 1 -> V] : Follows(g, n - 1, base, step)
    BY <1>2
  <2> DEFINE f == [i \in 0 .. n |-> IF i = n THEN step[n][g[n - 1]] ELSE g[i]]
  <2>2. n - 1 \in 0 .. n - 1 /\ g[n - 1] \in V /\ step[n][g[n - 1]] \in V
    BY <2>1
  <2>3. f \in [0 .. n -> V]
    BY <2>2
  <2>4. f[0] = base
    BY <2>1 DEF Follows
  <2>5. ASSUME NEW i \in 1 .. n
        PROVE  f[i] = step[i][f[i - 1]]
    <3>1. f[i - 1] = g[i - 1]
      OBVIOUS
    <3>2. CASE i = n
      BY <3>1, <3>2
    <3>3. CASE i # n
      <4>1. i \in 1 .. n - 1 /\ f[i] = g[i]
        BY <3>3
      <4> QED BY <2>1, <3>1, <4>1 DEF Follows
    <3> QED BY <3>2, <3>3
  <2>6. Follows(f, n, base, step)
    BY <2>4, <2>5 DEF Follows
  <2> HIDE DEF f
  <2> QED BY <2>3, <2>6
<1> HIDE DEF S
<1>3. \A n \in 0 .. N : n \in S
  BY <1>1, <1>2, Induction
<1>4. N \in S
  BY <1>3
<1> QED BY <1>4 DEF S

-----------------------------------------------------------------------------
(* What the lines of a file make of the settings.                          *)

\* One line.
LEMMA AssignFacts ==
    ASSUME NEW s \in Settings, NEW x \in Lines
    PROVE  /\ Assign(s, x) \in Settings
           /\ \A k \in Keys : k # x.key => Assign(s, x)[k] = s[k]
           /\ x.key # "PEERS" => Assign(s, x)[x.key] = x.value
           /\ x.key = "PEERS" => Assign(s, x)["PEERS"] = Append(s["PEERS"], x.value)
<1>1. x.key \in Keys /\ x.value \in Values /\ "PEERS" \in Keys
  BY DEF Lines, Keys
<1>2. s["PEERS"] \in Seq(Values) /\ DOMAIN s = Keys /\ s \in [Keys -> Values \cup {Default} \cup Seq(Values)]
  BY DEF Settings
<1>3. Append(s["PEERS"], x.value) \in Seq(Values)
  BY <1>1, <1>2
<1>4. CASE x.key = "PEERS"
  <2>1. Assign(s, x) = [s EXCEPT !["PEERS"] = Append(s["PEERS"], x.value)]
    BY <1>4 DEF Assign
  <2> QED BY <1>1, <1>2, <1>3, <1>4, <2>1 DEF Settings
<1>5. CASE x.key # "PEERS"
  <2>1. Assign(s, x) = [s EXCEPT ![x.key] = x.value]
    BY <1>5 DEF Assign
  <2> QED BY <1>1, <1>2, <1>5, <2>1 DEF Settings
<1> QED BY <1>4, <1>5

\* The function in AssignAll.
After(s, lines) ==
    CHOOSE f : f = [n \in 0 .. Len(lines) |-> IF n = 0 THEN s ELSE Assign(f[n - 1], lines[n])]

\* It is what its definition says.
LEMMA AfterEquation ==
    ASSUME NEW s \in Settings, NEW lines \in Seq(Lines)
    PROVE  /\ After(s, lines)[0] = s
           /\ \A n \in 1 .. Len(lines) :
                 After(s, lines)[n] = Assign(After(s, lines)[n - 1], lines[n])
           /\ \A n \in 0 .. Len(lines) : After(s, lines)[n] \in Settings
<1> DEFINE N == Len(lines)
           step == [n \in 1 .. N |-> [x \in Settings |-> Assign(x, lines[n])]]
<1>1. N \in Nat /\ \A n \in 1 .. N : lines[n] \in Lines
  OBVIOUS
<1>2. step \in [1 .. N -> [Settings -> Settings]]
  BY <1>1, AssignFacts
<1>3. PICK f \in [0 .. N -> Settings] : Follows(f, N, s, step)
  <2> HIDE DEF step, N
  <2> QED BY <1>1, <1>2, Recursion
<1>4. \A n \in 1 .. N : f[n] = Assign(f[n - 1], lines[n])
  <2> SUFFICES ASSUME NEW n \in 1 .. N PROVE f[n] = Assign(f[n - 1], lines[n])
    OBVIOUS
  <2>1. n - 1 \in 0 .. N
    BY <1>1
  <2>2. f[n] = step[n][f[n - 1]]
    <3> HIDE DEF step, N
    <3> QED BY <1>3 DEF Follows
  <2> HIDE DEF N
  <2> QED BY <2>1, <2>2
<1>5. f = [n \in 0 .. N |-> IF n = 0 THEN s ELSE Assign(f[n - 1], lines[n])]
  <2>1. ASSUME NEW n \in 0 .. N
        PROVE  f[n] = IF n = 0 THEN s ELSE Assign(f[n - 1], lines[n])
    BY <1>1, <1>3, <1>4 DEF Follows
  <2> QED BY <2>1
<1> DEFINE F == After(s, lines)
<1>6. F = [n \in 0 .. N |-> IF n = 0 THEN s ELSE Assign(F[n - 1], lines[n])]
  <2>1. F = CHOOSE g : g = [n \in 0 .. N |-> IF n = 0 THEN s ELSE Assign(g[n - 1], lines[n])]
    BY DEF After
  <2> HIDE DEF N, F
  <2> QED BY <1>5, <2>1
<1> HIDE DEF F
<1>7. F[0] = s /\ \A n \in 1 .. N : F[n] = Assign(F[n - 1], lines[n])
  BY <1>1, <1>6
<1>8. \A n \in 0 .. N : F[n] \in Settings
  <2> DEFINE S == {n \in 0 .. N : F[n] \in Settings}
  <2>1. 0 \in S
    BY <1>1, <1>7
  <2>2. ASSUME NEW n \in 1 .. N, n - 1 \in S
        PROVE  n \in S
    <3>1. F[n - 1] \in Settings /\ lines[n] \in Lines /\ F[n] = Assign(F[n - 1], lines[n])
      BY <1>1, <1>7, <2>2
    <3>2. F[n] \in Settings
      BY <3>1, AssignFacts, Zenon
    <3> QED BY <1>1, <3>2
  <2> HIDE DEF S
  <2>3. \A n \in 0 .. N : n \in S
    BY <1>1, <2>1, <2>2, Induction
  <2> QED BY <2>3 DEF S
<1> QED BY <1>7, <1>8 DEF F

\* A setting no line has stays as it was.
LEMMA Untouched ==
    ASSUME NEW s \in Settings, NEW lines \in Seq(Lines), NEW k \in Keys,
           \A i \in 1 .. Len(lines) : lines[i].key # k
    PROVE  AssignAll(s, lines)[k] = s[k]
<1> DEFINE N == Len(lines)
           F == After(s, lines)
           S == {n \in 0 .. N : F[n][k] = s[k]}
<1>1. N \in Nat /\ \A n \in 1 .. N : lines[n] \in Lines
  OBVIOUS
<1>2. /\ F[0] = s /\ \A n \in 1 .. N : F[n] = Assign(F[n - 1], lines[n])
      /\ \A n \in 0 .. N : F[n] \in Settings
  BY AfterEquation
<1> HIDE DEF F
<1>3. 0 \in S
  BY <1>1, <1>2
<1>4. ASSUME NEW n \in 1 .. N, n - 1 \in S
      PROVE  n \in S
  <2>1. n - 1 \in 0 .. N /\ n \in 0 .. N /\ F[n - 1][k] = s[k]
    BY <1>1, <1>4
  <2> DEFINE u == F[n - 1]  x == lines[n]
  <2>2. u \in Settings /\ x \in Lines /\ F[n] = Assign(u, x) /\ k # x.key
    BY <1>1, <1>2, <2>1
  <2> HIDE DEF u, x
  <2>3. Assign(u, x)[k] = u[k]
    BY <2>2, AssignFacts
  <2>4. F[n][k] = u[k]
    BY <2>2, <2>3
  <2> QED BY <2>1, <2>4 DEF u
<1> HIDE DEF S
<1>5. \A n \in 0 .. N : n \in S
  BY <1>1, <1>3, <1>4, Induction
<1>6. N \in S
  BY <1>1, <1>5
<1>7. AssignAll(s, lines) = F[N]
  BY DEF AssignAll, F, After
<1> QED BY <1>6, <1>7 DEF S

\* All lines: the value is that of the last line with the key, or was there before.
LEMMA LastLineCounts ==
    ASSUME NEW s \in Settings, NEW lines \in Seq(Lines), NEW k \in Keys \ {"PEERS"}
    PROVE  /\ (\A i \in 1 .. Len(lines) : lines[i].key # k) => AssignAll(s, lines)[k] = s[k]
           /\ \A i \in 1 .. Len(lines) :
                 lines[i].key = k /\ (\A j \in i + 1 .. Len(lines) : lines[j].key # k) =>
                     AssignAll(s, lines)[k] = lines[i].value
<1> DEFINE N == Len(lines)
           F == After(s, lines)
           Found(n) == /\ (\A i \in 1 .. n : lines[i].key # k) => F[n][k] = s[k]
                       /\ \A i \in 1 .. n :
                             lines[i].key = k /\ (\A j \in i + 1 .. n : lines[j].key # k) =>
                                 F[n][k] = lines[i].value
           S == {n \in 0 .. N : Found(n)}
<1>1. N \in Nat /\ \A n \in 1 .. N : lines[n] \in Lines
  OBVIOUS
<1>2. /\ F[0] = s /\ \A n \in 1 .. N : F[n] = Assign(F[n - 1], lines[n])
      /\ \A n \in 0 .. N : F[n] \in Settings
  BY AfterEquation
<1> HIDE DEF F
<1>3. 0 \in S
  BY <1>1, <1>2
<1>4. ASSUME NEW n \in 1 .. N, n - 1 \in S
      PROVE  n \in S
  <2>1. n - 1 \in 0 .. N /\ Found(n - 1) /\ n \in 0 .. N
    BY <1>1, <1>4
  <2>2. /\ lines[n].key # k => F[n][k] = F[n - 1][k]
        /\ lines[n].key = k => F[n][k] = lines[n].value
    <3>1. F[n - 1] \in Settings /\ lines[n] \in Lines /\ F[n] = Assign(F[n - 1], lines[n])
      BY <1>1, <1>2, <2>1
    <3>2. k \in Keys /\ k # "PEERS"
      OBVIOUS
    <3> DEFINE u == F[n - 1]  v == F[n]  x == lines[n]
    <3>3. u \in Settings /\ x \in Lines /\ v = Assign(u, x)
      BY <3>1
    <3> HIDE DEF u, v, x
    <3>4. x.key # k => v[k] = u[k]
      BY <3>2, <3>3, AssignFacts, Zenon
    <3>5. ASSUME x.key = k PROVE v[k] = x.value
      <4>1. Assign(u, x)[x.key] = x.value
        BY <3>2, <3>3, <3>5, AssignFacts
      <4> QED BY <3>3, <3>5, <4>1, Zenon
    <3> QED BY <3>4, <3>5, Zenon DEF u, v, x
  <2>3. CASE lines[n].key = k
    <3>1. ASSUME NEW i \in 1 .. n, lines[i].key = k, \A j \in i + 1 .. n : lines[j].key # k
          PROVE  i = n
      <4>1. n \notin i + 1 .. n
        BY <2>3, <3>1
      <4> QED BY <4>1
    <3>2. n \in 1 .. n
      OBVIOUS
    <3>3. Found(n)
      BY <2>2, <2>3, <3>1, <3>2
    <3> QED BY <2>1, <3>3
  <2>4. CASE lines[n].key # k
    <3>1. ASSUME \A i \in 1 .. n : lines[i].key # k
          PROVE  F[n][k] = s[k]
      <4>1. \A i \in 1 .. n - 1 : i \in 1 .. n
        OBVIOUS
      <4> QED BY <2>1, <2>2, <2>4, <3>1, <4>1
    <3>2. ASSUME NEW i \in 1 .. n, lines[i].key = k, \A j \in i + 1 .. n : lines[j].key # k
          PROVE  F[n][k] = lines[i].value
      <4>1. i \in 1 .. n - 1
        BY <2>4, <3>2
      <4>2. \A j \in i + 1 .. n - 1 : j \in i + 1 .. n
        OBVIOUS
      <4>3. F[n - 1][k] = lines[i].value
        BY <2>1, <3>2, <4>1, <4>2
      <4> QED BY <2>2, <2>4, <4>3
    <3>3. Found(n)
      BY <3>1, <3>2
    <3> QED BY <2>1, <3>3
  <2> QED BY <2>3, <2>4
<1> HIDE DEF S
<1>5. \A n \in 0 .. N : n \in S
  BY <1>1, <1>3, <1>4, Induction
<1>6. N \in S
  BY <1>1, <1>5
<1>7. Found(N)
  BY <1>6 DEF S
<1>8. AssignAll(s, lines) = F[N]
  BY DEF AssignAll, F, After
<1> QED BY <1>7, <1>8

\* The peers are those of the file after those there were before: which other
\* settings there are makes no difference, and there are none to add only if no
\* line has any.
LEMMA PeersCollected ==
    ASSUME NEW s \in Settings, NEW t \in Settings, NEW lines \in Seq(Lines),
           s["PEERS"] = <<>>, t["PEERS"] = <<>>
    PROVE  /\ AssignAll(s, lines)["PEERS"] = AssignAll(t, lines)["PEERS"]
           /\ AssignAll(s, lines)["PEERS"] = <<>> <=> \A i \in 1 .. Len(lines) : lines[i].key # "PEERS"
<1> DEFINE N == Len(lines)
           F == After(s, lines)
           G == After(t, lines)
           Same(n) == /\ F[n]["PEERS"] = G[n]["PEERS"]
                      /\ F[n]["PEERS"] = <<>> <=> \A i \in 1 .. n : lines[i].key # "PEERS"
           S == {n \in 0 .. N : Same(n)}
<1>1. N \in Nat /\ \A n \in 1 .. N : lines[n] \in Lines
  OBVIOUS
<1>2. /\ F[0] = s /\ \A n \in 1 .. N : F[n] = Assign(F[n - 1], lines[n])
      /\ \A n \in 0 .. N : F[n] \in Settings
  BY AfterEquation
<1>3. /\ G[0] = t /\ \A n \in 1 .. N : G[n] = Assign(G[n - 1], lines[n])
      /\ \A n \in 0 .. N : G[n] \in Settings
  BY AfterEquation
<1> HIDE DEF F, G
<1>4. 0 \in S
  BY <1>1, <1>2, <1>3
<1>5. ASSUME NEW n \in 1 .. N, n - 1 \in S
      PROVE  n \in S
  <2>1. n - 1 \in 0 .. N /\ Same(n - 1) /\ n \in 0 .. N
    BY <1>1, <1>5
  <2>2. /\ F[n - 1] \in Settings /\ G[n - 1] \in Settings /\ lines[n] \in Lines
        /\ F[n] = Assign(F[n - 1], lines[n]) /\ G[n] = Assign(G[n - 1], lines[n])
    BY <1>1, <1>2, <1>3, <2>1
  <2> HIDE DEF N
  <2>3. CASE lines[n].key = "PEERS"
    <3>1. /\ F[n]["PEERS"] = Append(F[n - 1]["PEERS"], lines[n].value)
          /\ G[n]["PEERS"] = Append(G[n - 1]["PEERS"], lines[n].value)
      <4> DEFINE u == F[n - 1]  v == G[n - 1]  x == lines[n]
      <4>1. u \in Settings /\ v \in Settings /\ x \in Lines /\ x.key = "PEERS"
        BY <2>2, <2>3
      <4> HIDE DEF u, v, x
      <4>2. Assign(u, x)["PEERS"] = Append(u["PEERS"], x.value)
        BY <4>1, AssignFacts
      <4>3. Assign(v, x)["PEERS"] = Append(v["PEERS"], x.value)
        BY <4>1, AssignFacts
      <4> QED BY <2>2, <4>2, <4>3, Zenon DEF u, v, x
    <3>2. F[n]["PEERS"] # <<>>
      <4>1. F[n - 1]["PEERS"] \in Seq(Values) /\ lines[n].value \in Values
        BY <2>2 DEF Settings, Lines
      <4>2. Len(Append(F[n - 1]["PEERS"], lines[n].value)) = Len(F[n - 1]["PEERS"]) + 1
        BY <4>1
      <4>3. Len(F[n]["PEERS"]) # 0
        BY <3>1, <4>1, <4>2
      <4> QED BY <4>3
    <3>3. n \in 1 .. n
      BY <1>1
    <3>4. Same(n)
      BY <2>1, <2>3, <3>1, <3>2, <3>3
    <3> QED BY <2>1, <3>4
  <2>4. CASE lines[n].key # "PEERS"
    <3>1. F[n]["PEERS"] = F[n - 1]["PEERS"] /\ G[n]["PEERS"] = G[n - 1]["PEERS"]
      <4>1. "PEERS" \in Keys
        BY DEF Keys
      <4> DEFINE u == F[n - 1]  v == G[n - 1]  x == lines[n]
      <4>2. u \in Settings /\ v \in Settings /\ x \in Lines /\ "PEERS" # x.key
        BY <2>2, <2>4
      <4> HIDE DEF u, v, x
      <4>3. Assign(u, x)["PEERS"] = u["PEERS"] /\ Assign(v, x)["PEERS"] = v["PEERS"]
        BY <4>1, <4>2, AssignFacts
      <4> QED BY <2>2, <4>3, Zenon DEF u, v, x
    <3>2. 1 .. n = (1 .. n - 1) \cup {n}
      BY <1>1
    <3>3. Same(n)
      BY <2>1, <2>4, <3>1, <3>2
    <3> QED BY <2>1, <3>3
  <2> QED BY <2>3, <2>4
<1> HIDE DEF S
<1>6. \A n \in 0 .. N : n \in S
  BY <1>1, <1>4, <1>5, Induction
<1>7. N \in S
  BY <1>1, <1>6
<1>8. Same(N)
  BY <1>7 DEF S
<1>9. AssignAll(s, lines) = F[N] /\ AssignAll(t, lines) = G[N]
  BY DEF AssignAll, F, G, After
<1> QED BY <1>8, <1>9

\* The settings stay settings, those of a start are some, and a file and a
\* command line are lines.
LEMMA SettingsFacts ==
    /\ \A s \in Settings, lines \in Seq(Lines) : AssignAll(s, lines) \in Settings
    /\ Defaults \in Settings /\ Defaults["PEERS"] = <<>>
    /\ \A s \in Settings : [s EXCEPT !["PEERS"] = <<>>] \in Settings
    /\ Files \subseteq Seq(Lines) /\ CommandLines \subseteq Seq(Lines)
<1>1. ASSUME NEW s \in Settings, NEW lines \in Seq(Lines)
      PROVE  AssignAll(s, lines) \in Settings
  <2>1. AssignAll(s, lines) = After(s, lines)[Len(lines)]
    BY DEF AssignAll, After
  <2>2. Len(lines) \in 0 .. Len(lines)
    OBVIOUS
  <2> QED BY <2>1, <2>2, AfterEquation
<1>2. "PEERS" \in Keys /\ <<>> \in Seq(Values)
  BY DEF Keys
<1>3. Defaults \in Settings /\ Defaults["PEERS"] = <<>>
  BY <1>2 DEF Defaults, Settings
<1>4. \A s \in Settings : [s EXCEPT !["PEERS"] = <<>>] \in Settings
  BY <1>2 DEF Settings
<1>5. Files \subseteq Seq(Lines)
  <2> SUFFICES ASSUME NEW f \in Files PROVE f \in Seq(Lines)
    OBVIOUS
  <2>1. PICK n \in 0 .. MaxLines : f \in [1 .. n -> Lines]
    BY DEF Files, Lines
  <2>2. n \in Nat
    BY ConfigurationAssumption
  <2> QED BY <2>1, <2>2, SeqDef
<1>6. CommandLines \subseteq Seq(Lines)
  <2>1. \A x \in Lines : <<x>> \in Seq(Lines)
    OBVIOUS
  <2>2. <<>> \in Seq(Lines)
    OBVIOUS
  <2> QED BY <2>1, <2>2, Zenon DEF CommandLines, Lines
<1> QED BY <1>1, <1>3, <1>4, <1>5, <1>6

\* A key of the file has a last line.
LEMMA LastLine ==
    ASSUME file \in Seq(Lines), NEW k, HasKey(k)
    PROVE  \E i \in 1 .. Len(file) :
              file[i].key = k /\ \A j \in i + 1 .. Len(file) : file[j].key # k
<1> DEFINE N == Len(file)
           S == {n \in 0 .. N - 1 : file[N - n].key = k}
<1>1. N \in Nat /\ DOMAIN file = 1 .. N
  OBVIOUS
<1>2. PICK i \in 1 .. N : file[i].key = k
  BY <1>1 DEF HasKey
<1>3. N - i \in 0 .. N - 1 /\ N - (N - i) = i
  BY <1>1
<1>4. S \in SUBSET Nat /\ N - i \in S
  <2>1. file[N - (N - i)].key = k
    BY <1>2, <1>3
  <2> QED BY <1>1, <1>3, <2>1
<1>5. PICK n \in S : \A m \in S : n <= m
  <2> HIDE DEF S
  <2> QED BY <1>4, LeastNumber
<1>6. N - n \in 1 .. N /\ file[N - n].key = k
  BY <1>1, <1>5
<1>7. ASSUME NEW j \in N - n + 1 .. N, file[j].key = k
      PROVE  FALSE
  <2>1. N - j \in 0 .. N - 1 /\ N - (N - j) = j /\ ~(n <= N - j)
    BY <1>1, <1>5
  <2>2. N - j \in S
    BY <1>7, <2>1
  <2> QED BY <1>5, <2>1, <2>2
<1> QED BY <1>6, <1>7

\* Read with all the others, a key of the file has the value of its last line,
\* whatever was there before.
LEMMA FileCounts ==
    ASSUME file \in Seq(Lines), NEW k \in Keys \ {"PEERS"}, NEW s \in Settings
    PROVE  readConfigurationParametersFromFile(s)[k] =
               IF HasKey(k) THEN readConfigurationParametersFromFile(Defaults)[k] ELSE s[k]
<1>1. DOMAIN file = 1 .. Len(file) /\ Defaults \in Settings
  BY SettingsFacts
<1>2. CASE ~HasKey(k)
  <2>1. \A i \in 1 .. Len(file) : file[i].key # k
    BY <1>1, <1>2 DEF HasKey
  <2>2. AssignAll(s, file)[k] = s[k]
    BY <2>1, LastLineCounts
  <2> QED BY <1>2, <2>2 DEF readConfigurationParametersFromFile
<1>3. CASE HasKey(k)
  <2>1. PICK i \in 1 .. Len(file) :
           file[i].key = k /\ \A j \in i + 1 .. Len(file) : file[j].key # k
    BY <1>3, LastLine
  <2>2. AssignAll(s, file)[k] = file[i].value
    BY <2>1, LastLineCounts
  <2>3. AssignAll(Defaults, file)[k] = file[i].value
    BY <1>1, <2>1, LastLineCounts
  <2> QED BY <1>3, <2>2, <2>3 DEF readConfigurationParametersFromFile
<1> QED BY <1>2, <1>3

\* Where a key is in the file once, its first line is the last: the two ways of
\* reading agree.
LEMMA ReadsAgree ==
    ASSUME file \in Seq(Lines), NEW k \in {"DEBUG", "BBFILE", "SYNCPORT"}, Unambiguous(k), NEW d
    PROVE  readKeyFromConfigurationFile(k, d) =
               IF HasKey(k) THEN readConfigurationParametersFromFile(Defaults)[k] ELSE d
<1>1. DOMAIN file = 1 .. Len(file) /\ Len(file) \in Nat
  OBVIOUS
<1>2. Defaults \in Settings /\ k \in Keys \ {"PEERS"}
  BY SettingsFacts DEF Keys
<1>3. CASE ~HasKey(k)
  BY <1>3 DEF readKeyFromConfigurationFile
<1>4. CASE HasKey(k)
  <2>1. PICK i \in 1 .. Len(file) :
           file[i].key = k /\ \A j \in i + 1 .. Len(file) : file[j].key # k
    BY <1>4, LastLine
  <2>2. \A j \in 1 .. Len(file) : file[j].key = k => j = i
    BY <1>1, <2>1 DEF Unambiguous
  <2>3. \A j \in 1 .. i - 1 : file[j].key # k
    <3>1. \A j \in 1 .. i - 1 : j \in 1 .. Len(file) /\ j # i
      BY <1>1
    <3> QED BY <2>2, <3>1
  <2>4. AssignAll(Defaults, file)[k] = file[i].value
    BY <1>2, <2>1, LastLineCounts
  <2> DEFINE First(n) == file[n].key = k /\ \A j \in 1 .. n - 1 : file[j].key # k
             c == CHOOSE n \in DOMAIN file : First(n)
  <2>5. c = i
    <3>1. i \in DOMAIN file /\ First(i)
      BY <1>1, <2>1, <2>3
    <3>2. c \in DOMAIN file /\ First(c)
      <4> HIDE DEF First
      <4> QED BY <3>1
    <3> HIDE DEF c
    <3> QED BY <1>1, <2>2, <3>2
  <2>6. readKeyFromConfigurationFile(k, d) = file[c].value
    BY <1>4 DEF readKeyFromConfigurationFile
  <2> HIDE DEF c
  <2> QED BY <1>4, <2>4, <2>5, <2>6 DEF readConfigurationParametersFromFile
<1> QED BY <1>3, <1>4

-----------------------------------------------------------------------------
(* The invariant.                                                          *)

\* The invariant holds when the server starts.
LEMMA InitIInv == Init => IInv
<1> SUFFICES ASSUME Init PROVE IInv
  OBVIOUS
<1>1. ConfigurationTypeOK
  BY SettingsFacts DEF Init, ConfigurationTypeOK
<1>2. HalfReloaded
  BY DEF Init, HalfReloaded
<1> QED BY <1>1, <1>2 DEF IInv

\* The start reads the file and the command line.
LEMMA StartStep == IInv /\ Start => IInv'
<1> SUFFICES ASSUME IInv, Start PROVE IInv'
  OBVIOUS
<1>1. file \in Seq(Lines) /\ options \in Seq(Lines) /\ Defaults \in Settings
  BY SettingsFacts DEF IInv, ConfigurationTypeOK
<1>2. AssignAll(Defaults, file) \in Settings
  BY <1>1, SettingsFacts
<1>3. settings' \in Settings
  BY <1>1, <1>2, SettingsFacts DEF Start, Started, readConfigurationParametersFromFile
<1>4. pc' \in {"running", "exited"} /\ UNCHANGED <<file, options, kept, edited>>
  BY DEF Start
<1>5. ConfigurationTypeOK'
  BY <1>3, <1>4 DEF IInv, ConfigurationTypeOK
<1>6. HalfReloaded'
  BY <1>4 DEF HalfReloaded
<1> QED BY <1>5, <1>6 DEF IInv

\* A change of the file while the handler runs is remembered.
LEMMA EditStep == IInv /\ Edit => IInv'
<1> SUFFICES ASSUME IInv, Edit PROVE IInv'
  OBVIOUS
<1>1. file' \in Seq(Lines)
  BY SettingsFacts DEF Edit
<1>2. UNCHANGED <<options, settings, pc, kept>> /\ edited' = (pc # "running")
  BY DEF Edit
<1>3. ConfigurationTypeOK'
  BY <1>1, <1>2 DEF IInv, ConfigurationTypeOK
<1>4. HalfReloaded'
  BY <1>2 DEF HalfReloaded
<1> QED BY <1>3, <1>4 DEF IInv

\* The signal: nothing has been read again.
LEMMA SighupStep == IInv /\ Sighup => IInv'
<1> SUFFICES ASSUME IInv, Sighup PROVE IInv'
  OBVIOUS
<1>1. /\ UNCHANGED <<file, options, settings>> /\ kept' = settings
      /\ pc' = "debug" /\ edited' = FALSE
  BY DEF Sighup
<1>2. ConfigurationTypeOK'
  BY <1>1 DEF IInv, ConfigurationTypeOK
<1>3. Reread' = {}
  BY <1>1 DEF Reread
<1>4. HalfReloaded'
  BY <1>1, <1>3 DEF HalfReloaded
<1> QED BY <1>2, <1>4 DEF IInv

\* A key that is read on its own.
LEMMA KeyRead ==
    ASSUME IInv, NEW key \in {"DEBUG", "BBFILE", "SYNCPORT"}, NEW here, NEW next,
           ReadKey(key, here, next)
    PROVE  /\ settings' \in Settings
           /\ Unambiguous(key) =>
                 settings'[key] = IF HasKey(key)
                                  THEN readConfigurationParametersFromFile(Defaults)[key]
                                  ELSE settings[key]
           /\ \A k \in Keys : k # key => settings'[k] = settings[k]
<1> DEFINE v == readKeyFromConfigurationFile(key, settings[key])
<1>1. file \in Seq(Lines) /\ settings \in Settings /\ key \in Keys /\ key # "PEERS"
  BY DEF IInv, ConfigurationTypeOK, Keys
<1>2. settings' = [settings EXCEPT ![key] = v]
  BY DEF ReadKey
<1>3. Unambiguous(key) =>
         v = IF HasKey(key) THEN readConfigurationParametersFromFile(Defaults)[key]
                            ELSE settings[key]
  BY <1>1, ReadsAgree
<1>4. v \in Values \cup {Default} \cup Seq(Values)
  <2>1. CASE HasKey(key)
    <3> DEFINE First(n) == file[n].key = key /\ \A j \in 1 .. n - 1 : file[j].key # key
               S == {n \in DOMAIN file : file[n].key = key}
    <3>1. S \in SUBSET Nat /\ S # {} /\ DOMAIN file = 1 .. Len(file) /\ Len(file) \in Nat
      BY <1>1, <2>1 DEF HasKey
    <3>2. PICK n \in S : \A m \in S : n <= m
      BY <3>1, LeastNumber
    <3>3. \A j \in 1 .. n - 1 : j \in DOMAIN file /\ ~(n <= j)
      BY <3>1, <3>2
    <3>4. n \in DOMAIN file /\ First(n)
      BY <3>2, <3>3
    <3> DEFINE c == CHOOSE m \in DOMAIN file : First(m)
    <3>5. c \in DOMAIN file
      <4> HIDE DEF First
      <4> QED BY <3>4
    <3>6. v = file[c].value
      BY <2>1 DEF readKeyFromConfigurationFile
    <3> HIDE DEF c
    <3>7. file[c] \in Lines
      BY <1>1, <3>1, <3>5
    <3> HIDE DEF v
    <3> QED BY <3>6, <3>7 DEF Lines
  <2>2. CASE ~HasKey(key)
    BY <1>1, <2>2 DEF readKeyFromConfigurationFile, Settings
  <2> QED BY <2>1, <2>2
<1> HIDE DEF v
<1>5. settings'[key] = v /\ \A k \in Keys : k # key => settings'[k] = settings[k]
  <2>1. DOMAIN settings = Keys /\ key \in Keys
    BY <1>1 DEF Settings
  <2> QED BY <1>2, <2>1, Zenon
<1>6. settings' \in Settings
  <2>1. settings'["PEERS"] = settings["PEERS"]
    BY <1>1, <1>5 DEF Keys
  <2>2. settings' \in [Keys -> Values \cup {Default} \cup Seq(Values)]
    BY <1>1, <1>2, <1>4 DEF Settings
  <2> QED BY <1>1, <2>1, <2>2 DEF Settings
<1> QED BY <1>3, <1>5, <1>6

\* What becomes of a setting depends on the file and on what it was.
LEMMA ReloadedStable ==
    ASSUME UNCHANGED <<file, kept>>
    PROVE  \A k \in Keys : (Unambiguous(k)' <=> Unambiguous(k)) /\ Reloaded(k)' = Reloaded(k)
BY DEF Unambiguous, Reloaded, HasKey, readConfigurationParametersFromFile, AssignAll, Assign, Defaults

\* A step of the handler that reads one key more.
LEMMA KeyStep ==
    ASSUME IInv, NEW key \in {"DEBUG", "BBFILE", "SYNCPORT"}, NEW here, NEW next,
           ReadKey(key, here, next),
           here \in {"debug", "bbfile", "sync"},
           next \in {"running", "bbfile", "board"},
           key \notin Reread, next # "running" => Reread' = Reread \cup {key}
    PROVE  /\ IInv'
           /\ ~edited => \A k \in Keys : Unambiguous(k) =>
                 settings'[k] = IF k \in Reread \cup {key} THEN Reloaded(k) ELSE kept[k]
<1>1. UNCHANGED <<file, options, kept, edited>> /\ pc = here /\ pc' = next
  BY DEF ReadKey
<1>2. ConfigurationTypeOK'
  BY <1>1, KeyRead DEF IInv, ConfigurationTypeOK
<1>3. ASSUME ~edited, NEW k \in Keys, Unambiguous(k)
      PROVE  settings'[k] = IF k \in Reread \cup {key} THEN Reloaded(k) ELSE kept[k]
  <2>1. settings[k] = IF k \in Reread THEN Reloaded(k) ELSE kept[k]
    BY <1>1, <1>3 DEF IInv, HalfReloaded
  <2>2. CASE k # key
    <3>1. settings'[k] = settings[k]
      BY <2>2, KeyRead
    <3> QED BY <2>1, <2>2, <3>1
  <2>3. CASE k = key
    <3>1. settings[key] = kept[key] /\ Unambiguous(key)
      BY <1>3, <2>1, <2>3
    <3>2. settings'[key] = Reloaded(key)
      BY <3>1, KeyRead DEF Reloaded
    <3> QED BY <2>3, <3>2
  <2> QED BY <2>2, <2>3
<1>4. HalfReloaded'
  <2>1. CASE next = "running"
    BY <1>1, <2>1 DEF HalfReloaded
  <2>2. CASE next # "running"
    <3>1. Reread' = Reread \cup {key} /\ kept' = kept /\ edited' = edited
      BY <1>1, <2>2
    <3>2. \A k \in Keys : (Unambiguous(k)' <=> Unambiguous(k)) /\ Reloaded(k)' = Reloaded(k)
      BY <1>1, ReloadedStable
    <3> QED BY <1>3, <3>1, <3>2 DEF HalfReloaded
  <2> QED BY <2>1, <2>2
<1> QED BY <1>2, <1>3, <1>4 DEF IInv

\* DEBUG.
LEMMA DebugStep == IInv /\ setDebuggingPreference => IInv'
<1> SUFFICES ASSUME IInv, setDebuggingPreference PROVE IInv'
  OBVIOUS
<1>1. ReadKey("DEBUG", "debug", "bbfile")
  BY DEF setDebuggingPreference
<1>2. pc = "debug" /\ pc' = "bbfile"
  BY <1>1 DEF ReadKey
<1>3. Reread = {} /\ Reread' = {"DEBUG"}
  BY <1>2 DEF Reread
<1> QED BY <1>1, <1>3, KeyStep

\* BBFILE.
LEMMA BoardFileStep == IInv /\ setBulletinBoardFile => IInv'
<1> SUFFICES ASSUME IInv, setBulletinBoardFile PROVE IInv'
  OBVIOUS
<1>1. ReadKey("BBFILE", "bbfile", "board")
  BY DEF setBulletinBoardFile
<1>2. pc = "bbfile" /\ pc' = "board"
  BY <1>1 DEF ReadKey
<1>3. Reread = {"DEBUG"} /\ Reread' = {"DEBUG", "BBFILE"}
  BY <1>2 DEF Reread
<1> QED BY <1>1, <1>3, KeyStep

\* SYNCPORT, the last one: now every setting has been read again.
LEMMA SyncPortStep ==
    ASSUME IInv, reconfigureSyncServerPort
    PROVE  /\ IInv'
           /\ ~edited => \A k \in Keys : Unambiguous(k) => settings'[k] = Reloaded(k)
<1>1. ReadKey("SYNCPORT", "sync", "running")
  BY DEF reconfigureSyncServerPort
<1>2. pc = "sync"
  BY <1>1 DEF ReadKey
<1>3. Reread = {"DEBUG", "BBFILE", "THMAX", "BBPORT", "PEERS"}
  BY <1>2 DEF Reread
<1>4. \A k \in Keys : k \in Reread \cup {"SYNCPORT"}
  BY <1>3 DEF Keys
<1>5. "SYNCPORT" \notin Reread
  BY <1>3
<1> QED BY <1>1, <1>4, <1>5, KeyStep

\* The board server's settings, read together.
LEMMA BoardStep == IInv /\ reconfigureBoardServerGlobalVars => IInv'
<1> SUFFICES ASSUME IInv, reconfigureBoardServerGlobalVars PROVE IInv'
  OBVIOUS
<1> DEFINE b == [settings EXCEPT !["PEERS"] = <<>>]
           s == readConfigurationParametersFromFile(b)
           peers == IF s["PEERS"] = <<>> THEN settings["PEERS"] ELSE s["PEERS"]
<1>1. file \in Seq(Lines) /\ settings \in Settings /\ DOMAIN settings = Keys
  BY DEF IInv, ConfigurationTypeOK, Settings
<1>2. /\ pc = "board" /\ pc' = "sync" /\ UNCHANGED <<file, options, kept, edited>>
      /\ settings' = [settings EXCEPT !["THMAX"] = s["THMAX"], !["BBPORT"] = s["BBPORT"],
                                       !["PEERS"] = peers]
  BY DEF reconfigureBoardServerGlobalVars
<1>3. /\ b \in Settings /\ b["PEERS"] = <<>>
      /\ \A k \in Keys : k # "PEERS" => b[k] = settings[k]
  BY <1>1, SettingsFacts DEF Keys
<1>4. s \in Settings
  <2> HIDE DEF b
  <2> QED BY <1>1, <1>3, SettingsFacts DEF readConfigurationParametersFromFile
<1>5. \A k \in {"THMAX", "BBPORT"} :
         s[k] = IF HasKey(k) THEN readConfigurationParametersFromFile(Defaults)[k] ELSE settings[k]
  <2> SUFFICES ASSUME NEW k \in {"THMAX", "BBPORT"}
               PROVE  s[k] = IF HasKey(k) THEN readConfigurationParametersFromFile(Defaults)[k]
                                          ELSE settings[k]
    OBVIOUS
  <2>1. k \in Keys \ {"PEERS"}
    BY DEF Keys
  <2>2. b[k] = settings[k]
    BY <1>3, <2>1
  <2> HIDE DEF b
  <2>3. s[k] = IF HasKey(k) THEN readConfigurationParametersFromFile(Defaults)[k] ELSE b[k]
    BY <1>1, <1>3, <2>1, FileCounts
  <2> QED BY <2>2, <2>3
<1>6. peers = IF HasKey("PEERS") THEN readConfigurationParametersFromFile(Defaults)["PEERS"]
                                 ELSE settings["PEERS"]
  <2> HIDE DEF b
  <2>1. /\ s["PEERS"] = readConfigurationParametersFromFile(Defaults)["PEERS"]
        /\ s["PEERS"] = <<>> <=> \A i \in 1 .. Len(file) : file[i].key # "PEERS"
    <3>1. Defaults \in Settings /\ Defaults["PEERS"] = <<>>
      BY SettingsFacts
    <3> QED BY <1>1, <1>3, <3>1, PeersCollected DEF readConfigurationParametersFromFile
  <2>2. HasKey("PEERS") <=> ~\A i \in 1 .. Len(file) : file[i].key # "PEERS"
    BY <1>1 DEF HasKey
  <2> QED BY <2>1, <2>2, Zenon
<1> HIDE DEF b, s
<1>7. peers \in Seq(Values)
  BY <1>1, <1>4 DEF Settings
<1> HIDE DEF peers
<1>8. /\ settings'["THMAX"] = s["THMAX"] /\ settings'["BBPORT"] = s["BBPORT"]
      /\ settings'["PEERS"] = peers
      /\ \A k \in Keys \ {"THMAX", "BBPORT", "PEERS"} : settings'[k] = settings[k]
  BY <1>1, <1>2 DEF Keys
<1>9. ConfigurationTypeOK'
  <2>1. \A k \in Keys : s[k] \in Values \cup {Default} \cup Seq(Values)
    BY <1>4 DEF Settings
  <2>2. settings' \in [Keys -> Values \cup {Default} \cup Seq(Values)]
    BY <1>1, <1>2, <1>7, <2>1 DEF Settings, Keys
  <2>3. settings' \in Settings
    BY <1>7, <1>8, <2>2 DEF Settings
  <2> QED BY <1>2, <2>3 DEF IInv, ConfigurationTypeOK
<1>10. ASSUME ~edited, NEW k \in Keys, Unambiguous(k)
       PROVE  settings'[k] = IF k \in {"DEBUG", "BBFILE", "THMAX", "BBPORT", "PEERS"}
                             THEN Reloaded(k) ELSE kept[k]
  <2>1. Reread = {"DEBUG", "BBFILE"}
    BY <1>2 DEF Reread
  <2>2. settings[k] = IF k \in {"DEBUG", "BBFILE"} THEN Reloaded(k) ELSE kept[k]
    BY <1>2, <1>10, <2>1 DEF IInv, HalfReloaded
  <2>3. CASE k \in {"DEBUG", "BBFILE", "SYNCPORT"}
    BY <1>8, <2>2, <2>3 DEF Keys
  <2>4. CASE k \in {"THMAX", "BBPORT"}
    BY <1>5, <1>8, <1>10, <2>2, <2>4 DEF Reloaded
  <2>5. CASE k = "PEERS"
    BY <1>6, <1>8, <1>10, <2>2, <2>5 DEF Reloaded
  <2> QED BY <2>3, <2>4, <2>5 DEF Keys
<1>11. HalfReloaded'
  <2>1. Reread' = {"DEBUG", "BBFILE", "THMAX", "BBPORT", "PEERS"}
    BY <1>2 DEF Reread
  <2>2. \A k \in Keys : (Unambiguous(k)' <=> Unambiguous(k)) /\ Reloaded(k)' = Reloaded(k)
    BY <1>2, ReloadedStable
  <2> QED BY <1>2, <1>10, <2>1, <2>2 DEF HalfReloaded
<1> QED BY <1>9, <1>11 DEF IInv

-----------------------------------------------------------------------------

\* A reload with a file that is not changed meanwhile gives every setting of the
\* file the value a start with that file and the same command line would give it,
\* or that of the file alone where the command line gives one too, and keeps the
\* settings the file does not have: for files and command lines of any length, with
\* the keys that are read on their own in the file once at most.
\* Code: super_sighup_handler and the four calls it reads the file with, main.
THEOREM ReloadsAreRestarts == Spec => ReloadIsRestart
<1>1. IInv /\ [Next]_vars => IInv'
  <2> SUFFICES ASSUME IInv, [Next]_vars PROVE IInv'
    OBVIOUS
  <2>1. CASE UNCHANGED vars
    <3>1. UNCHANGED <<file, options, settings, pc, kept, edited>>
      BY <2>1 DEF vars
    <3>2. /\ \A k \in Keys : (Unambiguous(k)' <=> Unambiguous(k)) /\ Reloaded(k)' = Reloaded(k)
          /\ Reread' = Reread
      BY <3>1, ReloadedStable DEF Reread
    <3> QED BY <3>1, <3>2 DEF IInv, ConfigurationTypeOK, HalfReloaded
  <2>2. CASE Next
    BY <2>2, StartStep, EditStep, SighupStep, DebugStep, BoardFileStep, BoardStep, SyncPortStep
       DEF Next
  <2> QED BY <2>1, <2>2
<1>2. ASSUME IInv, NEW k \in Keys, ~Given(k)
      PROVE  Started[k] = readConfigurationParametersFromFile(Defaults)[k]
  <2>1. file \in Seq(Lines) /\ options \in Seq(Lines) /\ Defaults \in Settings
    BY <1>2, SettingsFacts DEF IInv, ConfigurationTypeOK
  <2>2. AssignAll(Defaults, file) \in Settings
    BY <2>1, SettingsFacts
  <2>3. \A i \in 1 .. Len(options) : options[i].key # k
    BY <1>2, <2>1 DEF Given
  <2> QED BY <2>1, <2>2, <2>3, Untouched DEF Started, readConfigurationParametersFromFile
<1>3. ASSUME IInv, [Next]_vars, pc = "sync", pc' = "running", ~edited, NEW k \in Keys
      PROVE  /\ ~HasKey(k) => settings'[k] = kept[k]
             /\ HasKey(k) /\ Unambiguous(k) =>
                   settings'[k] = IF Given(k)
                                  THEN readConfigurationParametersFromFile(Defaults)[k]
                                  ELSE Started[k]
  <2>1. reconfigureSyncServerPort
    BY <1>3 DEF Next, Start, Edit, Sighup, ReadKey, setDebuggingPreference, setBulletinBoardFile,
                reconfigureBoardServerGlobalVars, vars
  <2>2. Unambiguous(k) => settings'[k] = Reloaded(k)
    BY <1>3, <2>1, SyncPortStep
  <2>3. ~HasKey(k) => Unambiguous(k)
    BY DEF HasKey, Unambiguous
  <2> QED BY <1>2, <1>3, <2>2, <2>3 DEF Reloaded
<1>4. IInv /\ [Next]_vars =>
        [pc = "sync" /\ pc' = "running" /\ ~edited =>
            \A k \in Keys :
                /\ ~HasKey(k) => settings'[k] = kept[k]
                /\ HasKey(k) /\ Unambiguous(k) =>
                      settings'[k] = IF Given(k)
                                     THEN readConfigurationParametersFromFile(Defaults)[k]
                                     ELSE Started[k]]_vars
  BY <1>3
<1> QED BY <1>1, <1>4, InitIInv, PTL DEF Spec, ReloadIsRestart
=============================================================================
