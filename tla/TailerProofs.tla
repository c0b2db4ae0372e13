---------------------------- MODULE TailerProofs ----------------------------
(***************************************************************************)
(* What the tailer returns, for files and lines of any length that arrive  *)
(* in any pieces.                                                          *)
(*                                                                         *)
(* Scanned relates what is kept of a partial line to the bytes consumed so *)
(* far; it holds after every byte, so also at every end of a read.         *)
(***************************************************************************)
EXTENDS Tailer, FiniteSetTheorems, SequenceTheorems, WellFoundedInduction, TLAPS

----------------------------------------------------------------------------
(* Numbers.                                                                *)

LEMMA Induction ==
  ASSUME NEW Good, 0 \in Good, \A n \in Nat : n \in Good => n + 1 \in Good
  PROVE  \A n \in Nat : n \in Good
<1> SUFFICES ASSUME ~(Nat \subseteq Good) PROVE FALSE
  OBVIOUS
<1> DEFINE T == Nat \ Good
           R == OpToRel(<, Nat)
<1>1. IsWellFoundedOn(R, Nat)
  BY NatLessThanWellFounded
<1>2. T \subseteq Nat /\ T # {}
  OBVIOUS
<1>3. \A x, y \in Nat : <<y, x>> \in R <=> y < x
  BY DEF OpToRel
<1> HIDE DEF R, T
<1>4. PICK x \in T : \A y \in T : ~(<<y, x>> \in R)
  BY <1>1, <1>2, WFMin
<1>5. x \in Nat /\ x \notin Good
  BY DEF T
<1>6. x # 0 /\ x - 1 \in Nat /\ x - 1 < x
  BY <1>5
<1>7. x - 1 \in Good
  BY <1>3, <1>4, <1>5, <1>6 DEF T
<1> QED BY <1>5, <1>6, <1>7

\* f[i] is the value after i steps from v.
Steps(f, n, V, v, step) ==
    /\ f \in [0..n -> V] /\ f[0] = v
    /\ \A i \in 1..n : f[i] = step[<<i, f[i - 1]>>]

LEMMA RecursionExists ==
  ASSUME NEW n \in Nat, NEW V, NEW v \in V, NEW step \in [(1..n) \X V -> V]
  PROVE  \E f : Steps(f, n, V, v, step)
<1> DEFINE Runs(f, m) == f \in [0..m -> V] /\ f[0] = v
                         /\ \A i \in 1..m : f[i] = step[<<i, f[i - 1]>>]
           Good == {m \in Nat : m <= n => \E f : Runs(f, m)}
<1>1. 0 \in Good
  <2>1. Runs([i \in 0..0 |-> v], 0)
    OBVIOUS
  <2> QED BY <2>1
<1>2. ASSUME NEW m \in Nat, m \in Good PROVE m + 1 \in Good
  <2> SUFFICES ASSUME m + 1 <= n PROVE \E f : Runs(f, m + 1)
    OBVIOUS
  <2>1. PICK f : Runs(f, m)
    BY <1>2
  <2> DEFINE g == [i \in 0..(m + 1) |-> IF i = m + 1 THEN step[<<m + 1, f[m]>>] ELSE f[i]]
  <2>2. m + 1 \in 1..n /\ f[m] \in V /\ step[<<m + 1, f[m]>>] \in V
    BY <2>1
  <2>3. g \in [0..(m + 1) -> V] /\ g[0] = v
    BY <2>1, <2>2
  <2>4. ASSUME NEW i \in 1..(m + 1) PROVE g[i] = step[<<i, g[i - 1]>>]
    <3>1. i - 1 \in 0..m /\ i - 1 # m + 1 /\ g[i - 1] = f[i - 1]
      OBVIOUS
    <3>2. CASE i = m + 1
      <4>1. g[m + 1] = step[<<m + 1, f[m]>>] /\ i - 1 = m
        BY <3>2
      <4> QED BY <3>1, <3>2, <4>1
    <3>3. CASE i # m + 1
      BY <2>1, <3>1, <3>3
    <3> QED BY <3>2, <3>3
  <2>5. Runs(g, m + 1)
    BY <2>3, <2>4
  <2> QED BY <2>5
<1> HIDE DEF Good
<1>3. n \in Good
  BY <1>1, <1>2, Induction
<1> QED BY <1>3 DEF Good, Steps

----------------------------------------------------------------------------
(* Parts of sequences.                                                     *)

LEMMA NothingBetween ==
  ASSUME NEW E, NEW q \in Seq(E), NEW a \in Nat
  PROVE  SubSeq(q, a + 1, a) = <<>>
OBVIOUS

LEMMA SubSeqStays ==
  ASSUME NEW E, NEW q \in Seq(E), NEW e \in E, NEW a \in Nat, NEW m \in Nat, a <= m, m <= Len(q)
  PROVE  SubSeq(Append(q, e), a + 1, m) = SubSeq(q, a + 1, m)
<1>1. Append(q, e) \in Seq(E) /\ Len(Append(q, e)) = Len(q) + 1 /\ \A i \in 1..Len(q) : Append(q, e)[i] = q[i]
  OBVIOUS
<1> DEFINE y == Append(q, e)
<1>2. Len(SubSeq(y, a + 1, m)) = m - a /\ Len(SubSeq(q, a + 1, m)) = m - a
  BY <1>1
<1>3. \A i \in 1..(m - a) : SubSeq(y, a + 1, m)[i] = y[a + i] /\ SubSeq(q, a + 1, m)[i] = q[a + i]
  BY <1>1
<1>4. \A i \in 1..(m - a) : y[a + i] = q[a + i]
  BY <1>1
<1>5. SubSeq(y, a + 1, m) \in Seq(E) /\ SubSeq(q, a + 1, m) \in Seq(E)
  BY <1>1
<1> HIDE DEF y
<1>6. SubSeq(y, a + 1, m) = SubSeq(q, a + 1, m)
  BY <1>2, <1>3, <1>4, <1>5, SeqEqual
<1> QED BY <1>6 DEF y

LEMMA SubSeqSplits ==
  ASSUME NEW E, NEW q \in Seq(E), NEW a \in Nat, NEW m \in Nat, a <= m, m <= Len(q)
  PROVE  SubSeq(q, a + 1, Len(q)) = SubSeq(q, a + 1, m) \o SubSeq(q, m + 1, Len(q))
<1> DEFINE n == Len(q)
           u == SubSeq(q, a + 1, m)
           v == SubSeq(q, m + 1, n)
           w == SubSeq(q, a + 1, n)
<1>1. u \in Seq(E) /\ v \in Seq(E) /\ w \in Seq(E) /\ Len(u) = m - a /\ Len(v) = n - m /\ Len(w) = n - a /\ n \in Nat
  OBVIOUS
<1>2. /\ \A i \in 1..(m - a) : u[i] = q[a + i]
      /\ \A i \in 1..(n - m) : v[i] = q[m + i]
      /\ \A i \in 1..(n - a) : w[i] = q[a + i]
  OBVIOUS
<1> HIDE DEF u, v, w, n
<1>3. u \o v \in Seq(E) /\ Len(u \o v) = n - a
      /\ \A i \in 1..(n - a) : (u \o v)[i] = IF i <= m - a THEN u[i] ELSE v[i - (m - a)]
  <2>1. /\ u \o v \in Seq(E) /\ Len(u \o v) = Len(u) + Len(v)
        /\ \A i \in 1..(Len(u) + Len(v)) :
             (u \o v)[i] = IF i <= Len(u) THEN u[i] ELSE v[i - Len(u)]
    BY <1>1, ConcatProperties
  <2>2. Len(u) + Len(v) = n - a
    BY <1>1
  <2> QED BY <1>1, <2>1, <2>2
<1>4. ASSUME NEW i \in 1..(n - a) PROVE (u \o v)[i] = w[i]
  <2>1. CASE i <= m - a
    BY <1>1, <1>2, <1>3, <2>1
  <2>2. CASE ~(i <= m - a)
    <3>1. i - (m - a) \in 1..(n - m) /\ m + (i - (m - a)) = a + i
      BY <1>1, <2>2
    <3> QED BY <1>2, <1>3, <2>2, <3>1
  <2> QED BY <2>1, <2>2
<1>5. u \o v = w
  BY <1>1, <1>3, <1>4, SeqEqual
<1> QED BY <1>5 DEF u, v, w, n

----------------------------------------------------------------------------
(* Lines.  Every line has a start, and one only.                           *)

LEMMA HasStart ==
  ASSUME NEW x \in Seq(Byte), NEW i \in 1..(Len(x) + 1)
  PROVE  StartOf(x, i) \in Starts(x, i)
<1> DEFINE Good == {n \in Nat : n <= Len(x) => Starts(x, n + 1) # {}}
<1>1. 0 \in Good
  <2>1. 1 \in Starts(x, 1)
    BY DEF Starts
  <2> QED BY <2>1
<1>2. ASSUME NEW n \in Nat, n \in Good PROVE n + 1 \in Good
  <2> SUFFICES ASSUME n + 1 <= Len(x) PROVE Starts(x, n + 2) # {}
    OBVIOUS
  <2>1. PICK p \in Starts(x, n + 1) : TRUE
    BY <1>2
  <2>2. CASE x[n + 1] = NL
    <3>1. n + 2 \in Starts(x, n + 2)
      BY <2>2 DEF Starts
    <3> QED BY <3>1
  <2>3. CASE x[n + 1] # NL
    <3>1. p \in Starts(x, n + 2)
      BY <2>1, <2>3 DEF Starts
    <3> QED BY <3>1
  <2> QED BY <2>2, <2>3
<1> HIDE DEF Good
<1>3. i - 1 \in Good /\ i - 1 \in Nat
  <2>1. i - 1 \in Nat
    OBVIOUS
  <2> QED BY <1>1, <1>2, <2>1, Induction
<1>4. i - 1 <= Len(x) /\ (i - 1) + 1 = i
  OBVIOUS
<1>5. Starts(x, i) # {}
  BY <1>3, <1>4 DEF Good
<1> QED BY <1>5 DEF StartOf

LEMMA StartIsUnique ==
  ASSUME NEW x \in Seq(Byte), NEW i \in 1..(Len(x) + 1), NEW p \in Starts(x, i)
  PROVE  StartOf(x, i) = p
<1> DEFINE q == StartOf(x, i)
<1>1. q \in Starts(x, i)
  BY HasStart
<1> HIDE DEF q
<1>2. ASSUME NEW u \in Starts(x, i), NEW v \in Starts(x, i), u < v PROVE FALSE
  <2>1. u \in 1..i /\ v \in 1..i /\ x[v - 1] = NL /\ v - 1 \in u..(i - 1)
    BY <1>2 DEF Starts
  <2> QED BY <2>1 DEF Starts
<1>3. q \in 1..i /\ p \in 1..i
  BY <1>1 DEF Starts
<1>4. q = p
  BY <1>1, <1>2, <1>3
<1> QED BY <1>4 DEF q

\* What has been written of a line that has not ended yet.
Run(x) == SubSeq(x, StartOf(x, Len(x) + 1), Len(x))

LEMMA RunOfNothing == Run(<<>>) = <<>>
<1>1. <<>> \in Seq(Byte) /\ Len(<<>>) = 0 /\ 1 \in 1..(Len(<<>>) + 1)
  OBVIOUS
<1>2. StartOf(<<>>, 1) \in 1..1
  BY <1>1, HasStart DEF Starts
<1> QED BY <1>1, <1>2 DEF Run

LEMMA RunIsBytes ==
  ASSUME NEW x \in Seq(Byte)
  PROVE  Run(x) \in Seq(Byte)
<1>1. Len(x) + 1 \in 1..(Len(x) + 1) /\ Len(x) \in Nat
  OBVIOUS
<1>2. StartOf(x, Len(x) + 1) \in 1..(Len(x) + 1)
  BY <1>1, HasStart DEF Starts
<1> QED BY <1>1, <1>2 DEF Run

\* One byte more leaves the lines that have ended alone.
LEMMA LineStays ==
  ASSUME NEW x \in Seq(Byte), NEW b \in Byte, NEW i \in 1..Len(x)
  PROVE  LineTo(Append(x, b), i) = LineTo(x, i)
<1> DEFINE y == Append(x, b)
           p == StartOf(x, i)
<1>1. y \in Seq(Byte) /\ Len(y) = Len(x) + 1 /\ \A j \in 1..Len(x) : y[j] = x[j]
  OBVIOUS
<1> HIDE DEF y
<1>2. i \in 1..(Len(x) + 1) /\ i \in 1..(Len(y) + 1)
  BY <1>1
<1>3. p \in Starts(x, i)
  BY <1>2, HasStart
<1> HIDE DEF p
<1>4. p \in Starts(y, i)
  BY <1>1, <1>3 DEF Starts
<1>5. StartOf(y, i) = p
  BY <1>1, <1>2, <1>4, StartIsUnique
<1>6. p \in 1..i
  BY <1>3 DEF Starts
<1>7. SubSeq(y, p, i) = SubSeq(x, p, i)
  BY <1>1, <1>6
<1> QED BY <1>5, <1>7 DEF LineTo, p, y

\* The line that a newline ends is what there was of it, and the newline; without a
\* newline there is that much more of it.
LEMMA RunGrows ==
  ASSUME NEW x \in Seq(Byte), NEW b \in Byte
  PROVE  /\ b = NL => LineTo(Append(x, b), Len(x) + 1) = Append(Run(x), b)
         /\ Run(Append(x, b)) = IF b = NL THEN <<>> ELSE Append(Run(x), b)
<1> DEFINE y == Append(x, b)
           n == Len(x)
           p == StartOf(x, n + 1)
<1>1. /\ y \in Seq(Byte) /\ Len(y) = n + 1 /\ n \in Nat
      /\ y[n + 1] = b /\ \A j \in 1..n : y[j] = x[j]
  OBVIOUS
<1>2. p \in Starts(x, n + 1)
  BY HasStart
<1>3. SubSeq(Append(x, b), p, n + 1) = Append(SubSeq(x, p, n), b)
  <2>1. p \in 1..(n + 1)
    BY <1>2 DEF Starts
  <2> HIDE DEF p
  <2> QED BY <2>1
<1> HIDE DEF y, p
<1>4. Run(x) = SubSeq(x, p, n)
  BY DEF Run, p, n
<1> HIDE DEF n
<1>5. n + 1 \in 1..(Len(y) + 1) /\ n + 2 \in 1..(Len(y) + 1) /\ Len(y) + 1 = n + 2
  BY <1>1
<1>6. p \in Starts(y, n + 1)
  BY <1>1, <1>2 DEF Starts, n
<1>7. StartOf(y, n + 1) = p
  BY <1>1, <1>5, <1>6, StartIsUnique
<1>8. LineTo(y, n + 1) = Append(Run(x), b)
  BY <1>3, <1>4, <1>7 DEF LineTo, y
<1>9. CASE b = NL
  <2>1. n + 2 \in Starts(y, n + 2)
    BY <1>1, <1>9 DEF Starts
  <2>2. StartOf(y, n + 2) = n + 2
    BY <1>1, <1>5, <2>1, StartIsUnique
  <2>3. Run(y) = SubSeq(y, n + 2, n + 1)
    BY <1>1, <1>5, <2>2 DEF Run
  <2>4. SubSeq(y, n + 2, n + 1) = <<>>
    BY <1>1
  <2> QED BY <1>8, <1>9, <2>3, <2>4 DEF y, n
<1>10. CASE b # NL
  <2>1. p \in Starts(y, n + 2)
    BY <1>1, <1>6, <1>10 DEF Starts
  <2>2. StartOf(y, n + 2) = p
    BY <1>1, <1>5, <2>1, StartIsUnique
  <2>3. Run(y) = SubSeq(y, p, n + 1)
    BY <1>1, <1>5, <2>2 DEF Run
  <2> QED BY <1>3, <1>4, <1>10, <2>3 DEF y
<1> QED BY <1>9, <1>10
----------------------------------------------------------------------------
(* Places in the order of lines.                                           *)

LEMMA NoLines ==
  ASSUME NEW x
  PROVE  AreLines(<<>>, x, {})
BY FS_EmptySet DEF AreLines

\* One byte more, and the lines are the same.
LEMMA LinesStay ==
  ASSUME NEW x \in Seq(Byte), NEW b \in Byte, NEW lines, NEW S \in SUBSET (1..Len(x)),
         AreLines(lines, x, S)
  PROVE  AreLines(lines, Append(x, b), S)
<1>1. \A i \in S : LineTo(Append(x, b), i) = LineTo(x, i)
  BY LineStays
<1> QED BY <1>1 DEF AreLines

LEMMA AppendKeeps ==
  ASSUME NEW L, NEW q \in Seq(L), NEW l \in L, NEW k \in 1..Len(q)
  PROVE  Append(q, l)[k] = q[k]
OBVIOUS

\* The line that ends last comes last.
LEMMA OneLineMore ==
  ASSUME NEW x, NEW n \in Nat, NEW S \in SUBSET (1..n), NEW lines \in Seq(Seq(Byte)),
         AreLines(lines, x, S), LineTo(x, n + 1) \in Seq(Byte)
  PROVE  AreLines(Append(lines, LineTo(x, n + 1)), x, S \cup {n + 1})
<1> DEFINE T == S \cup {n + 1}
           more == Append(lines, LineTo(x, n + 1))
           Rank(P, i) == Cardinality({j \in P : j <= i})
<1>1. IsFiniteSet(S) /\ n + 1 \notin S
  <2>1. IsFiniteSet(1..n)
    BY FS_Interval
  <2>2. IsFiniteSet(S)
    BY <2>1, FS_Subset
  <2>3. n + 1 \notin 1..n
    OBVIOUS
  <2> QED BY <2>2, <2>3
<1>2. Cardinality(S) \in Nat /\ Cardinality(T) = Cardinality(S) + 1
  BY <1>1, FS_AddElement, FS_CardinalityType
<1>3. Len(lines) = Cardinality(S) /\ \A i \in S : lines[Rank(S, i)] = LineTo(x, i)
  BY DEF AreLines
<1>4. Len(more) = Cardinality(T) /\ more[Cardinality(T)] = LineTo(x, n + 1)
  <2>1. \A l : Len(Append(lines, l)) = Len(lines) + 1 /\ Append(lines, l)[Len(lines) + 1] = l
    OBVIOUS
  <2> HIDE DEF T
  <2> QED BY <1>2, <1>3, <2>1
<1>5. ASSUME NEW i \in S PROVE more[Rank(T, i)] = LineTo(x, i)
  <2>1. {j \in T : j <= i} = {j \in S : j <= i}
    OBVIOUS
  <2>2. Rank(S, i) \in 1..Cardinality(S)
    <3> DEFINE P == {j \in S : j <= i}
    <3>1. i \in P /\ P \subseteq S
      OBVIOUS
    <3> HIDE DEF P
    <3>2. IsFiniteSet(P) /\ Cardinality(P) <= Cardinality(S) /\ Cardinality(P) \in Nat
      BY <1>1, <3>1, FS_Subset, FS_CardinalityType
    <3>3. Cardinality(P) # 0
      BY <3>1, <3>2, FS_EmptySet
    <3>4. Cardinality(P) \in 1..Cardinality(S)
      BY <1>2, <3>2, <3>3
    <3> QED BY <3>4 DEF P
  <2>3. \A l \in Seq(Byte), k \in 1..Len(lines) : Append(lines, l)[k] = lines[k]
    BY AppendKeeps
  <2>4. more[Rank(S, i)] = lines[Rank(S, i)]
    BY <1>3, <2>2, <2>3
  <2>5. Rank(T, i) = Rank(S, i)
    BY <2>1
  <2> HIDE DEF Rank, more, T
  <2> QED BY <1>3, <2>4, <2>5
<1>6. Rank(T, n + 1) = Cardinality(T)
  <2>1. \A j \in T : j <= n + 1
    OBVIOUS
  <2> HIDE DEF T
  <2>2. {j \in T : j <= n + 1} = T
    BY <2>1
  <2> QED BY <2>2
<1>7. Len(more) = Cardinality(T) /\ \A i \in T : more[Rank(T, i)] = LineTo(x, i)
  <2> HIDE DEF more, Rank
  <2> QED BY <1>4, <1>5, <1>6
<1> QED BY <1>7 DEF AreLines

\* A newline ends a line, which may fit.
Fits(x, b) == b = NL /\ Len(Run(x)) + 1 <= MaxLine
New(x, b) == IF Fits(x, b) THEN {Len(x) + 1} ELSE {}

LEMMA EndsGrow ==
  ASSUME NEW x \in Seq(Byte), NEW b \in Byte
  PROVE  /\ Ends(Append(x, b)) = Ends(x) \cup (IF b = NL THEN {Len(x) + 1} ELSE {})
         /\ Fitting(Append(x, b)) = Fitting(x) \cup New(x, b)
         /\ Later(Append(x, b)) = Later(x) \cup (IF Ends(x) = {} THEN {} ELSE New(x, b))
         /\ Ends(x) \subseteq 1..Len(x)
<1> DEFINE y == Append(x, b)
           n == Len(x)
<1>1. /\ y \in Seq(Byte) /\ DOMAIN y = 1..(n + 1) /\ DOMAIN x = 1..n /\ n \in Nat
      /\ y[n + 1] = b /\ \A j \in 1..n : y[j] = x[j]
  OBVIOUS
<1>2. \A i \in 1..n : LineTo(y, i) = LineTo(x, i)
  BY LineStays
<1>3. b = NL => Len(LineTo(y, n + 1)) = Len(Run(x)) + 1
  <2>1. b = NL => LineTo(y, n + 1) = Append(Run(x), b)
    BY RunGrows
  <2>2. Len(Append(Run(x), b)) = Len(Run(x)) + 1
    BY RunIsBytes
  <2> HIDE DEF y, n
  <2> QED BY <2>1, <2>2
<1> HIDE DEF y, n
<1>4. Ends(y) = Ends(x) \cup (IF b = NL THEN {n + 1} ELSE {}) /\ Ends(x) \subseteq 1..n
  BY <1>1 DEF Ends
<1>5. New(x, b) = IF Fits(x, b) THEN {n + 1} ELSE {}
  BY DEF New, n
<1>6. Fitting(y) = Fitting(x) \cup New(x, b)
  <2>1. ASSUME NEW i \in Ends(x) PROVE i \in Fitting(y) <=> i \in Fitting(x)
    BY <1>2, <1>4, <2>1 DEF Fitting
  <2>2. n + 1 \in Fitting(y) <=> Fits(x, b)
    BY <1>1, <1>3, <1>4 DEF Fitting, Fits
  <2>3. Fitting(x) \subseteq Ends(x) /\ Fitting(y) \subseteq Ends(x) \cup {n + 1}
    BY <1>4 DEF Fitting
  <2>4. n + 1 \notin Ends(x)
    BY <1>1, <1>4
  <2> QED BY <1>5, <2>1, <2>2, <2>3, <2>4
<1>7. Later(y) = Later(x) \cup (IF Ends(x) = {} THEN {} ELSE New(x, b))
  <2>1. ASSUME NEW i \in Fitting(x) PROVE i \in Later(y) <=> i \in Later(x)
    <3>1. i \in 1..n /\ \A j \in Ends(y) : j < i => j \in Ends(x)
      BY <1>1, <1>4, <2>1 DEF Fitting
    <3> QED BY <1>4, <1>6, <2>1, <3>1 DEF Later
  <2>2. ASSUME Fits(x, b) PROVE n + 1 \in Later(y) <=> Ends(x) # {}
    <3>1. n + 1 \in Fitting(y)
      BY <1>5, <1>6, <2>2
    <3>2. \A j \in Ends(x) : j \in Ends(y) /\ j < n + 1
      BY <1>1, <1>4
    <3>3. \A j \in Ends(y) : j < n + 1 => j \in Ends(x)
      BY <1>1, <1>4
    <3> QED BY <3>1, <3>2, <3>3 DEF Later
  <2>3. Later(x) \subseteq Fitting(x) /\ Later(y) \subseteq Fitting(x) \cup New(x, b)
    BY <1>6 DEF Later
  <2>4. CASE Fits(x, b)
    BY <1>5, <2>1, <2>2, <2>3, <2>4
  <2>5. CASE ~Fits(x, b)
    BY <1>5, <2>1, <2>3, <2>5
  <2> QED BY <2>4, <2>5
<1> QED BY <1>4, <1>6, <1>7 DEF y, n

----------------------------------------------------------------------------
(* The scan.                                                               *)

\* What is kept of a line: all there is of it, until it is too long.
Kept(current, skip, x) ==
    /\ skip => Len(Run(x)) > MaxLine
    /\ ~skip => current = Run(x)

\* What a scan has done to the bytes x, from a clean start, and from any start.
Exact(lines, current, skip, x) ==
    Kept(current, skip, x) /\ AreLines(lines, x, Fitting(x))

Nearly(lines, current, skip, x) ==
    IF Ends(x) = {} THEN lines = <<>>
    ELSE /\ Kept(current, skip, x)
         /\ \/ AreLines(lines, x, Later(x))
            \/ lines # <<>> /\ AreLines(Tail(lines), x, Later(x))

State == [current : Seq(Char), skip : BOOLEAN, lines : Seq(Seq(Byte))]

LEMMA TripleIs ==
  ASSUME NEW C, NEW L, NEW r \in [current : C, skip : BOOLEAN, lines : L]
  PROVE  r = [current |-> r.current, skip |-> r.skip, lines |-> r.lines]
OBVIOUS

LEMMA ByteIsRead ==
  ASSUME NEW s \in State, NEW b \in Byte
  PROVE  /\ ReadByte(s, b) \in State
         /\ b = NL => ReadByte(s, b).current = <<>> /\ ReadByte(s, b).skip = FALSE
         /\ b # NL => /\ ReadByte(s, b).current = Append(s.current, b)
                      /\ ReadByte(s, b).skip = s.skip /\ ReadByte(s, b).lines = s.lines
         /\ b = NL => ReadByte(s, b).lines =
                        IF s.skip \/ Len(s.current) + 1 > MaxLine THEN s.lines
                        ELSE Append(s.lines, Append(s.current, b))
<1> DEFINE line == Append(s.current, b)
<1>1. s.current \in Seq(Char) /\ s.skip \in BOOLEAN /\ s.lines \in Seq(Seq(Byte))
      /\ s = [current |-> s.current, skip |-> s.skip, lines |-> s.lines]
  BY DEF State
<1>2. line \in Seq(Byte) /\ Len(line) = Len(s.current) + 1 /\ <<>> \in Seq(Char)
  <2>1. s.current \in Seq(Byte)
    BY <1>1 DEF Byte
  <2> QED BY <2>1
<1>3. b # NL => line \in Seq(Char)
  BY <1>1 DEF Byte
<1>4. Append(s.lines, line) \in Seq(Seq(Byte))
  <2> HIDE DEF line
  <2> QED BY <1>1, <1>2
<1>5. ReadByte(s, b) =
        IF b # NL THEN [current |-> line, skip |-> s.skip, lines |-> s.lines]
        ELSE IF s.skip THEN [current |-> <<>>, skip |-> FALSE, lines |-> s.lines]
        ELSE IF Len(line) > MaxLine THEN [current |-> <<>>, skip |-> s.skip, lines |-> s.lines]
        ELSE [current |-> <<>>, skip |-> s.skip, lines |-> Append(s.lines, line)]
  <2> DEFINE C == Seq(Char)
             L == Seq(Seq(Byte))
             T == [current : C, skip : BOOLEAN, lines : L]
             long == [s EXCEPT !.current = line]
             skipped == [s EXCEPT !.current = <<>>, !.skip = FALSE]
             dropped == [s EXCEPT !.current = <<>>]
             kept == [s EXCEPT !.current = <<>>, !.lines = Append(s.lines, line)]
  <2>1. s \in [current : C, skip : BOOLEAN, lines : L] /\ <<>> \in C
        /\ (b # NL => line \in C) /\ Append(s.lines, line) \in L
    BY <1>2, <1>3, <1>4 DEF State
  <2> HIDE DEF C, L, line
  <2>2. b # NL => long = [current |-> line, skip |-> s.skip, lines |-> s.lines]
    <3>1. b # NL => long \in T
      BY <2>1
    <3>2. long.current = line /\ long.skip = s.skip /\ long.lines = s.lines
      BY <2>1
    <3> HIDE DEF long
    <3> QED BY <3>1, <3>2, TripleIs
  <2>3. skipped = [current |-> <<>>, skip |-> FALSE, lines |-> s.lines]
    <3>1. skipped \in T
      BY <2>1
    <3>2. skipped.current = <<>> /\ skipped.skip = FALSE /\ skipped.lines = s.lines
      BY <2>1
    <3> HIDE DEF skipped
    <3> QED BY <3>1, <3>2, TripleIs
  <2>4. dropped = [current |-> <<>>, skip |-> s.skip, lines |-> s.lines]
    <3>1. dropped \in T
      BY <2>1
    <3>2. dropped.current = <<>> /\ dropped.skip = s.skip /\ dropped.lines = s.lines
      BY <2>1
    <3> HIDE DEF dropped
    <3> QED BY <3>1, <3>2, TripleIs
  <2>5. kept = [current |-> <<>>, skip |-> s.skip, lines |-> Append(s.lines, line)]
    <3>1. kept \in T
      BY <2>1
    <3>2. kept.current = <<>> /\ kept.skip = s.skip /\ kept.lines = Append(s.lines, line)
      BY <2>1
    <3> HIDE DEF kept
    <3> QED BY <3>1, <3>2, TripleIs
  <2> QED BY <2>2, <2>3, <2>4, <2>5 DEF ReadByte, line
<1> HIDE DEF line
<1>6. ReadByte(s, b) \in State
  BY <1>1, <1>2, <1>3, <1>4, <1>5 DEF State
<1>7. CASE b # NL
  BY <1>5, <1>6, <1>7 DEF line
<1>8. CASE b = NL
  BY <1>1, <1>2, <1>5, <1>6, <1>8 DEF line
<1> QED BY <1>7, <1>8

\* What the next byte does to the lines.
LEMMA ByteIsKept ==
  ASSUME NEW s \in State, NEW b \in Byte, NEW x \in Seq(Byte)
  PROVE  /\ b = NL \/ Kept(s.current, s.skip, x)
              => Kept(ReadByte(s, b).current, ReadByte(s, b).skip, Append(x, b))
         /\ Kept(s.current, s.skip, x) =>
              ReadByte(s, b).lines = IF Fits(x, b)
                                     THEN Append(s.lines, LineTo(Append(x, b), Len(x) + 1))
                                     ELSE s.lines
<1>1. s.skip \in BOOLEAN /\ Run(x) \in Seq(Byte) /\ Len(Run(x)) \in Nat /\ MaxLine \in Nat
  BY RunIsBytes, TailerAssumption DEF State
<1>2. Len(Append(Run(x), b)) = Len(Run(x)) + 1
  BY <1>1
<1>3. Run(Append(x, b)) = IF b = NL THEN <<>> ELSE Append(Run(x), b)
  BY RunGrows
<1>4. b = NL => LineTo(Append(x, b), Len(x) + 1) = Append(Run(x), b)
  BY RunGrows
<1> DEFINE r == ReadByte(s, b)
<1>5. CASE b = NL
  <2>1. r.current = <<>> /\ r.skip = FALSE
        /\ r.lines = IF s.skip \/ Len(s.current) + 1 > MaxLine THEN s.lines
                     ELSE Append(s.lines, Append(s.current, b))
    BY <1>5, ByteIsRead
  <2> HIDE DEF r
  <2>2. Kept(r.current, r.skip, Append(x, b))
    BY <1>3, <1>5, <2>1 DEF Kept
  <2>3. ASSUME Kept(s.current, s.skip, x)
        PROVE  r.lines = IF Fits(x, b)
                         THEN Append(s.lines, LineTo(Append(x, b), Len(x) + 1))
                         ELSE s.lines
    <3>1. CASE s.skip
      BY <1>1, <1>5, <2>1, <2>3, <3>1 DEF Kept, Fits
    <3>2. CASE ~s.skip
      <4>1. s.current = Run(x)
        BY <2>3, <3>2 DEF Kept
      <4>2. Fits(x, b) <=> ~(Len(s.current) + 1 > MaxLine)
        BY <1>1, <1>5, <4>1 DEF Fits
      <4> QED BY <1>4, <1>5, <2>1, <3>2, <4>1, <4>2
    <3> QED BY <1>1, <3>1, <3>2
  <2> QED BY <2>2, <2>3 DEF r
<1>6. CASE b # NL
  <2>1. r.current = Append(s.current, b) /\ r.skip = s.skip /\ r.lines = s.lines
    BY <1>6, ByteIsRead
  <2> HIDE DEF r
  <2>2. Kept(s.current, s.skip, x) => Kept(r.current, r.skip, Append(x, b))
    BY <1>1, <1>2, <1>3, <1>6, <2>1 DEF Kept
  <2> QED BY <1>6, <2>1, <2>2 DEF r, Fits
<1> QED BY <1>5, <1>6
LEMMA LinesGrow ==
  ASSUME NEW x \in Seq(Byte), NEW b \in Byte, NEW lines \in Seq(Seq(Byte)),
         NEW S \in SUBSET (1..Len(x)), AreLines(lines, x, S)
  PROVE  AreLines(IF Fits(x, b) THEN Append(lines, LineTo(Append(x, b), Len(x) + 1)) ELSE lines,
                  Append(x, b), S \cup New(x, b))
<1> DEFINE y == Append(x, b)
           n == Len(x)
<1>1. AreLines(lines, y, S)
  BY LinesStay
<1>2. CASE Fits(x, b)
  <2>1. b = NL /\ Run(x) \in Seq(Byte) /\ n \in Nat
    BY <1>2, RunIsBytes DEF Fits
  <2>2. LineTo(y, n + 1) = Append(Run(x), b)
    BY <2>1, RunGrows
  <2>3. Append(Run(x), b) \in Seq(Byte)
    BY <2>1
  <2> HIDE DEF y
  <2>4. AreLines(Append(lines, LineTo(y, n + 1)), y, S \cup {n + 1})
    BY <1>1, <2>1, <2>2, <2>3, OneLineMore
  <2> QED BY <1>2, <2>4 DEF New, y
<1>3. CASE ~Fits(x, b)
  <2>1. S \cup New(x, b) = S
    BY <1>3 DEF New
  <2> QED BY <1>1, <1>3, <2>1
<1> QED BY <1>2, <1>3

LEMMA ConcatAppend ==
  ASSUME NEW E, NEW p \in Seq(E), NEW q \in Seq(E), NEW e \in E
  PROVE  p \o Append(q, e) = Append(p \o q, e) /\ p \o q \in Seq(E)
OBVIOUS

\* What comes after the first of some lines.
LEMMA TailAppend ==
  ASSUME NEW E, NEW q \in Seq(E), NEW e \in E
  PROVE  /\ q # <<>> => Tail(Append(q, e)) = Append(Tail(q), e) /\ Tail(q) \in Seq(E)
         /\ q = <<>> => Tail(Append(q, e)) = <<>>
         /\ Append(q, e) # <<>>
OBVIOUS

\* A byte keeps both relations, whatever has been delivered before the scan.
LEMMA ByteKeeps ==
  ASSUME NEW s \in State, NEW b \in Byte, NEW x \in Seq(Byte), NEW d \in Seq(Seq(Byte))
  PROVE  LET r == ReadByte(s, b)
         IN  /\ Exact(d \o s.lines, s.current, s.skip, x)
                  => Exact(d \o r.lines, r.current, r.skip, Append(x, b))
             /\ Nearly(d \o s.lines, s.current, s.skip, x)
                  => Nearly(d \o r.lines, r.current, r.skip, Append(x, b))
<1> DEFINE r == ReadByte(s, b)
           y == Append(x, b)
           line == LineTo(y, Len(x) + 1)
           m == d \o s.lines
           more == IF Fits(x, b) THEN Append(m, line) ELSE m
           L == Seq(Byte)
<1>1. s.lines \in Seq(L) /\ d \in Seq(L) /\ r \in State /\ y \in Seq(Byte)
  <2>1. r \in State
    BY ByteIsRead
  <2>2. s.lines \in Seq(L)
    BY DEF State
  <2>3. y \in Seq(Byte)
    OBVIOUS
  <2> QED BY <2>1, <2>2, <2>3
<1>2. b = NL => line = Append(Run(x), b) /\ line \in L
  <2>1. b = NL => line = Append(Run(x), b)
    BY RunGrows
  <2>2. Append(Run(x), b) \in L
    BY RunIsBytes
  <2> HIDE DEF line, L
  <2> QED BY <2>1, <2>2
<1>3. m \in Seq(L)
  <2> HIDE DEF L
  <2> QED BY <1>1
<1>4. Kept(s.current, s.skip, x) => d \o r.lines = more
  <2>1. Kept(s.current, s.skip, x)
          => r.lines = IF Fits(x, b) THEN Append(s.lines, line) ELSE s.lines
    BY ByteIsKept
  <2>2. Fits(x, b) => line \in L
    BY <1>2 DEF Fits
  <2> HIDE DEF L, r, line
  <2>3. Fits(x, b) => d \o Append(s.lines, line) = Append(m, line)
    BY <1>1, <2>2, ConcatAppend
  <2> QED BY <2>1, <2>3
<1>5. b = NL \/ Kept(s.current, s.skip, x) => Kept(r.current, r.skip, y)
  BY ByteIsKept
<1>6. /\ Ends(y) = Ends(x) \cup (IF b = NL THEN {Len(x) + 1} ELSE {})
      /\ Fitting(y) = Fitting(x) \cup New(x, b)
      /\ Later(y) = Later(x) \cup (IF Ends(x) = {} THEN {} ELSE New(x, b))
      /\ Ends(x) \subseteq 1..Len(x)
  BY EndsGrow
<1>7. Fitting(x) \subseteq 1..Len(x) /\ Later(x) \subseteq 1..Len(x)
  BY <1>6 DEF Fitting, Later
<1>8. ASSUME NEW q \in Seq(L), NEW S \in SUBSET (1..Len(x)), AreLines(q, x, S)
      PROVE  AreLines(IF Fits(x, b) THEN Append(q, line) ELSE q, y, S \cup New(x, b))
  BY <1>8, LinesGrow
<1> HIDE DEF r, y, line, m, L
<1>9. ASSUME Exact(m, s.current, s.skip, x) PROVE Exact(d \o r.lines, r.current, r.skip, y)
  <2>1. Kept(s.current, s.skip, x) /\ AreLines(m, x, Fitting(x))
    BY <1>9 DEF Exact
  <2>2. AreLines(more, y, Fitting(y))
    BY <1>3, <1>6, <1>7, <1>8, <2>1
  <2> HIDE DEF more
  <2> QED BY <1>4, <1>5, <2>1, <2>2 DEF Exact
<1>10. ASSUME Nearly(m, s.current, s.skip, x) PROVE Nearly(d \o r.lines, r.current, r.skip, y)
  <2>1. CASE Ends(x) = {} /\ b # NL
    <3>1. Ends(y) = {} /\ m = <<>>
      BY <1>6, <1>10, <2>1 DEF Nearly
    <3>2. r.lines = s.lines
      BY <2>1, ByteIsRead DEF r
    <3> QED BY <3>1, <3>2 DEF Nearly, m
  <2>2. CASE Ends(x) = {} /\ b = NL
    <3>1. Ends(y) # {} /\ m = <<>> /\ Later(y) = {}
      <4>1. Fitting(x) = {}
        BY <2>2 DEF Fitting
      <4>2. Later(x) = {}
        BY <4>1 DEF Later
      <4> QED BY <1>6, <1>10, <2>2, <4>2 DEF Nearly
    <3>2. Kept(r.current, r.skip, y)
      BY <1>5, <2>2
    <3>3. d \o r.lines = <<>> \/ (d \o r.lines # <<>> /\ Tail(d \o r.lines) = <<>>)
      <4> DEFINE own == Append(s.current, b)
      <4>1. r.lines = s.lines \/ r.lines = Append(s.lines, own)
        BY <2>2, ByteIsRead DEF r
      <4>2. own \in L
        <5>1. s.current \in Seq(Byte)
          BY DEF State, Byte
        <5> QED BY <5>1 DEF L
      <4> HIDE DEF own
      <4>3. d \o Append(s.lines, own) = Append(m, own)
        BY <1>1, <4>2, ConcatAppend DEF m
      <4>4. Append(m, own) # <<>> /\ Tail(Append(m, own)) = <<>>
        BY <1>3, <3>1, <4>2, TailAppend
      <4> QED BY <3>1, <4>1, <4>3, <4>4 DEF m
    <3>4. AreLines(<<>>, y, {})
      BY NoLines
    <3> QED BY <3>1, <3>2, <3>3, <3>4 DEF Nearly
  <2>3. CASE Ends(x) # {}
    <3>1. Kept(s.current, s.skip, x)
          /\ (AreLines(m, x, Later(x)) \/ (m # <<>> /\ AreLines(Tail(m), x, Later(x))))
      BY <1>10, <2>3 DEF Nearly
    <3>2. Ends(y) # {} /\ Later(y) = Later(x) \cup New(x, b)
      BY <1>6, <2>3
    <3>3. ASSUME AreLines(m, x, Later(x)) PROVE AreLines(more, y, Later(y))
      BY <1>3, <1>7, <1>8, <3>2, <3>3
    <3>4. ASSUME m # <<>>, AreLines(Tail(m), x, Later(x))
          PROVE  more # <<>> /\ AreLines(Tail(more), y, Later(y))
      <4>1. Tail(m) \in Seq(L)
        BY <1>3, <3>4
      <4>2. AreLines(IF Fits(x, b) THEN Append(Tail(m), line) ELSE Tail(m), y, Later(y))
        BY <1>7, <1>8, <3>2, <3>4, <4>1
      <4>3. Fits(x, b) => line \in L
        BY <1>2 DEF Fits
      <4>4. Fits(x, b) => Append(m, line) # <<>> /\ Tail(Append(m, line)) = Append(Tail(m), line)
        BY <1>3, <3>4, <4>3, TailAppend
      <4> QED BY <3>4, <4>2, <4>4
    <3> HIDE DEF more
    <3> QED BY <1>4, <1>5, <3>1, <3>2, <3>3, <3>4 DEF Nearly
  <2> QED BY <2>1, <2>2, <2>3
<1> QED BY <1>9, <1>10 DEF r, y, m
\* A scan takes the bytes one after the other.
Scans(f, buf, x) ==
    /\ f \in [0..Len(x) -> State]
    /\ f[0] = [current |-> buf, skip |-> tail.skip, lines |-> <<>>]
    /\ \A i \in 1..Len(x) : f[i] = ReadByte(f[i - 1], x[i])
    /\ Scan(buf, x) = f[Len(x)]

LEMMA ScanIs ==
  ASSUME NEW buf \in Seq(Char), tail.skip \in BOOLEAN, NEW x \in Seq(Byte)
  PROVE  \E f : Scans(f, buf, x)
<1> DEFINE n == Len(x)
           start == [current |-> buf, skip |-> tail.skip, lines |-> <<>>]
           Body(f, i) == IF i = 0 THEN start ELSE ReadByte(f[i - 1], x[i])
           after == CHOOSE f : f = [i \in 0..n |-> Body(f, i)]
           step == [p \in (1..n) \X State |-> ReadByte(p[2], x[p[1]])]
<1>1. n \in Nat /\ \A i \in 1..n : x[i] \in Byte
  OBVIOUS
<1>2. start \in State
  BY DEF State
<1>3. step \in [(1..n) \X State -> State]
  <2>1. \A i \in 1..n, s \in State : ReadByte(s, x[i]) \in State
    BY <1>1, ByteIsRead
  <2> QED BY <2>1
<1>4. \A i \in 1..n, s \in State : step[<<i, s>>] = ReadByte(s, x[i])
  OBVIOUS
<1> HIDE DEF step, n, start
<1>5. PICK f : Steps(f, n, State, start, step)
  BY <1>1, <1>2, <1>3, RecursionExists
<1>6. f \in [0..n -> State] /\ f[0] = start /\ \A i \in 1..n : f[i] = step[<<i, f[i - 1]>>]
  BY <1>5 DEF Steps
<1>7. f = [i \in 0..n |-> Body(f, i)]
  <2>1. ASSUME NEW i \in 0..n PROVE f[i] = Body(f, i)
    <3>1. CASE i = 0
      BY <1>6, <3>1
    <3>2. CASE i # 0
      <4>1. i \in 1..n /\ i - 1 \in 0..n /\ f[i - 1] \in State
        BY <1>1, <1>6, <3>2
      <4> QED BY <1>4, <1>6, <3>2, <4>1
    <3> QED BY <3>1, <3>2
  <2> HIDE DEF Body
  <2> QED BY <1>6, <2>1
<1>8. after = [i \in 0..n |-> Body(after, i)]
  <2> HIDE DEF Body
  <2> QED BY <1>7
<1> HIDE DEF after
<1>9. after[0] = start /\ \A i \in 1..n : after[i] = ReadByte(after[i - 1], x[i])
  <2>1. \A i \in 0..n : after[i] = Body(after, i)
    <3> HIDE DEF Body
    <3> QED BY <1>8
  <2>2. 0 \in 0..n /\ \A i \in 1..n : i \in 0..n /\ i # 0
    BY <1>1
  <2> QED BY <2>1, <2>2
<1>10. \A i \in Nat : i <= n => after[i] \in State
  <2> DEFINE Good == {i \in Nat : i <= n => after[i] \in State}
  <2>1. 0 \in Good
    BY <1>2, <1>9
  <2>2. ASSUME NEW i \in Nat, i \in Good PROVE i + 1 \in Good
    <3> SUFFICES ASSUME i + 1 <= n PROVE after[i + 1] \in State
      OBVIOUS
    <3>1. after[i] \in State /\ i + 1 \in 1..n /\ (i + 1) - 1 = i /\ x[i + 1] \in Byte
      BY <1>1, <2>2
    <3>2. after[i + 1] = ReadByte(after[i], x[i + 1])
      BY <1>9, <3>1
    <3> QED BY <3>1, <3>2, ByteIsRead
  <2> HIDE DEF Good
  <2>3. \A i \in Nat : i \in Good
    BY <2>1, <2>2, Induction
  <2> QED BY <2>3 DEF Good
<1>11. after \in [0..n -> State]
  <2>1. \A i \in 0..n : after[i] \in State
    BY <1>1, <1>10
  <2>2. after = [i \in 0..n |-> after[i]]
    <3> HIDE DEF Body
    <3> QED BY <1>8
  <2> QED BY <2>1, <2>2
<1>12. Scan(buf, x) = after[n]
  BY DEF Scan, after, n, start
<1> QED BY <1>9, <1>11, <1>12 DEF Scans, n, start

\* What holds before a scan of its bytes holds after it of all bytes.
LEMMA ScanKeeps ==
  ASSUME NEW buf \in Seq(Char), tail.skip \in BOOLEAN, NEW x \in Seq(Byte),
         NEW w \in Seq(Byte), NEW d \in Seq(Seq(Byte))
  PROVE  LET s == Scan(buf, x)
         IN  /\ s \in State
             /\ Exact(d, buf, tail.skip, w) => Exact(d \o s.lines, s.current, s.skip, w \o x)
             /\ Nearly(d, buf, tail.skip, w) => Nearly(d \o s.lines, s.current, s.skip, w \o x)
<1>1. PICK f : Scans(f, buf, x)
  BY ScanIs
<1> DEFINE n == Len(x)
           B(i) == w \o SubSeq(x, 1, i)
           Fine(i) == /\ f[i] \in State
                      /\ Exact(d, buf, tail.skip, w)
                           => Exact(d \o f[i].lines, f[i].current, f[i].skip, B(i))
                      /\ Nearly(d, buf, tail.skip, w)
                           => Nearly(d \o f[i].lines, f[i].current, f[i].skip, B(i))
           Good == {i \in Nat : i <= n => Fine(i)}
<1> HIDE DEF Good, Fine, B
<1>2. /\ n \in Nat /\ \A i \in 0..n : f[i] \in State
      /\ f[0] = [current |-> buf, skip |-> tail.skip, lines |-> <<>>]
      /\ \A i \in 1..n : f[i] = ReadByte(f[i - 1], x[i])
      /\ Scan(buf, x) = f[n]
  <2>1. n \in Nat
    OBVIOUS
  <2> QED BY <1>1, <2>1 DEF Scans
<1> USE DEF Good, Fine, B
<1>3. 0 \in Good
  <2>1. B(0) = w /\ 0 \in 0..n
    BY <1>2
  <2>2. f[0].lines = <<>> /\ f[0].current = buf /\ f[0].skip = tail.skip
    BY <1>2
  <2>3. d \o f[0].lines = d
    <3> DEFINE L == Seq(Byte)
    <3>1. \A q \in Seq(L) : q \o <<>> = q
      <4> HIDE DEF L
      <4> QED OBVIOUS
    <3> QED BY <2>2, <3>1
  <2> HIDE DEF B
  <2>4. Fine(0)
    BY <1>2, <2>1, <2>2, <2>3
  <2> HIDE DEF Fine
  <2> QED BY <2>4
<1>4. ASSUME NEW i \in Nat, i \in Good PROVE i + 1 \in Good
  <2> SUFFICES ASSUME i + 1 <= n PROVE Fine(i + 1)
    OBVIOUS
  <2>1. Fine(i) /\ i \in 0..n /\ i + 1 \in 1..n /\ i + 1 \in 0..n /\ (i + 1) - 1 = i
    <3> HIDE DEF Fine
    <3> QED BY <1>2, <1>4
  <2>2. f[i + 1] = ReadByte(f[i], x[i + 1]) /\ f[i + 1] \in State /\ f[i] \in State
    BY <1>2, <2>1
  <2>3. x[i + 1] \in Byte /\ B(i) \in Seq(Byte) /\ B(i + 1) = Append(B(i), x[i + 1])
    <3>1. x[i + 1] \in Byte /\ SubSeq(x, 1, i) \in Seq(Byte)
      BY <2>1
    <3>2. SubSeq(x, 1, i + 1) = Append(SubSeq(x, 1, i), x[i + 1])
      BY <2>1
    <3> QED BY <3>1, <3>2, ConcatAppend
  <2> HIDE DEF B
  <2>4. /\ Exact(d \o f[i].lines, f[i].current, f[i].skip, B(i))
             => Exact(d \o f[i + 1].lines, f[i + 1].current, f[i + 1].skip, B(i + 1))
        /\ Nearly(d \o f[i].lines, f[i].current, f[i].skip, B(i))
             => Nearly(d \o f[i + 1].lines, f[i + 1].current, f[i + 1].skip, B(i + 1))
    BY <2>2, <2>3, ByteKeeps
  <2> QED BY <2>1, <2>2, <2>4
<1> HIDE DEF Good
<1>5. n \in Good
  BY <1>2, <1>3, <1>4, Induction
<1>6. Fine(n)
  <2> HIDE DEF Fine
  <2> QED BY <1>2, <1>5 DEF Good
<1>7. B(n) = w \o x
  <2>1. SubSeq(x, 1, Len(x)) = x
    OBVIOUS
  <2> QED BY <2>1
<1> QED BY <1>2, <1>6, <1>7
----------------------------------------------------------------------------
(* Types.                                                                  *)

TailerRecord == [offset : Nat, buf : Seq(Char), skip : BOOLEAN]

\* A read is a read of a file, by a tailer.
ReadInv ==
    /\ tail # NoTailer => tail \in TailerRecord
    /\ pc = "read" => tail # NoTailer /\ file # Absent

TypeInv == TypeOK /\ ReadInv

\* What is left of a line when there are no more bytes.
LEMMA EndIs ==
  ASSUME NEW s \in State
  PROVE  /\ AtEOF(s) \in [offset : {IF Len(file) > tail.offset THEN Len(file) ELSE tail.offset},
                          buf : Seq(Char), skip : BOOLEAN]
         /\ Len(AtEOF(s).buf) <= MaxLine
         /\ AtEOF(s).skip <=> s.skip \/ Len(s.current) > MaxLine
         /\ Len(s.current) <= MaxLine => AtEOF(s).buf = s.current
<1>1. s.current \in Seq(Char) /\ s.skip \in BOOLEAN /\ Len(s.current) \in Nat /\ MaxLine \in Nat
  BY TailerAssumption DEF State
<1>2. Len(<<>>) = 0 /\ <<>> \in Seq(Char)
  OBVIOUS
<1> DEFINE e == AtEOF(s)
           C == Seq(Char)
<1>3. /\ e = [offset |-> IF Len(file) > tail.offset THEN Len(file) ELSE tail.offset,
              buf    |-> IF Len(s.current) <= MaxLine THEN s.current ELSE <<>>,
              skip   |-> s.skip \/ Len(s.current) > MaxLine]
  BY DEF AtEOF
<1>4. e.buf = (IF Len(s.current) <= MaxLine THEN s.current ELSE <<>>)
  BY <1>3
<1>5. e.skip = (s.skip \/ Len(s.current) > MaxLine)
  BY <1>3
<1>6. e \in [offset : {IF Len(file) > tail.offset THEN Len(file) ELSE tail.offset},
             buf : C, skip : BOOLEAN]
  <2>1. s.current \in C /\ <<>> \in C
    BY <1>1, <1>2
  <2> HIDE DEF C, e
  <2> QED BY <1>3, <2>1
<1> HIDE DEF e
<1>7. Len(e.buf) <= MaxLine
  BY <1>1, <1>2, <1>4
<1> QED BY <1>4, <1>5, <1>6, <1>7 DEF e

LEMMA RestIsBytes ==
  ASSUME file \in Seq(Byte), tail.offset \in Nat
  PROVE  /\ Rest \in Seq(Byte)
         /\ \A n \in 0..Len(Rest) : SubSeq(Rest, 1, n) \in Seq(Byte)
<1>1. Rest \in Seq(Byte)
  BY DEF Rest
<1> HIDE DEF Rest
<1> QED BY <1>1

LEMMA InitTypeInv == Init => TypeInv
<1> SUFFICES ASSUME Init PROVE TypeInv
  OBVIOUS
<1>1. PICK n \in 0..MaxStart : file \in [1..n -> Byte]
  BY DEF Init
<1>2. n \in 0..MaxFile /\ MaxGen \in Nat /\ MaxLine \in Nat
  BY TailerAssumption
<1>3. file \in Seq(Byte) /\ Len(file) = n
  BY <1>1, <1>2
<1>4. tail = [offset |-> Len(file), buf |-> <<>>, skip |-> FALSE]
      /\ gen = 0 /\ pc = "idle" /\ delivered = <<>>
      /\ since = [gen |-> 0, at |-> Len(file),
                  clean |-> file = <<>> \/ file[Len(file)] = NL]
  BY DEF Init
<1>5. tail \in TailerRecord /\ tail.offset \in 0..MaxFile /\ tail.buf \in Seq(Char)
      /\ Len(tail.buf) <= MaxLine /\ tail.skip \in BOOLEAN
  BY <1>2, <1>3, <1>4 DEF TailerRecord
<1>6. since \in [gen : 0..MaxGen, at : 0..MaxFile, clean : BOOLEAN]
  BY <1>2, <1>3, <1>4
<1>7. delivered \in Seq(Seq(Byte))
  BY <1>4
<1> QED BY <1>2, <1>3, <1>4, <1>5, <1>6, <1>7 DEF TypeInv, TypeOK, ReadInv

\* What TypeInv says of a tailer.
LEMMA TailerIs ==
  ASSUME TypeInv, tail # NoTailer
  PROVE  /\ tail \in TailerRecord /\ tail.offset \in 0..MaxFile /\ tail.buf \in Seq(Char)
         /\ Len(tail.buf) <= MaxLine /\ tail.skip \in BOOLEAN
         /\ tail = [offset |-> tail.offset, buf |-> tail.buf, skip |-> tail.skip]
<1>1. tail \in TailerRecord
  BY DEF TypeInv, ReadInv
<1>2. tail = [offset |-> tail.offset, buf |-> tail.buf, skip |-> tail.skip]
  BY <1>1 DEF TailerRecord
<1> QED BY <1>1, <1>2 DEF TypeInv, TypeOK

\* A step that makes a tailer of the given parts.
LEMMA TailerMade ==
  ASSUME NEW o \in 0..MaxFile, NEW b \in Seq(Char), Len(b) <= MaxLine, NEW k \in BOOLEAN,
         tail' = [offset |-> o, buf |-> b, skip |-> k]
  PROVE  /\ tail' \in TailerRecord /\ tail'.offset \in 0..MaxFile /\ tail'.buf \in Seq(Char)
         /\ Len(tail'.buf) <= MaxLine /\ tail'.skip \in BOOLEAN
         /\ tail' # NoTailer
<1>1. MaxFile \in Nat
  BY TailerAssumption
<1>2. tail' \in TailerRecord
  BY <1>1 DEF TailerRecord
<1>3. tail' # NoTailer
  BY <1>2, TailerAssumption DEF TailerRecord
<1> QED BY <1>2, <1>3

\* The steps of the tailer, by what they make of it.
LEMMA ReadMakes ==
  ASSUME TypeInv, Read
  PROVE  LET s == Scan(tail.buf, Rest)
         IN  /\ s \in State /\ delivered' = delivered \o s.lines
             /\ delivered' \in Seq(Seq(Byte))
             /\ tail' = [offset |-> tail'.offset, buf |-> tail'.buf, skip |-> tail'.skip]
             /\ tail'.offset = (IF Len(file) > tail.offset THEN Len(file) ELSE tail.offset)
             /\ tail'.offset \in 0..MaxFile /\ tail'.buf \in Seq(Char)
             /\ Len(tail'.buf) <= MaxLine /\ tail'.skip \in BOOLEAN
             /\ tail'.skip <=> s.skip \/ Len(s.current) > MaxLine
             /\ Len(s.current) <= MaxLine => tail'.buf = s.current
<1> DEFINE s == Scan(tail.buf, Rest)
<1>1. pc = "read" /\ tail # NoTailer /\ file # Absent
  BY DEF Read, TypeInv, ReadInv
<1>2. file \in Seq(Byte) /\ Len(file) <= MaxFile /\ Len(file) \in Nat /\ MaxFile \in Nat
      /\ delivered \in Seq(Seq(Byte))
  BY <1>1, TailerAssumption DEF TypeInv, TypeOK
<1>3. tail.offset \in 0..MaxFile /\ tail.buf \in Seq(Char) /\ tail.skip \in BOOLEAN
  BY <1>1, TailerIs
<1>4. s \in State
  <2>1. Rest \in Seq(Byte)
    BY <1>2, <1>3, RestIsBytes
  <2> QED BY <1>2, <1>3, <2>1, ScanKeeps
<1>5. tail' = AtEOF(s) /\ delivered' = delivered \o s.lines
  BY DEF Read
<1>6. delivered \o s.lines \in Seq(Seq(Byte))
  <2> DEFINE L == Seq(Byte)
  <2>1. s.lines \in Seq(L) /\ delivered \in Seq(L)
    BY <1>2, <1>4 DEF State
  <2> HIDE DEF L, s
  <2>2. delivered \o s.lines \in Seq(L)
    BY <2>1
  <2> QED BY <2>2 DEF L
<1>7. (IF Len(file) > tail.offset THEN Len(file) ELSE tail.offset) \in 0..MaxFile
  BY <1>2, <1>3
<1> HIDE DEF s
<1>8. /\ tail' \in [offset : {IF Len(file) > tail.offset THEN Len(file) ELSE tail.offset},
                    buf : Seq(Char), skip : BOOLEAN]
      /\ Len(tail'.buf) <= MaxLine
      /\ tail'.skip <=> s.skip \/ Len(s.current) > MaxLine
      /\ Len(s.current) <= MaxLine => tail'.buf = s.current
  BY <1>4, <1>5, EndIs
<1>9. tail' = [offset |-> tail'.offset, buf |-> tail'.buf, skip |-> tail'.skip]
  BY <1>8
<1> QED BY <1>4, <1>5, <1>6, <1>7, <1>8, <1>9 DEF s

LEMMA FailMakes ==
  ASSUME TypeInv, ReadFails
  PROVE  /\ tail' = [offset |-> tail.offset, buf |-> <<>>, skip |-> tail'.skip]
         /\ tail'.skip \in BOOLEAN /\ tail.offset \in 0..MaxFile
         /\ since' = [gen |-> since.gen, at |-> tail.offset, clean |-> FALSE]
<1>1. pc = "read" /\ tail # NoTailer /\ file # Absent
  BY DEF ReadFails, TypeInv, ReadInv
<1>2. file \in Seq(Byte) /\ MaxFile \in Nat
  BY <1>1, TailerAssumption DEF TypeInv, TypeOK
<1>3. tail \in TailerRecord /\ tail.offset \in 0..MaxFile /\ tail.buf \in Seq(Char)
      /\ tail.skip \in BOOLEAN
  BY <1>1, TailerIs
<1>4. PICK n \in 0..Len(Rest) :
        tail' = [tail EXCEPT !.buf = <<>>, !.skip = Scan(tail.buf, SubSeq(Rest, 1, n)).skip]
  BY DEF ReadFails
<1> DEFINE k == Scan(tail.buf, SubSeq(Rest, 1, n)).skip
<1>5. k \in BOOLEAN
  <2>1. SubSeq(Rest, 1, n) \in Seq(Byte)
    BY <1>2, <1>3, RestIsBytes
  <2>2. Scan(tail.buf, SubSeq(Rest, 1, n)) \in State
    <3>1. <<>> \in Seq(Byte) /\ <<>> \in Seq(Seq(Byte))
      OBVIOUS
    <3> QED BY <1>3, <2>1, <3>1, ScanKeeps
  <2> QED BY <2>2 DEF State
<1> HIDE DEF k
<1>6. tail' = [tail EXCEPT !.buf = <<>>, !.skip = k]
  BY <1>4 DEF k
<1>7. tail' \in TailerRecord /\ tail'.offset = tail.offset /\ tail'.buf = <<>> /\ tail'.skip = k
  <2> DEFINE C == Seq(Char)
  <2>1. tail \in [offset : Nat, buf : C, skip : BOOLEAN] /\ <<>> \in C
    BY <1>3 DEF TailerRecord
  <2> HIDE DEF C
  <2>2. tail' \in [offset : Nat, buf : C, skip : BOOLEAN]
    BY <1>5, <1>6, <2>1
  <2>3. tail'.offset = tail.offset /\ tail'.buf = <<>> /\ tail'.skip = k
    BY <1>6, <2>1
  <2> QED BY <2>2, <2>3 DEF C, TailerRecord
<1>8. tail' = [offset |-> tail'.offset, buf |-> tail'.buf, skip |-> tail'.skip]
  BY <1>7 DEF TailerRecord
<1>9. since' = [gen |-> since.gen, at |-> tail.offset, clean |-> FALSE]
  <2> DEFINE T == [gen : 0..MaxGen, at : 0..MaxFile, clean : BOOLEAN]
  <2>1. since \in T
    BY DEF TypeInv, TypeOK
  <2>2. since' = [since EXCEPT !.at = tail.offset, !.clean = FALSE]
    BY DEF ReadFails
  <2>3. since' \in T /\ since'.gen = since.gen /\ since'.at = tail.offset /\ since'.clean = FALSE
    BY <1>3, <2>1, <2>2
  <2>4. since' = [gen |-> since'.gen, at |-> since'.at, clean |-> since'.clean]
    BY <2>3
  <2> QED BY <2>3, <2>4
<1> QED BY <1>3, <1>5, <1>7, <1>8, <1>9

LEMMA CutMakes ==
  ASSUME TypeInv, StatTruncated
  PROVE  tail' = [offset |-> 0, buf |-> <<>>, skip |-> tail.skip]
<1>1. tail \in TailerRecord
  BY TailerIs DEF StatTruncated
<1>2. tail' = [tail EXCEPT !.offset = 0, !.buf = <<>>]
  BY DEF StatTruncated
<1>3. tail' \in TailerRecord /\ tail'.offset = 0 /\ tail'.buf = <<>> /\ tail'.skip = tail.skip
  <2> DEFINE C == Seq(Char)
  <2>1. tail \in [offset : Nat, buf : C, skip : BOOLEAN] /\ <<>> \in C
    BY <1>1 DEF TailerRecord
  <2> HIDE DEF C
  <2>2. tail' \in [offset : Nat, buf : C, skip : BOOLEAN]
    BY <1>2, <2>1
  <2>3. tail'.offset = 0 /\ tail'.buf = <<>> /\ tail'.skip = tail.skip
    BY <1>2, <2>1
  <2> QED BY <2>2, <2>3 DEF C, TailerRecord
<1>4. tail' = [offset |-> tail'.offset, buf |-> tail'.buf, skip |-> tail'.skip]
  BY <1>3 DEF TailerRecord
<1> QED BY <1>3, <1>4
\* Steps of others, and steps that leave the tailer alone.
LEMMA StepKeepsType ==
  ASSUME TypeInv, [Next]_vars
  PROVE  TypeInv'
<1> USE DEF TypeInv, TypeOK, ReadInv
<1>0. /\ MaxFile \in Nat /\ MaxGen \in Nat /\ MaxLine \in Nat /\ 0 \in 0..MaxFile
      /\ Len(<<>>) = 0 /\ 0 <= MaxLine /\ <<>> \in Seq(Char) /\ <<>> \in Seq(Byte)
      /\ <<>> \in Seq(Seq(Byte))
  BY TailerAssumption
<1>1. ASSUME NEW b \in Byte, Append1(b) PROVE TypeInv'
  <2>1. file \in Seq(Byte) /\ Len(file) <= MaxFile /\ Len(file) < MaxFile /\ file' = Append(file, b)
    BY <1>1 DEF Append1
  <2>2. file' \in Seq(Byte) /\ Len(file') <= MaxFile
    BY <1>0, <2>1
  <2>3. file' # Absent
    BY <2>2, TailerAssumption DEF Byte
  <2> QED BY <1>1, <2>2, <2>3 DEF Append1
<1>2. CASE Truncate
  <2>1. file' = <<>> /\ gen' \in 0..MaxGen /\ UNCHANGED <<tail, pc, since, delivered>>
    BY <1>0, <1>2 DEF Truncate
  <2>2. file' # Absent
    BY <1>0, <2>1, TailerAssumption DEF Byte
  <2> QED BY <1>0, <2>1, <2>2
<1>3. CASE Delete
  <2>1. file' = Absent /\ pc' = "idle" /\ UNCHANGED <<gen, tail, since, delivered>>
    BY <1>3 DEF Delete
  <2> QED BY <2>1
<1>4. CASE Create
  <2>1. file' = <<>> /\ gen' \in 0..MaxGen /\ pc # "read" /\ UNCHANGED <<tail, pc, since, delivered>>
    BY <1>0, <1>4 DEF Create
  <2> QED BY <1>0, <2>1
<1>5. CASE OpenFails
  <2>1. tail' = NoTailer /\ pc' = "idle" /\ UNCHANGED <<file, gen, since, delivered>>
    BY <1>5 DEF OpenFails
  <2> QED BY <2>1
<1>6. CASE Stat
  <2>1. pc' \in {"idle", "read"} /\ tail # NoTailer /\ file # Absent
        /\ UNCHANGED <<file, gen, tail, since, delivered>>
    BY <1>6 DEF Stat
  <2> QED BY <2>1
<1>7. CASE StatTruncated
  <2>1. tail' = [offset |-> 0, buf |-> <<>>, skip |-> tail.skip] /\ tail.skip \in BOOLEAN
    BY <1>7, CutMakes, TailerIs DEF StatTruncated
  <2>2. /\ tail' \in TailerRecord /\ tail'.offset \in 0..MaxFile /\ tail'.buf \in Seq(Char)
        /\ Len(tail'.buf) <= MaxLine /\ tail'.skip \in BOOLEAN
        /\ tail' # NoTailer
    BY <1>0, <2>1, TailerMade
  <2>3. /\ pc' \in {"idle", "read"} /\ file # Absent /\ delivered' = <<>>
        /\ since' = [gen |-> gen, at |-> 0, clean |-> ~tail.skip] /\ UNCHANGED <<file, gen>>
    BY <1>7 DEF StatTruncated
  <2>4. since' \in [gen : 0..MaxGen, at : 0..MaxFile, clean : BOOLEAN]
    BY <1>0, <2>1, <2>3
  <2> QED BY <1>0, <2>2, <2>3, <2>4
<1>8. CASE Read
  <2>1. /\ delivered' \in Seq(Seq(Byte))
        /\ tail' = [offset |-> tail'.offset, buf |-> tail'.buf, skip |-> tail'.skip]
        /\ tail'.offset \in 0..MaxFile /\ tail'.buf \in Seq(Char)
        /\ Len(tail'.buf) <= MaxLine /\ tail'.skip \in BOOLEAN
    BY <1>8, ReadMakes
  <2>2. tail' \in TailerRecord
    BY <1>0, <2>1, TailerMade
  <2>3. pc' = "idle" /\ UNCHANGED <<file, gen, since>>
    BY <1>8 DEF Read
  <2> QED BY <2>1, <2>2, <2>3
<1>9. CASE ReadFails
  <2>1. /\ tail' = [offset |-> tail.offset, buf |-> <<>>, skip |-> tail'.skip]
        /\ tail'.skip \in BOOLEAN /\ tail.offset \in 0..MaxFile
        /\ since' = [gen |-> since.gen, at |-> tail.offset, clean |-> FALSE]
    BY <1>9, FailMakes
  <2>2. /\ tail' \in TailerRecord /\ tail'.offset \in 0..MaxFile /\ tail'.buf \in Seq(Char)
        /\ Len(tail'.buf) <= MaxLine /\ tail'.skip \in BOOLEAN
    BY <1>0, <2>1, TailerMade
  <2>3. pc' = "idle" /\ delivered' = <<>> /\ UNCHANGED <<file, gen>>
    BY <1>9 DEF ReadFails
  <2>4. since' \in [gen : 0..MaxGen, at : 0..MaxFile, clean : BOOLEAN]
    BY <2>1
  <2> QED BY <1>0, <2>2, <2>3, <2>4
<1>10. CASE NewTailer
  <2>1. /\ tail' = [offset |-> 0, buf |-> <<>>, skip |-> FALSE] /\ delivered' = <<>>
        /\ since' = [gen |-> gen, at |-> 0, clean |-> TRUE]
        /\ pc' = "idle" /\ UNCHANGED <<file, gen>>
    BY <1>10 DEF NewTailer
  <2>2. /\ tail' \in TailerRecord /\ tail'.offset \in 0..MaxFile /\ tail'.buf \in Seq(Char)
        /\ Len(tail'.buf) <= MaxLine /\ tail'.skip \in BOOLEAN
    BY <1>0, <2>1, TailerMade
  <2>3. since' \in [gen : 0..MaxGen, at : 0..MaxFile, clean : BOOLEAN]
    BY <1>0, <2>1
  <2> QED BY <1>0, <2>1, <2>2, <2>3
<1>11. CASE UNCHANGED vars
  BY <1>11 DEF vars
<1> QED BY <1>1, <1>2, <1>3, <1>4, <1>5, <1>6, <1>7, <1>8, <1>9, <1>10, <1>11 DEF Next

\* Every variable keeps its type; a tailer keeps no more than MaxLine bytes of a file in
\* memory, however long a line the agent writes and in however many pieces (ReadNewLines).
THEOREM TailerTypeCorrect == Spec => []TypeOK
<1>1. TypeInv => TypeOK
  BY DEF TypeInv
<1> QED BY <1>1, InitTypeInv, StepKeepsType, PTL DEF Spec

----------------------------------------------------------------------------
(* What is delivered.                                                      *)

\* As long as the content is the one that since is about, what has been read of it is
\* there, and has been scanned as if at once.
ScanInv ==
    /\ since.gen <= gen
    /\ Watching => /\ since.at <= tail.offset /\ tail.offset <= Len(file)
                   /\ Nearly(delivered, tail.buf, tail.skip, Consumed)
                   /\ since.clean => Exact(delivered, tail.buf, tail.skip, Consumed)

\* Nothing has been read yet.
LEMMA StartsFresh ==
  ASSUME NEW k \in BOOLEAN
  PROVE  Nearly(<<>>, <<>>, k, <<>>) /\ (~k => Exact(<<>>, <<>>, k, <<>>))
<1>1. Ends(<<>>) = {}
  BY DEF Ends
<1>2. Fitting(<<>>) = {}
  BY <1>1 DEF Fitting
<1>3. ~k => Kept(<<>>, k, <<>>)
  BY RunOfNothing DEF Kept
<1> QED BY <1>1, <1>2, <1>3, NoLines DEF Nearly, Exact

LEMMA InitScanInv == Init => ScanInv
<1> SUFFICES ASSUME Init PROVE ScanInv
  OBVIOUS
<1>1. /\ tail.offset = Len(file) /\ tail.buf = <<>> /\ tail.skip = FALSE
      /\ since.gen = 0 /\ since.at = Len(file) /\ gen = 0 /\ delivered = <<>>
  BY DEF Init
<1>2. PICK n \in 0..MaxStart : file \in [1..n -> Byte]
  BY DEF Init
<1>3. n \in Nat
  BY TailerAssumption
<1>4. file \in Seq(Byte) /\ Len(file) \in Nat
  BY <1>2, <1>3
<1>5. Consumed = <<>>
  BY <1>1, <1>4, NothingBetween DEF Consumed
<1>6. Nearly(<<>>, <<>>, FALSE, <<>>) /\ Exact(<<>>, <<>>, FALSE, <<>>)
  BY StartsFresh
<1>7. /\ Nearly(delivered, tail.buf, tail.skip, Consumed)
      /\ Exact(delivered, tail.buf, tail.skip, Consumed)
  <2>1. tail.skip = FALSE /\ tail.buf = <<>> /\ delivered = <<>>
    BY <1>1
  <2> QED BY <1>5, <1>6, <2>1, Zenon
<1>8. since.gen <= gen /\ since.at <= tail.offset /\ tail.offset <= Len(file)
  BY <1>1, <1>4
<1> QED BY <1>7, <1>8 DEF ScanInv

\* Steps that leave the tailer and what it has read alone.
LEMMA OthersKeepScan ==
  ASSUME TypeInv, ScanInv, UNCHANGED <<tail, since, delivered>>,
         gen' \in 0..MaxGen, gen <= gen',
         gen' = gen => /\ Watching' => Watching
                       /\ Watching' => file' = file \/ \E b \in Byte : file' = Append(file, b)
  PROVE  ScanInv'
<1>1. since.gen \in Nat /\ gen \in Nat /\ gen' \in Nat /\ since.gen <= gen
  BY TailerAssumption DEF TypeInv, TypeOK, ScanInv
<1>2. since'.gen <= gen'
  BY <1>1
<1>3. ASSUME Watching'
      PROVE  /\ since'.at <= tail'.offset /\ tail'.offset <= Len(file')
             /\ Nearly(delivered', tail'.buf, tail'.skip, Consumed')
             /\ since'.clean => Exact(delivered', tail'.buf, tail'.skip, Consumed')
  <2>1. gen' = gen
    BY <1>1, <1>3 DEF Watching
  <2>2. Watching
    BY <1>3, <2>1
  <2>3. /\ since.at <= tail.offset /\ tail.offset <= Len(file)
        /\ Nearly(delivered, tail.buf, tail.skip, Consumed)
        /\ since.clean => Exact(delivered, tail.buf, tail.skip, Consumed)
    BY <2>2 DEF ScanInv
  <2>4. file \in Seq(Byte) /\ tail.offset \in Nat /\ since.at \in Nat
    <3>1. tail # NoTailer /\ file # Absent
      BY <2>2 DEF Watching
    <3>2. tail.offset \in Nat /\ since.at \in Nat
      BY <3>1, TailerIs, TailerAssumption DEF TypeInv, TypeOK
    <3> QED BY <3>1, <3>2 DEF TypeInv, TypeOK
  <2>5. Consumed' = Consumed /\ tail.offset <= Len(file')
    <3>1. CASE file' = file
      BY <2>3, <3>1 DEF Consumed
    <3>2. ASSUME NEW b \in Byte, file' = Append(file, b) PROVE Consumed' = Consumed /\ tail.offset <= Len(file')
      <4>1. Len(file') = Len(file) + 1 /\ Len(file) \in Nat
        BY <2>4, <3>2
      <4>2. SubSeq(file', since.at + 1, tail.offset) = SubSeq(file, since.at + 1, tail.offset)
        BY <2>3, <2>4, <3>2, SubSeqStays
      <4> QED BY <2>3, <2>4, <4>1, <4>2 DEF Consumed
    <3> QED BY <1>3, <2>1, <3>1, <3>2
  <2> QED BY <2>3, <2>5
<1> QED BY <1>2, <1>3 DEF ScanInv

\* A start from a place up to which everything has been read.
LEMMA StartKeepsScan ==
  ASSUME NEW o \in Nat, NEW k \in BOOLEAN,
         tail' = [offset |-> o, buf |-> <<>>, skip |-> k], delivered' = <<>>,
         since'.at = o, since'.clean => ~k,
         since'.gen <= gen', Watching' => file' \in Seq(Byte) /\ o <= Len(file')
  PROVE  ScanInv'
<1>1. tail'.offset = o /\ tail'.buf = <<>> /\ tail'.skip = k
  OBVIOUS
<1>2. Watching' => Consumed' = <<>>
  BY <1>1 DEF Consumed
<1> QED BY <1>1, <1>2, StartsFresh DEF ScanInv

LEMMA ReadKeepsScan ==
  ASSUME TypeInv, ScanInv, Read
  PROVE  ScanInv'
<1>1. UNCHANGED <<file, gen, since>> /\ tail # NoTailer /\ file # Absent
  BY DEF Read, TypeInv, ReadInv
<1>2. since'.gen <= gen'
  BY <1>1 DEF ScanInv
<1>3. CASE ~Watching
  BY <1>1, <1>2, <1>3 DEF ScanInv, Watching
<1>4. CASE Watching
  <2> DEFINE s == Scan(tail.buf, Rest)
  <2>1. /\ s \in State /\ delivered' = delivered \o s.lines
        /\ tail'.offset = (IF Len(file) > tail.offset THEN Len(file) ELSE tail.offset)
        /\ tail'.skip \in BOOLEAN
        /\ tail'.skip <=> s.skip \/ Len(s.current) > MaxLine
        /\ Len(s.current) <= MaxLine => tail'.buf = s.current
    BY ReadMakes
  <2>2. /\ since.at <= tail.offset /\ tail.offset <= Len(file)
        /\ Nearly(delivered, tail.buf, tail.skip, Consumed)
        /\ since.clean => Exact(delivered, tail.buf, tail.skip, Consumed)
    BY <1>4 DEF ScanInv
  <2>3. file \in Seq(Byte) /\ tail.offset \in Nat /\ since.at \in Nat /\ Len(file) \in Nat
        /\ tail.buf \in Seq(Char) /\ tail.skip \in BOOLEAN /\ delivered \in Seq(Seq(Byte))
    <3>1. tail.offset \in Nat /\ since.at \in Nat
      BY <1>1, TailerIs, TailerAssumption DEF TypeInv, TypeOK
    <3>2. file \in Seq(Byte) /\ delivered \in Seq(Seq(Byte))
      BY <1>1 DEF TypeInv, TypeOK
    <3> QED BY <1>1, <3>1, <3>2, TailerIs
  <2>4. Rest \in Seq(Byte) /\ Consumed \in Seq(Byte)
    BY <2>2, <2>3 DEF Rest, Consumed
  <2>5. tail'.offset = Len(file)
    BY <2>1, <2>2, <2>3
  <2>6. Consumed' = Consumed \o Rest
    <3>1. Consumed' = SubSeq(file, since.at + 1, Len(file))
      BY <1>1, <2>5 DEF Consumed
    <3>2. SubSeq(file, since.at + 1, Len(file))
            = SubSeq(file, since.at + 1, tail.offset) \o SubSeq(file, tail.offset + 1, Len(file))
      BY <2>2, <2>3, SubSeqSplits
    <3> QED BY <3>1, <3>2 DEF Consumed, Rest
  <2> DEFINE w == Consumed \o Rest
             d == delivered \o s.lines
  <2>7. /\ Nearly(d, s.current, s.skip, w)
        /\ since.clean => Exact(d, s.current, s.skip, w)
    BY <2>2, <2>3, <2>4, ScanKeeps
  <2>8. s.skip \in BOOLEAN /\ Len(s.current) \in Nat /\ MaxLine \in Nat
    BY <2>1, TailerAssumption DEF State
  <2> HIDE DEF s, w, d
  <2>9. Kept(s.current, s.skip, w) => Kept(tail'.buf, tail'.skip, w)
    BY <2>1, <2>8 DEF Kept
  <2>10. /\ Nearly(d, tail'.buf, tail'.skip, w)
         /\ since.clean => Exact(d, tail'.buf, tail'.skip, w)
    BY <2>7, <2>9 DEF Nearly, Exact
  <2>11. Consumed' = w /\ delivered' = d
    BY <2>1, <2>6 DEF w, d
  <2>12. since'.at <= tail'.offset /\ tail'.offset <= Len(file')
    BY <1>1, <2>2, <2>3, <2>5
  <2> QED BY <1>1, <1>2, <2>10, <2>11, <2>12 DEF ScanInv
<1> QED BY <1>3, <1>4
LEMMA StepKeepsScan ==
  ASSUME TypeInv, ScanInv, [Next]_vars
  PROVE  ScanInv'
<1>0. gen \in 0..MaxGen /\ since.gen \in 0..MaxGen /\ MaxGen \in Nat /\ since.gen <= gen
  BY TailerAssumption DEF TypeInv, TypeOK, ScanInv
<1>1. ASSUME NEW b \in Byte, Append1(b) PROVE ScanInv'
  BY <1>0, <1>1, OthersKeepScan DEF Append1, Watching
<1>2. CASE Truncate
  <2>1. gen' = gen + 1 /\ gen' \in 0..MaxGen /\ UNCHANGED <<tail, since, delivered>>
    BY <1>0, <1>2 DEF Truncate
  <2> QED BY <1>0, <2>1, OthersKeepScan
<1>3. CASE Delete
  BY <1>0, <1>3, OthersKeepScan DEF Delete, Watching
<1>4. CASE Create
  <2>1. gen' = gen + 1 /\ gen' \in 0..MaxGen /\ UNCHANGED <<tail, since, delivered>>
    BY <1>0, <1>4 DEF Create
  <2> QED BY <1>0, <2>1, OthersKeepScan
<1>5. CASE OpenFails
  <2>1. ~Watching' /\ since'.gen <= gen'
    BY <1>0, <1>5 DEF OpenFails, Watching
  <2> QED BY <2>1 DEF ScanInv
<1>6. CASE Stat
  BY <1>0, <1>6, OthersKeepScan DEF Stat, Watching
<1>7. CASE StatTruncated
  <2>1. tail' = [offset |-> 0, buf |-> <<>>, skip |-> tail.skip] /\ tail.skip \in BOOLEAN
    BY <1>7, CutMakes, TailerIs DEF StatTruncated
  <2>2. /\ file # Absent /\ delivered' = <<>> /\ UNCHANGED <<file, gen>>
        /\ since' = [gen |-> gen, at |-> 0, clean |-> ~tail.skip]
    BY <1>7 DEF StatTruncated
  <2>3. file' \in Seq(Byte) /\ 0 <= Len(file')
    BY <2>2 DEF TypeInv, TypeOK
  <2>4. since'.gen <= gen' /\ since'.at = 0
    BY <1>0, <2>2
  <2>5. since'.clean = (~tail.skip)
    BY <2>2, Zenon
  <2>6. since'.clean => ~tail.skip
    BY <2>5, Zenon
  <2> QED BY <2>1, <2>2, <2>3, <2>4, <2>6, StartKeepsScan
<1>8. CASE Read
  BY <1>8, ReadKeepsScan
<1>9. CASE ReadFails
  <2>1. /\ tail' = [offset |-> tail.offset, buf |-> <<>>, skip |-> tail'.skip]
        /\ tail'.skip \in BOOLEAN /\ tail.offset \in 0..MaxFile
        /\ since' = [gen |-> since.gen, at |-> tail.offset, clean |-> FALSE]
    BY <1>9, FailMakes
  <2>2. /\ file # Absent /\ tail # NoTailer /\ delivered' = <<>> /\ UNCHANGED <<file, gen>>
    BY <1>9 DEF ReadFails, TypeInv, ReadInv
  <2>3. /\ tail'.offset = tail.offset /\ tail'.buf = <<>> /\ tail.offset \in Nat
        /\ since'.gen = since.gen /\ since'.at = tail.offset /\ since'.clean = FALSE
    BY <2>1, TailerAssumption
  <2>4. Consumed' = <<>>
    <3>1. file' \in Seq(Byte)
      BY <2>2 DEF TypeInv, TypeOK
    <3> QED BY <2>3, <3>1, NothingBetween DEF Consumed
  <2>5. Nearly(delivered', tail'.buf, tail'.skip, Consumed')
    BY <2>1, <2>2, <2>3, <2>4, StartsFresh
  <2>6. Watching' => tail.offset <= Len(file')
    <3>1. Watching' => Watching
      BY <2>2, <2>3 DEF Watching
    <3> QED BY <2>2, <3>1 DEF ScanInv
  <2> QED BY <1>0, <2>2, <2>3, <2>5, <2>6 DEF ScanInv
<1>10. CASE NewTailer
  <2>1. /\ tail' = [offset |-> 0, buf |-> <<>>, skip |-> FALSE] /\ delivered' = <<>>
        /\ since' = [gen |-> gen, at |-> 0, clean |-> TRUE]
        /\ file # Absent /\ UNCHANGED <<file, gen>>
    BY <1>10 DEF NewTailer
  <2>2. file' \in Seq(Byte) /\ 0 <= Len(file')
    BY <2>1 DEF TypeInv, TypeOK
  <2>3. since'.gen <= gen' /\ since'.at = 0
    BY <1>0, <2>1
  <2> QED BY <2>1, <2>2, <2>3, StartKeepsScan
<1>11. CASE UNCHANGED vars
  BY <1>0, <1>11, OthersKeepScan DEF vars, Watching
<1> QED BY <1>1, <1>2, <1>3, <1>4, <1>5, <1>6, <1>7, <1>8, <1>9, <1>10, <1>11 DEF Next

LEMMA ScanAlways == Spec => []ScanInv
<1>1. TypeInv /\ ScanInv /\ [Next]_vars => TypeInv' /\ ScanInv'
  BY StepKeepsType, StepKeepsScan
<1> QED BY <1>1, InitTypeInv, InitScanInv, PTL DEF Spec

\* However the bytes of a file arrive in pieces and wherever reads end, after a clean
\* start the tailer has returned exactly the lines that fit, each once and in order, of
\* what it has read; so a line in several pieces, one at the limit and one that is
\* dropped make no difference to the others (ReadNewLines).
THEOREM LinesAreAlwaysExact == Spec => []LinesAreExact
<1>1. ScanInv => LinesAreExact
  BY DEF ScanInv, LinesAreExact, Exact
<1> QED BY <1>1, ScanAlways, PTL

\* After any other start, in the middle of a line, after a failed read or with skipping
\* left over from before a truncation, at most the first line is wrong or missing: the
\* tailer is itself again at the first newline (ReadNewLines, SeekToEnd).
THEOREM OnlyFirstLineEverSuffers == Spec => []OnlyFirstLineSuffers
<1>1. ScanInv => OnlyFirstLineSuffers
  BY DEF ScanInv, OnlyFirstLineSuffers, Nearly
<1> QED BY <1>1, ScanAlways, PTL
=============================================================================
