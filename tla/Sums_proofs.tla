----------------------------- MODULE Sums_proofs -----------------------------
(***************************************************************************)
(* Lemmas about folds and sums over sequences.  FoldLeft is a function     *)
(* defined by recursion on the subsets of the domain, of which the prover  *)
(* only knows that it is chosen; FoldExists shows that there is one.       *)
(***************************************************************************)
EXTENDS Sums, WellFoundedInduction, SequenceTheorems, TLAPS

\* The quotient of a division, bounded.
LEMMA DivBounds ==
    ASSUME NEW a \in Nat, NEW d \in Nat \ {0}
    PROVE  /\ a \div d \in Nat
           /\ (a \div d) * d <= a
           /\ a < (a \div d) * d + d
OBVIOUS

\* Multiples of a segment duration are at least one duration apart.
LEMMA MulMono ==
    ASSUME NEW a \in Nat, NEW b \in Nat, NEW d \in Nat \ {0}, a < b
    PROVE  a * d + d <= b * d
OBVIOUS

\* Within n segments of time, the segment number is at most n.
LEMMA DivLe ==
    ASSUME NEW a \in Nat, NEW n \in Nat, NEW d \in Nat \ {0}, a <= n * d
    PROVE  a \div d \in 0 .. n
BY DivBounds, MulMono

\* Division with remainder is unique.
LEMMA DivMod ==
    ASSUME NEW n \in Nat \ {0}, NEW a \in Nat, NEW b \in Nat,
           a % n = b % n, a \div n = b \div n
    PROVE  a = b
OBVIOUS

\* Quotient and remainder make up the number.
LEMMA DivRest ==
    ASSUME NEW a \in Nat, NEW n \in Nat \ {0}
    PROVE  /\ a \div n \in Nat
           /\ a % n \in 0 .. n - 1
           /\ a = (a \div n) * n + (a % n)
OBVIOUS

\* Division gives back what a number was composed of.
LEMMA Compose ==
    ASSUME NEW n \in Nat \ {0}, NEW q \in Nat, NEW c \in 0 .. n - 1
    PROVE  /\ q * n + c \in Nat
           /\ (q * n + c) % n = c
           /\ (q * n + c) \div n = q
<1> DEFINE a == q * n + c
           d == a \div n
           e == a % n
<1>1. a \in Nat /\ q * n \in Nat /\ a = q * n + c
  OBVIOUS
<1> HIDE DEF a
<1>2. e \in 0 .. n - 1 /\ a = d * n + e /\ d \in Nat /\ d * n \in Nat
  <2>1. d \in Nat /\ e \in 0 .. n - 1 /\ a = d * n + e
    BY <1>1, DivRest
  <2> QED
    BY <2>1
<1> HIDE DEF d, e
<1>3. ~(d < q)
  <2> SUFFICES ASSUME d < q PROVE FALSE
    OBVIOUS
  <2>1. d * n + n <= q * n
    BY <1>2, MulMono
  <2> QED
    BY <1>1, <1>2, <2>1
<1>4. ~(q < d)
  <2> SUFFICES ASSUME q < d PROVE FALSE
    OBVIOUS
  <2>1. q * n + n <= d * n
    BY <1>2, MulMono
  <2> QED
    BY <1>1, <1>2, <2>1
<1>5. d = q
  BY <1>2, <1>3, <1>4
<1>6. e = c
  BY <1>1, <1>2, <1>5
<1> QED
  BY <1>1, <1>5, <1>6 DEF a, d, e

\* An index counted in rows of n: its row is below m when it is among the first
\* n * m.
LEMMA RowOf ==
    ASSUME NEW n \in Nat, NEW m \in Int, NEW i \in 1 .. n * m
    PROVE  /\ n > 0 /\ m > 0
           /\ (i - 1) % n \in 0 .. n - 1
           /\ (i - 1) \div n \in 0 .. m - 1
<1>1. n > 0 /\ m > 0
  OBVIOUS
<1>2. (i - 1) % n \in 0 .. n - 1
  BY <1>1
<1>3. (i - 1) \div n \in Nat /\ ((i - 1) \div n) * n <= i - 1
  BY <1>1, DivBounds
<1>4. (i - 1) \div n < m
  <2> SUFFICES ASSUME m <= (i - 1) \div n PROVE FALSE
    BY <1>1, <1>3
  <2>1. m * n <= ((i - 1) \div n) * n
    BY <1>1, <1>3
  <2> QED
    BY <2>1, <1>3
<1> QED
  BY <1>1, <1>2, <1>3, <1>4

\* Every non-empty set of numbers has a smallest one.
LEMMA SmallestNat ==
    ASSUME NEW T, T \subseteq Nat, T # {}
    PROVE  \E x \in T : \A y \in T : x <= y
<1> DEFINE Less == {ss \in Nat \X Nat : ss[1] < ss[2]}
<1>1. PICK x \in T : \A y \in T : ~(<<y, x>> \in Less)
  <2>1. IsWellFoundedOn(Less, Nat)
    BY NatLessThanWellFounded DEF OpToRel
  <2> HIDE DEF Less
  <2>2. QED
    BY <2>1, WFMin
<1>2. \A y \in T : x <= y
  <2> SUFFICES ASSUME NEW y \in T, y < x PROVE FALSE
    OBVIOUS
  <2>1. <<y, x>> \in Less
    BY Zenon
  <2> QED
    BY <1>1, <2>1
<1> QED
  BY <1>2

\* Induction up to n, for a set of numbers.
LEMMA Induction ==
    ASSUME NEW n \in Nat, NEW T, 0 \in T, \A k \in 0 .. n - 1 : k \in T => k + 1 \in T
    PROVE  0 .. n \subseteq T
<1> SUFFICES ASSUME (0 .. n) \ T # {} PROVE FALSE
  OBVIOUS
<1>1. PICK m \in (0 .. n) \ T : \A y \in (0 .. n) \ T : m <= y
  BY SmallestNat, (0 .. n) \ T \subseteq Nat
<1>2. m - 1 \in 0 .. n - 1 /\ m - 1 \in T
  BY <1>1
<1> QED
  BY <1>1, <1>2

\* The largest element of a set of indices.
LEMMA LargestIndex ==
    ASSUME NEW n \in Nat, NEW s \in SUBSET (1 .. n), s # {}
    PROVE  Max(s) \in s /\ \A y \in s : Max(s) >= y
<1> DEFINE T == {n - y : y \in s}
<1>1. \A y \in s : y \in 1 .. n
  OBVIOUS
<1>2. T \subseteq Nat /\ T # {}
  <2>1. \A y \in s : n - y \in Nat
    BY <1>1
  <2>2. PICK y \in s : TRUE
    OBVIOUS
  <2>3. n - y \in T
    OBVIOUS
  <2> QED
    BY <2>1, <2>3
<1>3. PICK x \in T : \A y \in T : x <= y
  <2> HIDE DEF T
  <2> QED
    BY <1>2, SmallestNat
<1>4. PICK z \in s : x = n - z
  BY <1>3
<1>5. \A y \in s : z >= y
  <2> SUFFICES ASSUME NEW y \in s PROVE z >= y
    OBVIOUS
  <2>1. n - y \in T
    OBVIOUS
  <2>2. n - z <= n - y
    BY <1>3, <1>4, <2>1
  <2> QED
    BY <1>1, <2>2
<1> QED
  BY <1>5 DEF Max

\* A fold in S: step is applied to the result so far and an index.
Folds(g, n, b, step) ==
    \A s \in SUBSET (1 .. n) :
        g[s] = IF s = {} THEN b ELSE step[g[s \ {Max(s)}], Max(s)]

LEMMA FoldExists ==
    ASSUME NEW S, NEW b \in S, NEW n \in Nat, NEW step \in [S \X (1 .. n) -> S]
    PROVE  \E g \in [SUBSET (1 .. n) -> S] : Folds(g, n, b, step)
<1> DEFINE T == {k \in 0 .. n : \E g \in [SUBSET (1 .. k) -> S] : Folds(g, k, b, step)}
<1>1. 0 \in T
  <2> DEFINE g == [s \in SUBSET (1 .. 0) |-> b]
  <2>1. g \in [SUBSET (1 .. 0) -> S] /\ Folds(g, 0, b, step)
    <3>1. \A s \in SUBSET (1 .. 0) : s = {}
      OBVIOUS
    <3> QED
      BY <3>1 DEF Folds
  <2> QED
    BY <2>1
<1>2. ASSUME NEW k \in 0 .. n - 1, k \in T PROVE k + 1 \in T
  <2>0. k \in Nat /\ k + 1 \in 1 .. n
    OBVIOUS
  <2>1. PICK g \in [SUBSET (1 .. k) -> S] : Folds(g, k, b, step)
    BY <1>2
  <2> DEFINE h == [s \in SUBSET (1 .. (k + 1)) |->
                     IF k + 1 \in s THEN step[g[s \ {k + 1}], k + 1] ELSE g[s]]
  <2>2. \A s \in SUBSET (1 .. (k + 1)) :
            /\ k + 1 \notin s => s \in SUBSET (1 .. k)
            /\ s \ {k + 1} \in SUBSET (1 .. k)
    OBVIOUS
  <2>3. h \in [SUBSET (1 .. (k + 1)) -> S]
    <3> SUFFICES ASSUME NEW s \in SUBSET (1 .. (k + 1))
                 PROVE  (IF k + 1 \in s THEN step[g[s \ {k + 1}], k + 1] ELSE g[s]) \in S
      OBVIOUS
    <3>1. CASE k + 1 \in s
      <4>1. g[s \ {k + 1}] \in S /\ k + 1 \in 1 .. n
        BY <2>0, <2>2
      <4> QED
        BY <3>1, <4>1
    <3>2. CASE k + 1 \notin s
      BY <2>2, <3>2
    <3> QED
      BY <3>1, <3>2
  <2>4. Folds(h, k + 1, b, step)
    <3> SUFFICES ASSUME NEW s \in SUBSET (1 .. (k + 1))
                 PROVE  h[s] = IF s = {} THEN b ELSE step[h[s \ {Max(s)}], Max(s)]
      BY DEF Folds
    <3>1. CASE k + 1 \in s
      <4>1. Max(s) = k + 1
        <5>1. Max(s) \in s /\ Max(s) >= k + 1
          BY <2>0, <3>1, LargestIndex, k + 1 \in Nat
        <5>2. Max(s) \in 1 .. (k + 1)
          BY <5>1
        <5> QED
          BY ONLY <2>0, <5>1, <5>2
      <4>2. h[s \ {k + 1}] = g[s \ {k + 1}]
        BY <2>2
      <4> QED
        BY <3>1, <4>1, <4>2
    <3>2. CASE k + 1 \notin s
      <4>1. s \in SUBSET (1 .. k) /\ h[s] = g[s]
        BY <2>2, <3>2
      <4>2. CASE s = {}
        BY <2>1, <4>1, <4>2 DEF Folds
      <4>3. CASE s # {}
        <5>1. Max(s) \in s
          BY <2>0, <4>1, <4>3, LargestIndex
        <5>2. s \ {Max(s)} \in SUBSET (1 .. k) /\ s \ {Max(s)} \in SUBSET (1 .. (k + 1)) /\ k + 1 \notin s \ {Max(s)}
          BY <3>2, <4>1
        <5>3. h[s \ {Max(s)}] = g[s \ {Max(s)}]
          BY <5>2
        <5> QED
          BY <2>1, <4>1, <4>3, <5>3 DEF Folds
      <4> QED
        BY <4>2, <4>3
    <3> QED
      BY <3>1, <3>2
  <2> HIDE DEF h
  <2> QED
    BY <2>3, <2>4
<1>3. n \in T
  <2> HIDE DEF T
  <2> QED
    BY <1>1, <1>2, Induction
<1> QED
  BY <1>3

\* The fold over the whole domain, taken index by index.
LEMMA FirstIndices ==
    ASSUME NEW k \in Nat \ {0}
    PROVE  1 .. k # {} /\ Max(1 .. k) = k /\ (1 .. k) \ {k} = 1 .. (k - 1)
<1>1. k \in 1 .. k /\ 1 .. k \in SUBSET (1 .. k)
  OBVIOUS
<1>2. Max(1 .. k) = k
  <2>1. Max(1 .. k) \in 1 .. k /\ Max(1 .. k) >= k
    BY <1>1, LargestIndex, k \in Nat
  <2> QED
    BY <2>1
<1> QED
  BY <1>1, <1>2

-----------------------------------------------------------------------------
(***************************************************************************)
(* Sums.                                                                   *)
(***************************************************************************)
\* p lists the sums of the first elements of s.
SumsUpTo(p, s) ==
    /\ p \in [0 .. Len(s) -> Int]
    /\ p[0] = 0
    /\ \A k \in 1 .. Len(s) : p[k] = p[k - 1] + s[k]

LEMMA SumSteps ==
    ASSUME NEW s \in Seq(Int)
    PROVE  \E p : SumsUpTo(p, s) /\ SumOf(s) = p[Len(s)]
<1> DEFINE n == Len(s)
           D == DOMAIN s
           Rec(g) == [t \in SUBSET D |->
                        IF t = {} THEN 0
                        ELSE g[t \ {Max(t)}] + s[Max(t)]]
           g0 == CHOOSE g : g = Rec(g)
           step == [x \in Int \X (1 .. n) |-> x[1] + s[x[2]]]
<1>1. n \in Nat /\ D = 1 .. n
  OBVIOUS
<1>2. SumOf(s) = g0[D]
  BY DEF SumOf, FoldLeft, MapThenFoldSet
<1>3. step \in [Int \X (1 .. n) -> Int]
  BY <1>1
<1>4. \E g : g = Rec(g)
  <2>1. PICK g \in [SUBSET (1 .. n) -> Int] : Folds(g, n, 0, step)
    <3> HIDE DEF step, n
    <3> QED
      BY <1>1, <1>3, FoldExists, 0 \in Int
  <2>2. ASSUME NEW t \in SUBSET D, t # {}
        PROVE  g[t] = g[t \ {Max(t)}] + s[Max(t)]
    <3>1. Max(t) \in 1 .. n /\ t \ {Max(t)} \in SUBSET (1 .. n)
      BY <1>1, <2>2, LargestIndex
    <3>2. g[t] = step[g[t \ {Max(t)}], Max(t)]
      BY <1>1, <2>1, <2>2 DEF Folds
    <3>3. g[t \ {Max(t)}] \in Int
      BY <2>1, <3>1
    <3> QED
      BY <3>1, <3>2, <3>3
  <2>3. g[{}] = 0
    BY <2>1 DEF Folds
  <2>4. g = Rec(g)
    BY <1>1, <2>1, <2>2, <2>3
  <2> QED
    BY <2>4
<1>5. g0 = Rec(g0)
  BY <1>4
<1> HIDE DEF g0
<1>6. g0[1 .. 0] = 0
  BY <1>1, <1>5, 1 .. 0 = {}
<1>7. ASSUME NEW k \in 1 .. n PROVE g0[1 .. k] = g0[1 .. (k - 1)] + s[k]
  <2>1. 1 .. k \in SUBSET D /\ k \in Nat \ {0}
    BY <1>1
  <2>2. 1 .. k # {} /\ Max(1 .. k) = k /\ (1 .. k) \ {k} = 1 .. (k - 1)
    BY <2>1, FirstIndices
  <2> QED
    BY <1>5, <2>1, <2>2
<1> DEFINE p == [k \in 0 .. n |-> g0[1 .. k]]
           T == {k \in 0 .. n : g0[1 .. k] \in Int}
<1>8. 0 .. n \subseteq T
  <2>1. 0 \in T
    BY <1>1, <1>6
  <2>2. ASSUME NEW k \in 0 .. n - 1, k \in T PROVE k + 1 \in T
    <3>1. k + 1 \in 1 .. n /\ (k + 1) - 1 = k /\ s[k + 1] \in Int
      BY <1>1
    <3>2. g0[1 .. (k + 1)] = g0[1 .. k] + s[k + 1]
      BY <1>7, <3>1
    <3> QED
      BY <2>2, <3>1, <3>2
  <2> HIDE DEF T
  <2> QED
    BY <1>1, <2>1, <2>2, Induction
<1>9. SumsUpTo(p, s)
  BY <1>1, <1>6, <1>7, <1>8 DEF SumsUpTo
<1> QED
  BY <1>1, <1>2, <1>9

\* Sequences that agree on their first elements have the same sums of these.
LEMMA SameSums ==
    ASSUME NEW s \in Seq(Int), NEW t \in Seq(Int), NEW p, NEW q,
           SumsUpTo(p, s), SumsUpTo(q, t),
           NEW n \in Nat, n <= Len(s), n <= Len(t), \A k \in 1 .. n : s[k] = t[k]
    PROVE  p[n] = q[n]
<1> DEFINE T == {k \in 0 .. n : p[k] = q[k]}
<1>1. 0 \in T
  BY DEF SumsUpTo
<1>2. ASSUME NEW k \in 0 .. n - 1, k \in T PROVE k + 1 \in T
  <2>1. k + 1 \in 1 .. Len(s) /\ k + 1 \in 1 .. Len(t) /\ k + 1 \in 1 .. n /\ (k + 1) - 1 = k
    OBVIOUS
  <2>2. p[k + 1] = p[k] + s[k + 1] /\ q[k + 1] = q[k] + t[k + 1]
    BY <2>1 DEF SumsUpTo
  <2> QED
    BY <1>2, <2>1, <2>2
<1>3. 0 .. n \subseteq T
  <2> HIDE DEF T
  <2> QED
    BY <1>1, <1>2, Induction
<1> QED
  BY <1>3

\* A sum, element by element.
LEMMA SumEmpty == SumOf(<<>>) = 0
<1>1. <<>> \in Seq(Int) /\ Len(<<>>) = 0
  OBVIOUS
<1>2. PICK r : SumsUpTo(r, <<>>) /\ SumOf(<<>>) = r[0]
  BY <1>1, SumSteps
<1> QED
  BY <1>2 DEF SumsUpTo

LEMMA SumType ==
    ASSUME NEW s \in Seq(Int)
    PROVE  SumOf(s) \in Int
<1>1. PICK p : SumsUpTo(p, s) /\ SumOf(s) = p[Len(s)]
  BY SumSteps
<1> QED
  BY <1>1 DEF SumsUpTo

LEMMA SumAppend ==
    ASSUME NEW s \in Seq(Int), NEW e \in Int
    PROVE  SumOf(Append(s, e)) = SumOf(s) + e
<1> DEFINE n == Len(s)
           t == Append(s, e)
<1>1. n \in Nat /\ t \in Seq(Int) /\ Len(t) = n + 1 /\ t[n + 1] = e
      /\ \A k \in 1 .. n : s[k] = t[k]
  OBVIOUS
<1>2. PICK p : SumsUpTo(p, s) /\ SumOf(s) = p[n]
  BY SumSteps
<1>3. PICK q : SumsUpTo(q, t) /\ SumOf(t) = q[n + 1]
  BY <1>1, SumSteps
<1>4. p[n] = q[n]
  <2>1. n <= Len(s) /\ n <= Len(t)
    BY <1>1
  <2> HIDE DEF n, t
  <2> QED
    BY <1>1, <1>2, <1>3, <2>1, SameSums
<1>5. q[n + 1] = q[n] + e
  BY <1>1, <1>3 DEF SumsUpTo
<1> QED
  BY <1>2, <1>3, <1>4, <1>5

\* What may be said of all sequences of integers by appending to them: the
\* sequences of T are all of them.
LEMMA EverySequence ==
    ASSUME NEW S, NEW T, <<>> \in T,
           \A s \in Seq(S), e \in S : s \in T => Append(s, e) \in T
    PROVE  Seq(S) \subseteq T
<1> SUFFICES ASSUME NEW s \in Seq(S) PROVE s \in T
  OBVIOUS
<1> DEFINE U == {k \in 0 .. Len(s) : SubSeq(s, 1, k) \in T}
<1>1. 0 \in U
  <2>1. SubSeq(s, 1, 0) = <<>> /\ 0 \in 0 .. Len(s)
    OBVIOUS
  <2>2. SubSeq(s, 1, 0) \in T
    BY <2>1
  <2> QED
    BY <2>1, <2>2
<1>2. ASSUME NEW k \in 0 .. Len(s) - 1, k \in U PROVE k + 1 \in U
  <2>1. k + 1 \in 1 .. Len(s) /\ 1 \in 1 .. Len(s) /\ k + 1 \in 1 .. Len(s) /\ (k + 1) - 1 = k
    OBVIOUS
  <2>2. SubSeq(s, 1, k + 1) = SubSeq(s, 1, k) \o <<s[k + 1]>>
    BY <2>1, SubSeqRecursiveSecond
  <2>3. SubSeq(s, 1, k) \in Seq(S) /\ s[k + 1] \in S
    OBVIOUS
  <2>4. SubSeq(s, 1, k + 1) = Append(SubSeq(s, 1, k), s[k + 1])
    BY <2>2, <2>3, AppendIsConcat
  <2>5. SubSeq(s, 1, k) \in T
    BY <1>2
  <2>6. SubSeq(s, 1, k + 1) \in T
    BY <2>3, <2>4, <2>5
  <2> QED
    BY <2>1, <2>6
<1>3. Len(s) \in U
  <2>1. Len(s) \in Nat
    OBVIOUS
  <2> HIDE DEF U
  <2>2. 0 .. Len(s) \subseteq U
    BY <1>1, <1>2, <2>1, Induction
  <2> QED
    BY <2>1, <2>2
<1> QED
  BY <1>3, SubSeqFull

LEMMA SumConcat ==
    ASSUME NEW s \in Seq(Int), NEW t \in Seq(Int)
    PROVE  SumOf(s \o t) = SumOf(s) + SumOf(t)
<1> DEFINE T == {u \in Seq(Int) : SumOf(s \o u) = SumOf(s) + SumOf(u)}
<1>1. <<>> \in T
  <2>1. SumOf(<<>>) = 0 /\ SumOf(s) \in Int /\ s \o <<>> = s
    BY SumEmpty, SumType, ConcatEmptySeq
  <2> QED
    BY <2>1
<1>2. ASSUME NEW u \in Seq(Int), NEW e \in Int, u \in T PROVE Append(u, e) \in T
  <2>1. s \o Append(u, e) = Append(s \o u, e)
    OBVIOUS
  <2>2. s \o u \in Seq(Int) /\ Append(u, e) \in Seq(Int)
    OBVIOUS
  <2>3. /\ SumOf(Append(s \o u, e)) = SumOf(s \o u) + e
        /\ SumOf(Append(u, e)) = SumOf(u) + e
        /\ SumOf(u) \in Int /\ SumOf(s) \in Int
    BY <2>2, SumAppend, SumType
  <2>4. SumOf(s \o u) = SumOf(s) + SumOf(u)
    BY <1>2
  <2>5. SumOf(s \o Append(u, e)) = SumOf(s) + SumOf(Append(u, e))
    BY <2>1, <2>3, <2>4
  <2> QED
    BY <2>2, <2>5
<1>3. Seq(Int) \subseteq T
  <2> HIDE DEF T
  <2> QED
    BY <1>1, <1>2, EverySequence
<1> QED
  BY <1>3

LEMMA SumTail ==
    ASSUME NEW s \in Seq(Int), s # <<>>
    PROVE  SumOf(s) = Head(s) + SumOf(Tail(s))
<1>1. Head(s) \in Int /\ Tail(s) \in Seq(Int) /\ <<Head(s)>> \in Seq(Int)
  OBVIOUS
<1>2. s = <<Head(s)>> \o Tail(s)
  OBVIOUS
<1>3. SumOf(<<Head(s)>>) = Head(s)
  <2>1. <<Head(s)>> = Append(<<>>, Head(s)) /\ <<>> \in Seq(Int)
    BY <1>1
  <2>2. SumOf(<<Head(s)>>) = SumOf(<<>>) + Head(s)
    BY <1>1, <2>1, SumAppend
  <2> QED
    BY <1>1, <2>2, SumEmpty
<1> QED
  BY <1>1, <1>2, <1>3, SumConcat

LEMMA SumNat ==
    ASSUME NEW s \in Seq(Nat)
    PROVE  SumOf(s) \in Nat
<1> DEFINE T == {u \in Seq(Nat) : SumOf(u) \in Nat}
<1>1. <<>> \in T
  <2>1. SumOf(<<>>) = 0
    BY SumEmpty
  <2> QED
    BY <2>1
<1>2. ASSUME NEW u \in Seq(Nat), NEW e \in Nat, u \in T PROVE Append(u, e) \in T
  <2>1. u \in Seq(Int)
    OBVIOUS
  <2>2. SumOf(Append(u, e)) = SumOf(u) + e
    BY <2>1, SumAppend
  <2> QED
    BY <1>2, <2>2
<1>3. Seq(Nat) \subseteq T
  <2> HIDE DEF T
  <2> QED
    BY <1>1, <1>2, EverySequence
<1> QED
  BY <1>3

\* The sums of the first elements do not decrease when no element is negative.
LEMMA SumsGrow ==
    ASSUME NEW s \in Seq(Nat), NEW p, SumsUpTo(p, s),
           NEW a \in 0 .. Len(s), NEW b \in 0 .. Len(s), a <= b
    PROVE  p[a] <= p[b]
<1> DEFINE T == {k \in 0 .. b - a : p[a] <= p[a + k]}
<1>0. /\ Len(s) \in Nat /\ a \in Nat /\ b \in Nat /\ b - a \in Nat
      /\ \A k \in 0 .. Len(s) : p[k] \in Int
  <2>1. p \in [0 .. Len(s) -> Int]
    BY DEF SumsUpTo
  <2>2. Len(s) \in Nat
    OBVIOUS
  <2> QED
    BY <2>1, <2>2
<1>1. 0 \in T
  <2>1. a + 0 = a /\ p[a] <= p[a] /\ 0 \in 0 .. b - a
    BY <1>0
  <2> QED
    BY <2>1
<1>2. ASSUME NEW k \in 0 .. (b - a) - 1, k \in T PROVE k + 1 \in T
  <2>1. /\ k + 1 \in 0 .. b - a /\ a + (k + 1) \in 1 .. Len(s) /\ (a + (k + 1)) - 1 = a + k
        /\ a + k \in 0 .. Len(s) /\ a + (k + 1) \in 0 .. Len(s)
    BY <1>0
  <2>2. p[a + (k + 1)] = p[a + k] + s[a + (k + 1)] /\ s[a + (k + 1)] \in Nat
    BY <2>1 DEF SumsUpTo
  <2>3. p[a] <= p[a + k]
    BY <1>2
  <2>4. p[a] <= p[a + (k + 1)]
    BY <1>0, <2>1, <2>2, <2>3
  <2> QED
    BY <2>1, <2>4
<1>3. 0 .. b - a \subseteq T
  <2> HIDE DEF T
  <2> QED
    BY <1>0, <1>1, <1>2, Induction
<1> QED
  <2>1. b - a \in T /\ a + (b - a) = b
    BY <1>0, <1>3
  <2> QED
    BY <2>1

\* A selection of the elements, in their order, has at most their sum.
LEMMA SumSelection ==
    ASSUME NEW s \in Seq(Nat), NEW r \in Seq(Nat), NEW g \in [1 .. Len(r) -> 1 .. Len(s)],
           \A i, j \in 1 .. Len(r) : i < j => g[i] < g[j],
           \A i \in 1 .. Len(r) : r[i] = s[g[i]]
    PROVE  SumOf(r) <= SumOf(s)
<1>0. /\ s \in Seq(Int) /\ r \in Seq(Int) /\ Len(r) \in Nat /\ Len(s) \in Nat
  OBVIOUS
<1>1. PICK q : SumsUpTo(q, s) /\ SumOf(s) = q[Len(s)]
  BY <1>0, SumSteps
<1>2. PICK p : SumsUpTo(p, r) /\ SumOf(r) = p[Len(r)]
  BY <1>0, SumSteps
<1> DEFINE at(k) == IF k = 0 THEN 0 ELSE g[k]
           T == {k \in 0 .. Len(r) : p[k] <= q[at(k)]}
<1>3. \A k \in 0 .. Len(r) : at(k) \in 0 .. Len(s) /\ q[at(k)] \in Int /\ p[k] \in Int
  <2> TAKE k \in 0 .. Len(r)
  <2>1. at(k) \in 0 .. Len(s)
    BY <1>0
  <2> HIDE DEF at
  <2> QED
    BY <1>1, <1>2, <2>1 DEF SumsUpTo
<1>4. 0 \in T
  BY <1>0, <1>1, <1>2 DEF SumsUpTo
<1>5. ASSUME NEW k \in 0 .. Len(r) - 1, k \in T PROVE k + 1 \in T
  <2>1. k + 1 \in 1 .. Len(r) /\ k \in 0 .. Len(r) /\ (k + 1) - 1 = k /\ k + 1 # 0
    BY <1>0
  <2> DEFINE a == g[k + 1]
  <2>2. a \in 1 .. Len(s) /\ a - 1 \in 0 .. Len(s) /\ a \in 0 .. Len(s)
    BY <1>0, <2>1
  <2>3. at(k) <= a - 1
    <3>1. CASE k = 0
      BY <2>2, <3>1
    <3>2. CASE k # 0
      <4>1. k \in 1 .. Len(r) /\ k < k + 1
        BY <1>0, <2>1, <3>2
      <4>3. g[k] \in 1 .. Len(s)
        BY <4>1
      <4>2. g[k] < g[k + 1]
        BY <2>1, <4>1
      <4> QED
        BY <2>2, <3>2, <4>2, <4>3
    <3> QED
      BY <3>1, <3>2
  <2>4. at(k) \in 0 .. Len(s) /\ q[at(k)] \in Int
    BY <1>3, <2>1
  <2>5. p[k] <= q[at(k)]
    BY <1>5
  <2>6. at(k + 1) = a
    BY <2>1
  <2>7. r[k + 1] = s[a]
    BY <2>1
  <2> HIDE DEF at, a
  <2>8. q[at(k)] <= q[a - 1]
    BY <1>1, <2>2, <2>3, <2>4, SumsGrow
  <2>9. p[k + 1] = p[k] + s[a]
    BY <1>2, <2>1, <2>7 DEF SumsUpTo
  <2>10. q[a] = q[a - 1] + s[a]
    BY <1>1, <2>2 DEF SumsUpTo
  <2>11. s[a] \in Nat /\ p[k] \in Int /\ q[a - 1] \in Int
    <3>1. s[a] \in Nat
      BY <2>2
    <3>2. q \in [0 .. Len(s) -> Int] /\ p \in [0 .. Len(r) -> Int]
      BY <1>1, <1>2 DEF SumsUpTo
    <3> QED
      BY <2>1, <2>2, <3>1, <3>2
  <2>12. p[k + 1] <= q[a]
    <3>1. PICK x \in Int : x = q[at(k)]
      BY <2>4
    <3>2. PICK y \in Int : y = q[a - 1]
      BY <2>11
    <3>3. p[k] <= x /\ x <= y /\ q[a] = y + s[a]
      BY <2>5, <2>8, <2>10, <3>1, <3>2
    <3> QED
      BY <2>9, <2>11, <3>3
  <2>13. p[k + 1] <= q[at(k + 1)]
    BY <2>6, <2>12
  <2> QED
    BY <1>0, <2>1, <2>13
<1>6. Len(r) \in T
  <2> HIDE DEF T
  <2>1. 0 .. Len(r) \subseteq T
    BY <1>0, <1>4, <1>5, Induction
  <2> QED
    BY <1>0, <2>1
<1>7. at(Len(r)) \in 0 .. Len(s) /\ q[at(Len(r))] \in Int /\ p[Len(r)] \in Int
  BY <1>0, <1>3
<1>8. p[Len(r)] <= q[at(Len(r))]
  BY <1>6
<1> HIDE DEF at
<1>9. q[at(Len(r))] <= q[Len(s)] /\ q[Len(s)] \in Int
  <2>1. Len(s) \in 0 .. Len(s) /\ at(Len(r)) <= Len(s)
    BY <1>0, <1>7
  <2> QED
    BY <1>1, <1>7, <2>1, SumsGrow DEF SumsUpTo
<1> QED
  BY <1>1, <1>2, <1>7, <1>8, <1>9

\* Sums are added element by element.
LEMMA SumAdded ==
    ASSUME NEW s \in Seq(Int), NEW t \in Seq(Int), NEW u \in Seq(Int),
           Len(s) = Len(u), Len(t) = Len(u),
           \A i \in 1 .. Len(u) : u[i] = s[i] + t[i]
    PROVE  SumOf(u) = SumOf(s) + SumOf(t)
<1>0. Len(u) \in Nat
  OBVIOUS
<1>1. PICK p : SumsUpTo(p, s) /\ SumOf(s) = p[Len(u)]
  BY SumSteps
<1>2. PICK q : SumsUpTo(q, t) /\ SumOf(t) = q[Len(u)]
  BY SumSteps
<1>3. PICK o : SumsUpTo(o, u) /\ SumOf(u) = o[Len(u)]
  BY SumSteps
<1> DEFINE T == {k \in 0 .. Len(u) : o[k] = p[k] + q[k]}
<1>4. 0 \in T
  BY <1>0, <1>1, <1>2, <1>3 DEF SumsUpTo
<1>5. ASSUME NEW k \in 0 .. Len(u) - 1, k \in T PROVE k + 1 \in T
  <2>1. k + 1 \in 1 .. Len(u) /\ k \in 0 .. Len(u) /\ k + 1 \in 0 .. Len(u) /\ (k + 1) - 1 = k
    BY <1>0
  <2>2. /\ p[k + 1] = p[k] + s[k + 1] /\ q[k + 1] = q[k] + t[k + 1]
        /\ o[k + 1] = o[k] + u[k + 1]
        /\ p[k] \in Int /\ q[k] \in Int
    BY <1>1, <1>2, <1>3, <2>1 DEF SumsUpTo
  <2>3. s[k + 1] \in Int /\ t[k + 1] \in Int /\ u[k + 1] = s[k + 1] + t[k + 1] /\ o[k] = p[k] + q[k]
    BY <1>5, <2>1
  <2>4. o[k + 1] = p[k + 1] + q[k + 1]
    BY <2>2, <2>3
  <2> QED
    BY <2>1, <2>4
<1>6. Len(u) \in T
  <2> HIDE DEF T
  <2>1. 0 .. Len(u) \subseteq T
    BY <1>0, <1>4, <1>5, Induction
  <2> QED
    BY <1>0, <2>1
<1> QED
  BY <1>1, <1>2, <1>3, <1>6

\* A sum of numbers up to m.
LEMMA SumBound ==
    ASSUME NEW m \in Nat, NEW s \in Seq(0 .. m)
    PROVE  SumOf(s) <= Len(s) * m
<1> DEFINE T == {u \in Seq(0 .. m) : SumOf(u) <= Len(u) * m}
<1>1. <<>> \in T
  <2>1. SumOf(<<>>) = 0 /\ Len(<<>>) * m = 0
    BY SumEmpty
  <2> QED
    BY <2>1
<1>2. ASSUME NEW u \in Seq(0 .. m), NEW e \in 0 .. m, u \in T PROVE Append(u, e) \in T
  <2>1. u \in Seq(Int) /\ Len(u) \in Nat /\ Append(u, e) \in Seq(0 .. m)
        /\ Len(Append(u, e)) = Len(u) + 1
    OBVIOUS
  <2>2. SumOf(Append(u, e)) = SumOf(u) + e /\ SumOf(u) \in Int
    BY <2>1, SumAppend, SumType
  <2>3. (Len(u) + 1) * m = Len(u) * m + m /\ Len(u) * m \in Nat
    BY <2>1
  <2>4. SumOf(u) <= Len(u) * m
    BY <1>2
  <2>5. SumOf(Append(u, e)) <= Len(Append(u, e)) * m
    BY <2>1, <2>2, <2>3, <2>4
  <2> QED
    BY <2>1, <2>5
<1>3. Seq(0 .. m) \subseteq T
  <2> HIDE DEF T
  <2> QED
    BY <1>1, <1>2, EverySequence
<1> QED
  BY <1>3
=============================================================================
