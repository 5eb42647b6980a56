-------------------------- MODULE Adaptation_proofs -------------------------
(***************************************************************************)
(* Theorems about the decisions of Adaptation, for any bitrates that grow  *)
(* with the layer, any views, any throughputs and any number of layers.    *)
(***************************************************************************)
EXTENDS Adaptation, Sums_proofs, FiniteSetTheorems

\* Requests for layers there are.
Chunks == [sid : {SEG}, fid : Nat, lid : 1 .. EL_VER_NUM]

LEMMA ElementIsChunk ==
    ASSUME NEW c \in Seq(Chunks), NEW i \in 1 .. Len(c)
    PROVE  /\ c[i] \in Chunks
           /\ c[i].fid \in Nat
           /\ c[i].lid \in 1 .. EL_VER_NUM
<1>1. c[i] \in Chunks
  BY ElementOfSeq
<1> QED
  BY <1>1 DEF Chunks

\* The bitrates of the layers.
LEMMA Bitrates ==
    /\ EL_VER_NUM \in Nat /\ EL_VER_NUM >= 2
    /\ DOMAIN ENHA_LAYER_BR = 1 .. EL_VER_NUM
    /\ BASE_LAYER_BR \in Nat
    /\ \A l \in 1 .. EL_VER_NUM : ENHA_LAYER_BR[l] \in Nat \ {0}
BY BitrateAssumption DEF EL_VER_NUM

\* They grow with the layer.
LEMMA BitratesGrow ==
    ASSUME NEW a \in 1 .. EL_VER_NUM, NEW b \in 1 .. EL_VER_NUM, a <= b
    PROVE  ENHA_LAYER_BR[a] <= ENHA_LAYER_BR[b]
<1> DEFINE T == {k \in 0 .. b - a : ENHA_LAYER_BR[a] <= ENHA_LAYER_BR[a + k]}
<1>0. a \in Nat /\ b \in Nat /\ b - a \in Nat /\ EL_VER_NUM \in Nat
  BY Bitrates
<1>1. 0 \in T
  <2>1. a + 0 = a /\ ENHA_LAYER_BR[a] \in Nat /\ 0 \in 0 .. b - a
    BY <1>0, Bitrates
  <2> QED
    BY <2>1
<1>2. ASSUME NEW k \in 0 .. (b - a) - 1, k \in T PROVE k + 1 \in T
  <2>1. /\ a + k \in 1 .. EL_VER_NUM /\ a + (k + 1) \in 2 .. EL_VER_NUM
        /\ (a + (k + 1)) - 1 = a + k /\ k + 1 \in 0 .. b - a
    BY <1>0
  <2>2. ENHA_LAYER_BR[a + k] <= ENHA_LAYER_BR[a + (k + 1)]
    BY <2>1, BitrateAssumption
  <2>3. /\ ENHA_LAYER_BR[a] \in Nat /\ ENHA_LAYER_BR[a + k] \in Nat
        /\ ENHA_LAYER_BR[a + (k + 1)] \in Nat
    BY <2>1, Bitrates
  <2>4. ENHA_LAYER_BR[a] <= ENHA_LAYER_BR[a + k]
    BY <1>2
  <2>5. ENHA_LAYER_BR[a] <= ENHA_LAYER_BR[a + (k + 1)]
    BY <2>2, <2>3, <2>4
  <2> QED
    BY <2>1, <2>5
<1>3. 0 .. b - a \subseteq T
  <2> HIDE DEF T
  <2> QED
    BY <1>0, <1>1, <1>2, Induction
<1> QED
  <2>1. b - a \in T /\ a + (b - a) = b
    BY <1>0, <1>3
  <2> QED
    BY <2>1

-----------------------------------------------------------------------------
(***************************************************************************)
(* The bitrate of a list of requests.                                      *)
(***************************************************************************)
\* The bitrates of its elements.
BitrateOf(c) == [i \in DOMAIN c |-> ENHA_LAYER_BR[c[i].lid]]

LEMMA BitrateOfType ==
    ASSUME NEW c \in Seq(Chunks)
    PROVE  /\ BitrateOf(c) \in Seq(Nat)
           /\ BitrateOf(c) \in Seq(Int)
           /\ Len(BitrateOf(c)) = Len(c)
<1>1. \A i \in 1 .. Len(c) : ENHA_LAYER_BR[c[i].lid] \in Nat
  <2> TAKE i \in 1 .. Len(c)
  <2>1. c[i].lid \in 1 .. EL_VER_NUM
    BY ElementIsChunk
  <2> QED
    BY <2>1, Bitrates
<1>2. DOMAIN c = 1 .. Len(c) /\ Len(c) \in Nat
  OBVIOUS
<1> QED
  BY <1>1, <1>2 DEF BitrateOf

LEMMA RateType ==
    ASSUME NEW c \in Seq(Chunks)
    PROVE  /\ Rate(c) \in Nat
           /\ Rate(c) = BASE_LAYER_BR + SumOf(BitrateOf(c))
           /\ SumOf(BitrateOf(c)) \in Nat
BY BitrateOfType, SumNat, Bitrates DEF Rate, BitrateOf

LEMMA RateEmpty == Rate(<<>>) = BASE_LAYER_BR
<1>1. <<>> \in Seq(Chunks) /\ BitrateOf(<<>>) = <<>>
  BY DEF BitrateOf
<1>2. Rate(<<>>) = BASE_LAYER_BR + SumOf(BitrateOf(<<>>))
  BY <1>1, RateType
<1>3. SumOf(BitrateOf(<<>>)) = 0
  BY <1>1, SumEmpty
<1> QED
  BY <1>2, <1>3, Bitrates

LEMMA RateAppend ==
    ASSUME NEW c \in Seq(Chunks), NEW e \in Chunks
    PROVE  Rate(Append(c, e)) = Rate(c) + ENHA_LAYER_BR[e.lid]
<1>1. /\ Append(c, e) \in Seq(Chunks) /\ Len(Append(c, e)) = Len(c) + 1
      /\ e.lid \in 1 .. EL_VER_NUM
  BY AppendProperties DEF Chunks
<1>2. BitrateOf(Append(c, e)) = Append(BitrateOf(c), ENHA_LAYER_BR[e.lid])
  <2>1. /\ Len(BitrateOf(Append(c, e))) = Len(c) + 1
        /\ Len(BitrateOf(c)) = Len(c)
        /\ BitrateOf(c) \in Seq(Nat) /\ BitrateOf(Append(c, e)) \in Seq(Nat)
    BY <1>1, BitrateOfType
  <2>2. ENHA_LAYER_BR[e.lid] \in Nat
    BY <1>1, Bitrates
  <2>3. \A i \in 1 .. Len(c) + 1 :
            BitrateOf(Append(c, e))[i] = Append(BitrateOf(c), ENHA_LAYER_BR[e.lid])[i]
    <3> TAKE i \in 1 .. Len(c) + 1
    <3>1. i \in DOMAIN Append(c, e) /\ DOMAIN c = 1 .. Len(c) /\ Len(c) \in Nat
      OBVIOUS
    <3>2. BitrateOf(Append(c, e))[i] = ENHA_LAYER_BR[Append(c, e)[i].lid]
      BY <3>1 DEF BitrateOf
    <3>3. CASE i = Len(c) + 1
      BY <2>1, <2>2, <3>2, <3>3
    <3>4. CASE i # Len(c) + 1
      <4>1. i \in 1 .. Len(c)
        BY <3>1, <3>4
      <4>2. BitrateOf(c)[i] = ENHA_LAYER_BR[c[i].lid]
        BY <4>1, <3>1 DEF BitrateOf
      <4> QED
        BY <2>1, <2>2, <3>2, <4>1, <4>2
    <3> QED
      BY <3>3, <3>4
  <2>4. /\ Append(BitrateOf(c), ENHA_LAYER_BR[e.lid]) \in Seq(Nat)
        /\ Len(Append(BitrateOf(c), ENHA_LAYER_BR[e.lid])) = Len(c) + 1
    BY <2>1, <2>2
  <2> QED
    BY <2>1, <2>3, <2>4, SeqEqual
<1>3. SumOf(BitrateOf(Append(c, e))) = SumOf(BitrateOf(c)) + ENHA_LAYER_BR[e.lid]
  BY <1>1, <1>2, BitrateOfType, Bitrates, SumAppend
<1>4. /\ Rate(Append(c, e)) = BASE_LAYER_BR + SumOf(BitrateOf(Append(c, e)))
      /\ Rate(c) = BASE_LAYER_BR + SumOf(BitrateOf(c))
      /\ SumOf(BitrateOf(c)) \in Nat
  BY <1>1, RateType
<1>5. ENHA_LAYER_BR[e.lid] \in Nat /\ BASE_LAYER_BR \in Nat
  BY <1>1, Bitrates
<1> QED
  BY <1>3, <1>4, <1>5
-----------------------------------------------------------------------------
(***************************************************************************)
(* The request loops.                                                      *)
(***************************************************************************)
\* Lists in which no request is for a lower layer than one before it.
Ascending(c) == \A i, j \in 1 .. Len(c) : i <= j => c[i].lid <= c[j].lid

\* The candidates are tried one by one: p[k] is what was taken of the first k.
GreedySteps(p, c, budget) ==
    /\ p \in [0 .. Len(c) -> [sum : Nat, taken : Seq(Chunks)]]
    /\ p[0] = [sum |-> BASE_LAYER_BR, taken |-> <<>>]
    /\ \A k \in 1 .. Len(c) :
           p[k] = IF Fits(p[k - 1].sum, c[k].lid, budget)
                  THEN [sum |-> p[k - 1].sum + ENHA_LAYER_BR[c[k].lid],
                        taken |-> Append(p[k - 1].taken, c[k])]
                  ELSE p[k - 1]

LEMMA GreedyTries ==
    ASSUME NEW c \in Seq(Chunks), NEW budget
    PROVE  \E p : GreedySteps(p, c, budget) /\ Greedy(c, budget) = p[Len(c)].taken
<1> DEFINE n == Len(c)
           D == DOMAIN c
           S == [sum : Nat, taken : Seq(Chunks)]
           b == [sum |-> BASE_LAYER_BR, taken |-> <<>>]
           Try(acc, e) == IF Fits(acc.sum, e.lid, budget)
                          THEN [sum |-> acc.sum + ENHA_LAYER_BR[e.lid],
                                taken |-> Append(acc.taken, e)]
                          ELSE acc
           Rec(g) == [t \in SUBSET D |->
                        IF t = {} THEN b
                        ELSE Try(g[t \ {Max(t)}], c[Max(t)])]
           g0 == CHOOSE g : g = Rec(g)
           step == [x \in S \X (1 .. n) |-> Try(x[1], c[x[2]])]
<1>1. n \in Nat /\ D = 1 .. n
  OBVIOUS
<1>2. Greedy(c, budget) = g0[D].taken
  BY DEF Greedy, FoldLeft, MapThenFoldSet
<1>3. b \in S
  BY Bitrates
<1>4. ASSUME NEW acc \in S, NEW i \in 1 .. n PROVE Try(acc, c[i]) \in S
  <2>1. c[i] \in Chunks /\ c[i].lid \in 1 .. EL_VER_NUM
    BY ElementIsChunk
  <2>2. ENHA_LAYER_BR[c[i].lid] \in Nat
    BY <2>1, Bitrates
  <2>3. acc.sum + ENHA_LAYER_BR[c[i].lid] \in Nat /\ Append(acc.taken, c[i]) \in Seq(Chunks)
    BY <2>1, <2>2, AppendProperties
  <2> QED
    BY <2>3
<1> HIDE DEF S, b, Try
<1>5. step \in [S \X (1 .. n) -> S]
  BY <1>4
<1>6. \E g : g = Rec(g)
  <2>1. PICK g \in [SUBSET (1 .. n) -> S] : Folds(g, n, b, step)
    <3> HIDE DEF step, n
    <3> QED
      BY <1>1, <1>3, <1>5, FoldExists
  <2>2. ASSUME NEW t \in SUBSET D, t # {}
        PROVE  g[t] = Try(g[t \ {Max(t)}], c[Max(t)])
    <3>1. Max(t) \in 1 .. n /\ t \ {Max(t)} \in SUBSET (1 .. n)
      BY <1>1, <2>2, LargestIndex
    <3>2. g[t] = step[g[t \ {Max(t)}], Max(t)]
      BY <1>1, <2>1, <2>2 DEF Folds
    <3>3. g[t \ {Max(t)}] \in S
      BY <2>1, <3>1
    <3> QED
      BY <3>1, <3>2, <3>3
  <2>3. g[{}] = b
    BY <2>1 DEF Folds
  <2>4. g = Rec(g)
    BY <1>1, <2>1, <2>2, <2>3
  <2> QED
    BY <2>4
<1>7. g0 = Rec(g0)
  BY <1>6
<1> HIDE DEF g0
<1>8. g0[1 .. 0] = b
  BY <1>1, <1>7, 1 .. 0 = {}
<1>9. ASSUME NEW k \in 1 .. n PROVE g0[1 .. k] = Try(g0[1 .. (k - 1)], c[k])
  <2>1. 1 .. k \in SUBSET D /\ k \in Nat \ {0}
    BY <1>1
  <2>2. 1 .. k # {} /\ Max(1 .. k) = k /\ (1 .. k) \ {k} = 1 .. (k - 1)
    BY <2>1, FirstIndices
  <2> QED
    BY <1>7, <2>1, <2>2
<1> DEFINE p == [k \in 0 .. n |-> g0[1 .. k]]
           T == {k \in 0 .. n : g0[1 .. k] \in S}
<1>10. 0 .. n \subseteq T
  <2>1. 0 \in T
    BY <1>1, <1>3, <1>8
  <2>2. ASSUME NEW k \in 0 .. n - 1, k \in T PROVE k + 1 \in T
    <3>1. k + 1 \in 1 .. n /\ (k + 1) - 1 = k
      BY <1>1
    <3>2. g0[1 .. (k + 1)] = Try(g0[1 .. k], c[k + 1])
      BY <1>9, <3>1
    <3> QED
      BY <1>4, <2>2, <3>1, <3>2
  <2> HIDE DEF T
  <2> QED
    BY <1>1, <2>1, <2>2, Induction
<1>11. p \in [0 .. n -> S] /\ p[0] = b
  BY <1>1, <1>8, <1>10
<1>12. \A k \in 1 .. n : p[k] = Try(p[k - 1], c[k])
  <2> TAKE k \in 1 .. n
  <2>1. k \in 0 .. n /\ k - 1 \in 0 .. n
    BY <1>1
  <2> QED
    BY <1>9, <2>1
<1>13. p[n] = g0[D]
  BY <1>1
<1> HIDE DEF p
<1>14. GreedySteps(p, c, budget)
  BY <1>11, <1>12 DEF GreedySteps, S, b, Try
<1> QED
  BY <1>2, <1>13, <1>14

\* With ascending candidates and bitrates, the first that does not fit is the
\* last one that matters: what is taken is a prefix, with which the budget is
\* kept and the next candidate does not fit.
LEMMA GreedyIsPrefix ==
    ASSUME NEW c \in Seq(Chunks), NEW budget \in Int, Ascending(c)
    PROVE  \E m \in 0 .. Len(c) :
               /\ Greedy(c, budget) = SubSeq(c, 1, m)
               /\ m = 0 \/ 60 * Rate(SubSeq(c, 1, m)) < 9 * budget
               /\ m < Len(c) => ~Fits(Rate(SubSeq(c, 1, m)), c[m + 1].lid, budget)
<1> DEFINE n == Len(c)
<1>0. n \in Nat
  OBVIOUS
<1>1. PICK p : GreedySteps(p, c, budget) /\ Greedy(c, budget) = p[n].taken
  BY GreedyTries
<1> DEFINE Taken(k, m) ==
             /\ p[k].taken = SubSeq(c, 1, m)
             /\ p[k].sum = Rate(SubSeq(c, 1, m))
             /\ m = 0 \/ 60 * Rate(SubSeq(c, 1, m)) < 9 * budget
             /\ m < k => ~Fits(Rate(SubSeq(c, 1, m)), c[m + 1].lid, budget)
           T == {k \in 0 .. n : \E m \in 0 .. k : Taken(k, m)}
<1>2. 0 \in T
  <2>1. SubSeq(c, 1, 0) = <<>>
    BY SubSeqEmpty
  <2>2. p[0].taken = <<>> /\ p[0].sum = BASE_LAYER_BR
    BY <1>1 DEF GreedySteps
  <2>3. /\ p[0].taken = SubSeq(c, 1, 0)
        /\ p[0].sum = Rate(SubSeq(c, 1, 0))
    BY <2>1, <2>2, RateEmpty, Zenon
  <2>4. 0 \in 0 .. n /\ 0 \in 0 .. 0 /\ ~(0 < 0)
    BY <1>0
  <2>5. Taken(0, 0)
    BY <2>3, <2>4, Zenon
  <2> HIDE DEF Taken
  <2> QED
    BY <2>4, <2>5
<1>3. ASSUME NEW k \in 0 .. n - 1, k \in T PROVE k + 1 \in T
  <2>0. k \in Nat /\ k + 1 \in 1 .. n /\ k + 1 \in 0 .. n /\ (k + 1) - 1 = k
    BY <1>0
  <2>1. PICK m \in 0 .. k : Taken(k, m)
    BY <1>3
  <2> DEFINE e == c[k + 1]
             r == Rate(SubSeq(c, 1, m))
  <2>2. p[k + 1] = IF Fits(p[k].sum, e.lid, budget)
                   THEN [sum |-> p[k].sum + ENHA_LAYER_BR[e.lid],
                         taken |-> Append(p[k].taken, e)]
                   ELSE p[k]
    BY <1>1, <2>0 DEF GreedySteps
  <2>3. e \in Chunks /\ e.lid \in 1 .. EL_VER_NUM
    BY <2>0, ElementIsChunk
  <2>4. \A i \in 1 .. m : c[i] \in Chunks
    BY <1>0, <2>0, ElementIsChunk
  <2>5. SubSeq(c, 1, m) \in Seq(Chunks) /\ r \in Nat
    <3>1. SubSeq(c, 1, m) \in Seq(Chunks)
      BY <2>0, <2>4, SubSeqProperties
    <3> QED
      BY <3>1, RateType
  <2>6. CASE Fits(p[k].sum, e.lid, budget)
    <3>1. m = k
      <4> SUFFICES ASSUME m < k PROVE FALSE
        BY <2>0
      <4>1. m + 1 \in 1 .. n /\ m + 1 <= k + 1
        BY <2>0
      <4>2. c[m + 1].lid \in 1 .. EL_VER_NUM /\ c[m + 1].lid <= e.lid
        BY <2>0, <4>1, ElementIsChunk DEF Ascending
      <4>3. ENHA_LAYER_BR[c[m + 1].lid] <= ENHA_LAYER_BR[e.lid]
        BY <2>3, <4>2, BitratesGrow
      <4>4. ENHA_LAYER_BR[c[m + 1].lid] \in Nat /\ ENHA_LAYER_BR[e.lid] \in Nat
        BY <2>3, <4>2, Bitrates
      <4>5. 60 * (r + ENHA_LAYER_BR[e.lid]) < 9 * budget
        BY <2>1, <2>6 DEF Fits
      <4>6. ~(60 * (r + ENHA_LAYER_BR[c[m + 1].lid]) < 9 * budget)
        BY <2>1 DEF Fits
      <4> HIDE DEF r, e
      <4> QED
        BY <2>5, <4>3, <4>4, <4>5, <4>6
    <3>2. SubSeq(c, 1, k + 1) = Append(SubSeq(c, 1, k), e)
      <4>1. k + 1 \in 1 .. Len(c) /\ 1 \in 1 .. Len(c) /\ k + 1 \in 1 .. Len(c)
        BY <2>0
      <4>2. SubSeq(c, 1, k + 1) = SubSeq(c, 1, k) \o <<e>>
        BY <2>0, <4>1, SubSeqRecursiveSecond
      <4> QED
        BY <2>3, <2>5, <3>1, <4>2, AppendIsConcat
    <3>3. Rate(SubSeq(c, 1, k + 1)) = r + ENHA_LAYER_BR[e.lid]
      BY <2>3, <2>5, <3>1, <3>2, RateAppend
    <3>4. /\ p[k + 1].taken = SubSeq(c, 1, k + 1)
          /\ p[k + 1].sum = Rate(SubSeq(c, 1, k + 1))
      BY <2>1, <2>2, <2>6, <3>1, <3>2, <3>3
    <3>5. 60 * Rate(SubSeq(c, 1, k + 1)) < 9 * budget
      BY <2>1, <2>6, <3>3 DEF Fits
    <3>6. Taken(k + 1, k + 1)
      BY <2>0, <3>4, <3>5
    <3> QED
      BY <2>0, <3>6
  <2>7. CASE ~Fits(p[k].sum, e.lid, budget)
    <3>1. p[k + 1] = p[k]
      BY <2>2, <2>7
    <3>2. ~Fits(r, c[m + 1].lid, budget)
      BY <2>0, <2>1, <2>7
    <3>3. Taken(k + 1, m) /\ m \in 0 .. k + 1
      BY <2>0, <2>1, <3>1, <3>2
    <3> QED
      BY <2>0, <3>3
  <2> QED
    BY <2>6, <2>7
<1>4. n \in T
  <2> HIDE DEF T, n
  <2>1. 0 .. n \subseteq T
    BY <1>0, <1>2, <1>3, Induction
  <2> QED
    BY <1>0, <2>1
<1>5. PICK m \in 0 .. n : Taken(n, m)
  BY <1>4
<1> QED
  BY <1>1, <1>5
-----------------------------------------------------------------------------
(***************************************************************************)
(* The candidates.                                                         *)
(***************************************************************************)
\* Division keeps the order.
LEMMA DivMono ==
    ASSUME NEW a \in Nat, NEW b \in Nat, NEW d \in Nat \ {0}, a <= b
    PROVE  a \div d <= b \div d
<1>1. /\ a \div d \in Nat /\ b \div d \in Nat
      /\ (a \div d) * d <= a /\ b < (b \div d) * d + d
  BY DivBounds
<1> SUFFICES ASSUME b \div d < a \div d PROVE FALSE
  BY <1>1
<1>2. (b \div d) * d + d <= (a \div d) * d
  BY <1>1, MulMono
<1>3. (a \div d) * d \in Nat /\ (b \div d) * d \in Nat
  BY <1>1
<1> QED
  BY <1>1, <1>2, <1>3

\* c has the requests for layers lo to hi of the tiles of v: what they are, that
\* each layer of each tile is among them, and that they ascend.
ListsLayers(c, v, lo, hi) ==
    /\ c \in Seq(Chunks)
    /\ Len(c) = IF hi < lo THEN 0 ELSE Len(v) * (hi - lo + 1)
    /\ \A i \in 1 .. Len(c) :
           /\ c[i] = StreamInfo(SEG, v[((i - 1) % Len(v)) + 1], lo + (i - 1) \div Len(v))
           /\ c[i].lid \in lo .. hi
    /\ \A j \in 1 .. Len(v), l \in lo .. hi :
           \E i \in 1 .. Len(c) : c[i].fid = v[j] /\ c[i].lid = l
    /\ Ascending(c)

LEMMA LayerMajorLists ==
    ASSUME NEW v \in Seq(Nat), NEW lo \in Nat \ {0}, NEW hi \in Int, hi <= EL_VER_NUM
    PROVE  ListsLayers(LayerMajor(SEG, v, lo, hi), v, lo, hi)
<1> DEFINE c == LayerMajor(SEG, v, lo, hi)
           n == Len(v)
           m == hi - lo + 1
<1>0. n \in Nat /\ EL_VER_NUM \in Nat /\ m \in Int
  BY Bitrates
<1>1. CASE hi < lo
  <2>1. c = <<>> /\ Len(c) = 0 /\ lo .. hi = {} /\ 1 .. 0 = {}
    BY <1>1 DEF LayerMajor
  <2>2. c \in Seq(Chunks) /\ Ascending(c)
    BY <2>1 DEF Ascending
  <2> HIDE DEF c
  <2>3. ListsLayers(c, v, lo, hi)
    BY <1>1, <2>1, <2>2 DEF ListsLayers
  <2> QED
    BY <2>3 DEF c
<1>2. CASE ~(hi < lo)
  <2>1. m \in Nat \ {0} /\ n * m \in Nat
    BY <1>0, <1>2
  <2>2. c = [i \in 1 .. n * m |-> StreamInfo(SEG, v[((i - 1) % n) + 1], lo + (i - 1) \div n)]
    BY <1>2 DEF LayerMajor
  <2>3. \A i \in 1 .. n * m :
            /\ n > 0
            /\ ((i - 1) % n) + 1 \in 1 .. n
            /\ (i - 1) \div n \in 0 .. m - 1
            /\ lo + (i - 1) \div n \in lo .. hi
            /\ lo + (i - 1) \div n \in 1 .. EL_VER_NUM
    <3> TAKE i \in 1 .. n * m
    <3>1. n > 0 /\ (i - 1) % n \in 0 .. n - 1 /\ (i - 1) \div n \in 0 .. m - 1
      BY <1>0, RowOf
    <3> DEFINE q == (i - 1) \div n
               r == (i - 1) % n
    <3> HIDE DEF q, r
    <3>2. r \in 0 .. n - 1 /\ q \in 0 .. m - 1
      BY <3>1 DEF q, r
    <3>3. r + 1 \in 1 .. n /\ lo + q \in lo .. hi /\ lo + q \in 1 .. EL_VER_NUM
      BY <1>0, <3>2
    <3> QED
      BY <3>1, <3>3 DEF q, r
  <2>4. \A i \in 1 .. n * m : c[i] = StreamInfo(SEG, v[((i - 1) % n) + 1], lo + (i - 1) \div n)
    BY <2>2
  <2>5. \A i \in 1 .. n * m :
            /\ c[i] \in Chunks
            /\ c[i].fid = v[((i - 1) % n) + 1]
            /\ c[i].lid = lo + (i - 1) \div n
    <3> TAKE i \in 1 .. n * m
    <3> DEFINE f == v[((i - 1) % n) + 1]
               l == lo + (i - 1) \div n
    <3>1. f \in Nat /\ l \in 1 .. EL_VER_NUM
      BY <2>3
    <3>2. c[i] = StreamInfo(SEG, f, l)
      BY <2>4
    <3> HIDE DEF f, l, c
    <3>3. c[i] \in Chunks /\ c[i].fid = f /\ c[i].lid = l
      BY <3>1, <3>2 DEF StreamInfo, Chunks
    <3> QED
      BY <3>3 DEF f, l
  <2>6. c \in Seq(Chunks) /\ Len(c) = n * m
    <3>1. c = [i \in 1 .. n * m |-> c[i]]
      BY <2>2
    <3>2. c \in [1 .. n * m -> Chunks]
      BY <2>5, <3>1
    <3> HIDE DEF c
    <3> QED
      BY <2>1, <3>2
  <2>7. ASSUME NEW j \in 1 .. n, NEW l \in lo .. hi
        PROVE  \E i \in 1 .. n * m : c[i].fid = v[j] /\ c[i].lid = l
    <3> DEFINE q == l - lo
               i == q * n + (j - 1) + 1
    <3>1. n \in Nat \ {0} /\ q \in Nat /\ q < m /\ j - 1 \in 0 .. n - 1
      BY <1>0
    <3>2. /\ q * n + (j - 1) \in Nat
          /\ (q * n + (j - 1)) % n = j - 1
          /\ (q * n + (j - 1)) \div n = q
      <4> HIDE DEF q
      <4> QED
        BY <3>1, Compose
    <3>3. i \in 1 .. n * m
      <4>1. q * n + n <= m * n
        <5> HIDE DEF q, m, n
        <5> QED
          BY <2>1, <3>1, MulMono
      <4>2. q * n \in Nat
        <5> HIDE DEF q, m, n
        <5> QED
          BY <3>1
      <4>3. m * n = n * m
        <5> HIDE DEF q, m, n
        <5> QED
          BY <2>1, <3>1
      <4> DEFINE x == q * n
                 y == n * m
      <4> HIDE DEF x, y
      <4>4. x + n <= y /\ x \in Nat /\ y \in Nat /\ x + (j - 1) + 1 \in 1 .. y
        BY <2>1, <3>1, <4>1, <4>2, <4>3 DEF x, y
      <4> QED
        BY <4>4 DEF x, y
    <3>4. i - 1 = q * n + (j - 1)
      <4> DEFINE z == q * n + (j - 1)
      <4> HIDE DEF z
      <4>1. z \in Nat /\ (z + 1) - 1 = z
        BY <3>2 DEF z
      <4> QED
        BY <4>1 DEF z
    <3>5. (j - 1) + 1 = j /\ lo + q = l
      OBVIOUS
    <3> HIDE DEF i, q
    <3>6. c[i].fid = v[(((i - 1) % n)) + 1] /\ c[i].lid = lo + (i - 1) \div n
      BY <2>5, <3>3
    <3>7. c[i].fid = v[j] /\ c[i].lid = l
      BY <3>2, <3>4, <3>5, <3>6
    <3> QED
      BY <3>3, <3>7
  <2>8. Ascending(c)
    <3> SUFFICES ASSUME NEW i \in 1 .. n * m, NEW j \in 1 .. n * m, i <= j
                 PROVE  c[i].lid <= c[j].lid
      BY <2>6 DEF Ascending
    <3>1. n \in Nat \ {0} /\ i - 1 \in Nat /\ j - 1 \in Nat /\ i - 1 <= j - 1
      BY <1>0, <2>3
    <3>2. (i - 1) \div n <= (j - 1) \div n
      BY <3>1, DivMono
    <3>3. (i - 1) \div n \in Nat /\ (j - 1) \div n \in Nat
      BY <3>1, DivBounds
    <3> DEFINE a == (i - 1) \div n
               b == (j - 1) \div n
    <3> HIDE DEF a, b
    <3>4. lo + a <= lo + b
      BY <3>2, <3>3 DEF a, b
    <3> QED
      BY <2>5, <3>4 DEF a, b
  <2> HIDE DEF c
  <2>9. \A i \in 1 .. Len(c) : c[i].lid \in lo .. hi
    BY <2>3, <2>5, <2>6
  <2>10. Len(c) = IF hi < lo THEN 0 ELSE Len(v) * (hi - lo + 1)
    BY <1>2, <2>6
  <2>11. ListsLayers(c, v, lo, hi)
    BY <2>4, <2>6, <2>7, <2>8, <2>9, <2>10 DEF ListsLayers
  <2> QED
    BY <2>11 DEF c
<1> QED
  BY <1>1, <1>2
\* The algorithms without a window that request layer by layer.
LayerByLayer == {3, 5, 6, 7, 8, 11, 12}

\* The layers they may request.
TopLayer(alg) == IF alg = 3 THEN 2 ELSE EL_VER_NUM

\* What such an algorithm may try: each layer of each tile of v.
TriesAll(c, v, top) ==
    /\ c \in Seq(Chunks)
    /\ Ascending(c)
    /\ \A i \in 1 .. Len(c) : c[i].lid \in 1 .. top
    /\ \A j \in 1 .. Len(v), l \in 1 .. top :
           \E i \in 1 .. Len(c) : c[i].fid = v[j] /\ c[i].lid = l

\* ... and one with a window: from its lowest layer up.
TriesWindow(c, lo, hi) ==
    /\ c \in Seq(Chunks)
    /\ Ascending(c)
    /\ \A i \in 1 .. Len(c) : c[i].lid \in lo .. hi
    /\ c # <<>> => c[1].lid = lo /\ lo <= hi

LEMMA ListsAll ==
    ASSUME NEW c, NEW v, NEW top \in Int, ListsLayers(c, v, 1, top)
    PROVE  TriesAll(c, v, top)
BY DEF ListsLayers, TriesAll

\* With other tiles after those of v.
LEMMA ListsAllExtended ==
    ASSUME NEW c, NEW v \in Seq(Nat), NEW e \in Seq(Nat), NEW top \in Int,
           ListsLayers(c, v \o e, 1, top)
    PROVE  TriesAll(c, v, top)
<1>1. /\ c \in Seq(Chunks) /\ Ascending(c)
      /\ \A i \in 1 .. Len(c) : c[i].lid \in 1 .. top
      /\ \A j \in 1 .. Len(v \o e), l \in 1 .. top :
             \E i \in 1 .. Len(c) : c[i].fid = (v \o e)[j] /\ c[i].lid = l
  BY DEF ListsLayers
<1>2. \A j \in 1 .. Len(v) : j \in 1 .. Len(v \o e) /\ (v \o e)[j] = v[j]
  OBVIOUS
<1>3. ASSUME NEW j \in 1 .. Len(v), NEW l \in 1 .. top
      PROVE  \E i \in 1 .. Len(c) : c[i].fid = v[j] /\ c[i].lid = l
  <2>1. PICK i \in 1 .. Len(c) : c[i].fid = (v \o e)[j] /\ c[i].lid = l
    BY <1>1, <1>2
  <2>2. c[i].fid = v[j]
    BY <1>2, <2>1
  <2> QED
    BY <2>1, <2>2
<1> QED
  BY <1>1, <1>3 DEF TriesAll

\* With layer 1 of other tiles before.
LEMMA ListsAllAfter ==
    ASSUME NEW c, NEW d, NEW v \in Seq(Nat), NEW e \in Seq(Nat),
           NEW top \in Nat \ {0},
           ListsLayers(d, e, 1, 1), ListsLayers(c, v, 1, top)
    PROVE  TriesAll(d \o c, v, top)
<1>1. /\ c \in Seq(Chunks) /\ d \in Seq(Chunks) /\ Ascending(c) /\ Ascending(d)
      /\ \A i \in 1 .. Len(c) : c[i].lid \in 1 .. top
      /\ \A i \in 1 .. Len(d) : d[i].lid \in 1 .. 1
      /\ \A j \in 1 .. Len(v), l \in 1 .. top :
             \E i \in 1 .. Len(c) : c[i].fid = v[j] /\ c[i].lid = l
  BY DEF ListsLayers
<1> DEFINE b == d \o c
           n == Len(d)
           m == Len(c)
<1>2. /\ b \in Seq(Chunks) /\ n \in Nat /\ m \in Nat /\ Len(b) = n + m
      /\ \A i \in 1 .. n + m : b[i] = IF i <= n THEN d[i] ELSE c[i - n]
  BY <1>1, ConcatProperties
<1> HIDE DEF b
<1>3. \A i \in 1 .. n + m : i <= n => i \in 1 .. n /\ b[i] = d[i] /\ b[i].lid = 1
  <2> SUFFICES ASSUME NEW i \in 1 .. n + m, i <= n
               PROVE  i \in 1 .. n /\ b[i] = d[i] /\ b[i].lid = 1
    OBVIOUS
  <2>1. i \in 1 .. n /\ b[i] = d[i]
    BY <1>2
  <2>2. d[i].lid \in 1 .. 1
    BY <1>1, <2>1
  <2> QED
    BY <2>1, <2>2
<1>4. \A i \in 1 .. n + m : ~(i <= n) => i - n \in 1 .. m /\ b[i] = c[i - n]
  BY <1>2
<1>5. \A i \in 1 .. n + m : b[i].lid \in 1 .. top
  <2> TAKE i \in 1 .. n + m
  <2>1. CASE i <= n
    BY <1>3, <2>1
  <2>2. CASE ~(i <= n)
    BY <1>1, <1>4, <2>2
  <2> QED
    BY <2>1, <2>2
<1>6. Ascending(b)
  <2> SUFFICES ASSUME NEW i \in 1 .. n + m, NEW j \in 1 .. n + m, i <= j
               PROVE  b[i].lid <= b[j].lid
    BY <1>2 DEF Ascending
  <2>1. CASE i <= n
    BY <1>3, <1>5, <2>1
  <2>2. CASE ~(i <= n)
    <3>1. /\ i - n \in 1 .. m /\ j - n \in 1 .. m /\ i - n <= j - n
          /\ b[i] = c[i - n] /\ b[j] = c[j - n]
      BY <1>2, <1>4, <2>2
    <3> QED
      BY <1>1, <3>1 DEF Ascending
  <2> QED
    BY <2>1, <2>2
<1>7. ASSUME NEW j \in 1 .. Len(v), NEW l \in 1 .. top
      PROVE  \E i \in 1 .. n + m : b[i].fid = v[j] /\ b[i].lid = l
  <2>1. PICK i \in 1 .. m : c[i].fid = v[j] /\ c[i].lid = l
    BY <1>1
  <2>2. n + i \in 1 .. n + m /\ ~(n + i <= n) /\ (n + i) - n = i
    BY <1>2
  <2>3. b[n + i] = c[i]
    BY <1>4, <2>2
  <2> QED
    BY <2>1, <2>2, <2>3
<1>8. TriesAll(b, v, top)
  BY <1>2, <1>5, <1>6, <1>7 DEF TriesAll
<1> QED
  BY <1>8 DEF b

LEMMA CandidatesAll ==
    ASSUME NEW alg \in LayerByLayer, NEW v \in Seq(Nat), NEW e \in Seq(Nat)
    PROVE  TriesAll(Candidates(alg, SEG, v, e, 1, EL_VER_NUM, EL_VER_NUM), v, TopLayer(alg))
<1> DEFINE c == Candidates(alg, SEG, v, e, 1, EL_VER_NUM, EL_VER_NUM)
<1>1. EL_VER_NUM \in Nat \ {0} /\ EL_VER_NUM >= 2 /\ 1 \in Nat \ {0} /\ v \o e \in Seq(Nat)
  BY Bitrates
<1>2. CASE alg = 3
  <2>1. c = LayerMajor(SEG, v, 1, 2) /\ TopLayer(alg) = 2
    BY <1>2 DEF Candidates, TopLayer, ExtendFirst
  <2>2. ListsLayers(LayerMajor(SEG, v, 1, 2), v, 1, 2)
    BY <1>1, LayerMajorLists
  <2> QED
    BY <2>1, <2>2, ListsAll
<1>3. CASE alg = 5
  <2>1. c = LayerMajor(SEG, v, 1, EL_VER_NUM) /\ TopLayer(alg) = EL_VER_NUM
    BY <1>3 DEF Candidates, TopLayer, ExtendFirst
  <2>2. ListsLayers(LayerMajor(SEG, v, 1, EL_VER_NUM), v, 1, EL_VER_NUM)
    BY <1>1, LayerMajorLists
  <2> QED
    BY <1>1, <2>1, <2>2, ListsAll
<1>4. CASE alg \in {6, 8, 11}
  <2>1. /\ c = LayerMajor(SEG, e, 1, 1) \o LayerMajor(SEG, v, 1, EL_VER_NUM)
        /\ TopLayer(alg) = EL_VER_NUM
    BY <1>4 DEF Candidates, TopLayer, ExtendFirst
  <2>2. /\ ListsLayers(LayerMajor(SEG, v, 1, EL_VER_NUM), v, 1, EL_VER_NUM)
        /\ ListsLayers(LayerMajor(SEG, e, 1, 1), e, 1, 1)
    BY <1>1, LayerMajorLists
  <2> QED
    BY <1>1, <2>1, <2>2, ListsAllAfter
<1>5. CASE alg \in {7, 12}
  <2>1. c = LayerMajor(SEG, v \o e, 1, EL_VER_NUM) /\ TopLayer(alg) = EL_VER_NUM
    BY <1>5 DEF Candidates, TopLayer, ExtendFirst
  <2> DEFINE w == v \o e
  <2>2. ListsLayers(LayerMajor(SEG, w, 1, EL_VER_NUM), w, 1, EL_VER_NUM)
    <3>1. w \in Seq(Nat) /\ EL_VER_NUM \in Int /\ EL_VER_NUM <= EL_VER_NUM
      BY <1>1
    <3> HIDE DEF w
    <3> QED
      BY <1>1, <3>1, LayerMajorLists
  <2> QED
    BY <1>1, <2>1, <2>2, ListsAllExtended
<1> QED
  BY <1>2, <1>3, <1>4, <1>5 DEF LayerByLayer

LEMMA CandidatesWindow ==
    ASSUME NEW alg \in MovingWindow, NEW v \in Seq(Nat), NEW e \in Seq(Nat),
           NEW lo \in Nat \ {0}, NEW hi \in Int, hi <= EL_VER_NUM
    PROVE  TriesWindow(Candidates(alg, SEG, v, e, lo, hi, EL_VER_NUM), lo, hi)
<1> DEFINE w == IF alg = 9 THEN v ELSE v \o e
           c == LayerMajor(SEG, w, lo, hi)
<1>1. w \in Seq(Nat)
  OBVIOUS
<1>2. Candidates(alg, SEG, v, e, lo, hi, EL_VER_NUM) = c
  BY DEF Candidates, MovingWindow, ExtendFirst
<1> HIDE DEF w
<1>3. ListsLayers(c, w, lo, hi)
  BY <1>1, LayerMajorLists
<1> HIDE DEF c
<1>4. c # <<>> => c[1].lid = lo /\ lo <= hi
  <2> SUFFICES ASSUME c # <<>> PROVE c[1].lid = lo /\ lo <= hi
    OBVIOUS
  <2>1. c \in Seq(Chunks) /\ Len(c) # 0
    BY <1>3 DEF ListsLayers
  <2>2. ~(hi < lo) /\ Len(w) # 0
    <3>1. Len(c) = IF hi < lo THEN 0 ELSE Len(w) * (hi - lo + 1)
      BY <1>3 DEF ListsLayers
    <3>2. 0 * (hi - lo + 1) = 0
      OBVIOUS
    <3> QED
      BY <2>1, <3>1, <3>2
  <2>3. 1 \in 1 .. Len(c) /\ Len(w) \in Nat \ {0}
    BY <1>1, <2>1, <2>2
  <2>4. c[1] = StreamInfo(SEG, w[((1 - 1) % Len(w)) + 1], lo + (1 - 1) \div Len(w))
    BY <1>3, <2>3 DEF ListsLayers
  <2>5. (1 - 1) \div Len(w) = 0
    BY <2>3
  <2>6. c[1].lid = lo + (1 - 1) \div Len(w)
    BY <2>4 DEF StreamInfo
  <2> QED
    BY <2>2, <2>5, <2>6
<1>5. TriesWindow(c, lo, hi)
  BY <1>3, <1>4 DEF ListsLayers, TriesWindow
<1> QED
  BY <1>2, <1>5
-----------------------------------------------------------------------------
(***************************************************************************)
(* The extremes of a finite set of integers.                               *)
(***************************************************************************)
LEMMA FiniteMax ==
    ASSUME NEW S, S \subseteq Int, S # {}, IsFiniteSet(S)
    PROVE  Max(S) \in S /\ \A y \in S : Max(S) >= y
<1>1. PICK n \in Nat : ExistsSurjection(1 .. n, S)
  BY FS_NatSurjection
<1>2. PICK f \in Surjection(1 .. n, S) : TRUE
  BY <1>1 DEF ExistsSurjection
<1>3. f \in [1 .. n -> S] /\ \A y \in S : \E j \in 1 .. n : f[j] = y
  BY <1>2 DEF Surjection
<1> DEFINE T == {k \in 0 .. n : k = 0 \/ \E m \in 1 .. k : \A j \in 1 .. k : f[j] <= f[m]}
<1>4. 0 \in T
  OBVIOUS
<1>5. ASSUME NEW k \in 0 .. n - 1, k \in T PROVE k + 1 \in T
  <2>1. k + 1 \in 1 .. n /\ k + 1 \in 0 .. n /\ k \in Nat /\ k + 1 \in 1 .. k + 1
    OBVIOUS
  <2>2. \A j \in 1 .. n : f[j] \in Int
    BY <1>3
  <2>3. CASE k = 0
    <3>1. \A j \in 1 .. k + 1 : f[j] <= f[k + 1]
      BY <2>1, <2>2, <2>3
    <3> QED
      BY <2>1, <3>1
  <2>4. CASE k # 0
    <3>1. PICK m \in 1 .. k : \A j \in 1 .. k : f[j] <= f[m]
      BY <1>5, <2>4
    <3>2. m \in 1 .. n /\ m \in 1 .. k + 1
      BY <2>1
    <3>3. CASE f[k + 1] <= f[m]
      <4>1. \A j \in 1 .. k + 1 : f[j] <= f[m]
        BY <2>1, <3>1, <3>3
      <4> QED
        BY <2>1, <3>2, <4>1
    <3>4. CASE ~(f[k + 1] <= f[m])
      <4>1. \A j \in 1 .. k + 1 : f[j] <= f[k + 1]
        <5> TAKE j \in 1 .. k + 1
        <5>1. j \in 1 .. k \/ j = k + 1
          BY <2>1
        <5>2. f[j] \in Int /\ f[m] \in Int /\ f[k + 1] \in Int
          BY <2>1, <2>2, <3>2, <5>1
        <5> QED
          BY <3>1, <3>4, <5>1, <5>2
      <4> QED
        BY <2>1, <4>1
    <3> QED
      BY <3>3, <3>4
  <2> QED
    BY <2>3, <2>4
<1>6. n \in T
  <2> HIDE DEF T
  <2>1. 0 .. n \subseteq T
    BY <1>4, <1>5, Induction
  <2> QED
    BY <2>1
<1>7. n # 0
  <2>1. PICK y \in S : TRUE
    OBVIOUS
  <2>2. PICK j \in 1 .. n : f[j] = y
    BY <1>3
  <2> QED
    BY <2>2
<1>8. PICK m \in 1 .. n : \A j \in 1 .. n : f[j] <= f[m]
  BY <1>6, <1>7
<1>9. f[m] \in S /\ \A y \in S : f[m] >= y
  BY <1>3, <1>8
<1> QED
  BY <1>9 DEF Max

LEMMA FiniteMin ==
    ASSUME NEW S, S \subseteq Int, S # {}, IsFiniteSet(S)
    PROVE  Min(S) \in S /\ \A y \in S : Min(S) <= y
<1> DEFINE N == {-x : x \in S}
<1>1. N \subseteq Int /\ N # {}
  <2>1. \A x \in S : -x \in Int
    OBVIOUS
  <2>2. PICK x \in S : TRUE
    OBVIOUS
  <2>3. -x \in N
    OBVIOUS
  <2> QED
    BY <2>1, <2>3
<1>2. IsFiniteSet(N)
  <2> DEFINE h == [x \in S |-> -x]
  <2>1. h \in Surjection(S, N)
    BY DEF Surjection
  <2> HIDE DEF h, N
  <2> QED
    BY <2>1, FS_Surjection
<1> DEFINE z == Max(N)
<1>3. z \in N /\ \A y \in N : z >= y
  <2> HIDE DEF N
  <2> QED
    BY <1>1, <1>2, FiniteMax
<1> HIDE DEF z
<1>4. PICK x \in S : z = -x
  BY <1>3
<1>5. \A y \in S : x <= y
  <2> TAKE y \in S
  <2>1. -y \in N /\ x \in Int /\ y \in Int
    OBVIOUS
  <2>2. -x >= -y
    BY <1>3, <1>4, <2>1
  <2> QED
    BY <2>1, <2>2
<1> QED
  BY <1>5 DEF Min

-----------------------------------------------------------------------------
(***************************************************************************)
(* The bitrate of whole tiles.                                             *)
(***************************************************************************)
LEMMA UpToIs ==
    /\ UpTo \in [0 .. EL_VER_NUM -> Int]
    /\ UpTo[0] = 0
    /\ \A l \in 1 .. EL_VER_NUM : UpTo[l] = UpTo[l - 1] + ENHA_LAYER_BR[l]
    /\ SumsUpTo(UpTo, ENHA_LAYER_BR)
<1> DEFINE Rec(g) == [l \in 0 .. EL_VER_NUM |->
                        IF l = 0 THEN 0 ELSE g[l - 1] + ENHA_LAYER_BR[l]]
<1>0. /\ EL_VER_NUM \in Nat /\ Len(ENHA_LAYER_BR) = EL_VER_NUM
      /\ ENHA_LAYER_BR \in Seq(Int) /\ 0 \in 0 .. EL_VER_NUM
  BY BitrateAssumption DEF EL_VER_NUM
<1>1. PICK p : SumsUpTo(p, ENHA_LAYER_BR)
  BY <1>0, SumSteps
<1>2. /\ p \in [0 .. EL_VER_NUM -> Int] /\ p[0] = 0
      /\ \A l \in 1 .. EL_VER_NUM : p[l] = p[l - 1] + ENHA_LAYER_BR[l]
  BY <1>0, <1>1 DEF SumsUpTo
<1>3. p = Rec(p)
  BY <1>0, <1>2
<1>4. UpTo = CHOOSE g : g = Rec(g)
  BY DEF UpTo
<1>5. UpTo = Rec(UpTo)
  BY <1>3, <1>4
<1>6. UpTo[0] = 0 /\ \A l \in 1 .. EL_VER_NUM : UpTo[l] = UpTo[l - 1] + ENHA_LAYER_BR[l]
  BY <1>0, <1>5
<1> DEFINE T == {k \in 0 .. EL_VER_NUM : UpTo[k] \in Int}
<1>7. 0 .. EL_VER_NUM \subseteq T
  <2>1. 0 \in T
    BY <1>0, <1>6
  <2>2. ASSUME NEW k \in 0 .. EL_VER_NUM - 1, k \in T PROVE k + 1 \in T
    <3>1. k + 1 \in 1 .. EL_VER_NUM /\ (k + 1) - 1 = k /\ k + 1 \in 0 .. EL_VER_NUM
      BY <1>0
    <3>2. ENHA_LAYER_BR[k + 1] \in Nat /\ UpTo[k] \in Int
      BY <2>2, <3>1, Bitrates
    <3>3. UpTo[k + 1] = UpTo[k] + ENHA_LAYER_BR[k + 1]
      BY <1>6, <3>1
    <3> QED
      BY <3>1, <3>2, <3>3
  <2> HIDE DEF T
  <2> QED
    BY <1>0, <2>1, <2>2, Induction
<1>8. UpTo = [l \in 0 .. EL_VER_NUM |-> UpTo[l]]
  BY <1>5
<1>9. UpTo \in [0 .. EL_VER_NUM -> Int]
  BY <1>7, <1>8
<1>10. SumsUpTo(UpTo, ENHA_LAYER_BR)
  BY <1>0, <1>6, <1>9 DEF SumsUpTo
<1> QED
  BY <1>6, <1>9, <1>10

\* l layers of each tile of v.
LEMMA TileMajorRate ==
    ASSUME NEW v \in Seq(Nat), NEW l \in 0 .. EL_VER_NUM
    PROVE  /\ TileMajor(SEG, v, l) \in Seq(Chunks)
           /\ Len(TileMajor(SEG, v, l)) = Len(v) * l
           /\ Rate(TileMajor(SEG, v, l)) = BASE_LAYER_BR + UpTo[l] * Len(v)
<1> DEFINE c == TileMajor(SEG, v, l)
           n == Len(v)
<1>0. /\ n \in Nat /\ l \in Nat /\ EL_VER_NUM \in Nat /\ BASE_LAYER_BR \in Nat
      /\ n * l \in Nat /\ l * n = n * l
  BY Bitrates
<1>1. \A i \in 1 .. n * l :
          /\ n > 0 /\ l > 0
          /\ (i - 1) % l \in 0 .. l - 1
          /\ (i - 1) \div l \in 0 .. n - 1
  <2> TAKE i \in 1 .. n * l
  <2>1. i \in 1 .. l * n
    BY <1>0
  <2>2. l \in Nat /\ n \in Int /\ i \in 1 .. l * n
    BY <1>0, <2>1
  <2> HIDE DEF n
  <2>3. l > 0 /\ n > 0 /\ (i - 1) % l \in 0 .. l - 1 /\ (i - 1) \div l \in 0 .. n - 1
    BY ONLY <2>2, RowOf
  <2> QED
    BY <2>3
<1>2. c = [i \in 1 .. n * l |-> StreamInfo(SEG, v[((i - 1) \div l) + 1], ((i - 1) % l) + 1)]
  BY DEF TileMajor
<1>3. \A i \in 1 .. n * l : c[i] \in Chunks /\ c[i].lid = ((i - 1) % l) + 1
  <2> TAKE i \in 1 .. n * l
  <2> DEFINE t == v[((i - 1) \div l) + 1]
             x == ((i - 1) % l) + 1
  <2>1. t \in Nat
    <3> DEFINE d == (i - 1) \div l
    <3>1. d \in 0 .. n - 1
      BY <1>1
    <3> HIDE DEF d
    <3>2. d + 1 \in 1 .. Len(v)
      BY <1>0, <3>1
    <3>3. v[d + 1] \in Nat
      BY <3>2
    <3> QED
      BY <3>3 DEF d
  <2>2. x \in 1 .. EL_VER_NUM
    <3> DEFINE d == (i - 1) % l
    <3>1. d \in 0 .. l - 1
      BY <1>1
    <3> HIDE DEF d
    <3>2. d + 1 \in 1 .. EL_VER_NUM
      BY <1>0, <3>1
    <3> QED
      BY <3>2 DEF d
  <2>3. c[i] = StreamInfo(SEG, t, x)
    BY <1>2
  <2> HIDE DEF t, x, c
  <2>4. c[i] \in Chunks /\ c[i].lid = x
    BY <2>1, <2>2, <2>3 DEF StreamInfo, Chunks
  <2> QED
    BY <2>4 DEF x
<1>4. c \in Seq(Chunks) /\ Len(c) = n * l /\ DOMAIN c = 1 .. n * l
  <2>1. c = [i \in 1 .. n * l |-> c[i]]
    BY <1>2
  <2>2. c \in [1 .. n * l -> Chunks]
    BY <1>3, <2>1
  <2> HIDE DEF c
  <2> QED
    BY <1>0, <2>2
<1> HIDE DEF c
<1> DEFINE b == BitrateOf(c)
<1>5. /\ b \in Seq(Int) /\ Len(b) = n * l
      /\ \A i \in 1 .. n * l : b[i] = ENHA_LAYER_BR[((i - 1) % l) + 1]
  <2>1. b \in Seq(Int) /\ Len(b) = n * l
    BY <1>4, BitrateOfType
  <2>2. \A i \in 1 .. n * l : b[i] = ENHA_LAYER_BR[c[i].lid]
    BY <1>4 DEF BitrateOf
  <2> QED
    BY <1>3, <2>1, <2>2
<1>6. Rate(c) = BASE_LAYER_BR + SumOf(b)
  BY <1>4, RateType
<1> HIDE DEF b
<1>7. SumOf(b) = UpTo[l] * n
  <2>1. CASE l = 0
    <3>1. n * l = 0
      BY <1>0, <2>1
    <3>2. b = <<>>
      BY <1>5, <3>1
    <3>3. UpTo[l] * n = 0
      BY <1>0, <2>1, UpToIs
    <3> QED
      BY <3>2, <3>3, SumEmpty
  <2>2. CASE l # 0
    <3> DEFINE U == UpTo[l]
               Q == [i \in 0 .. n * l |-> (i \div l) * U + UpTo[i % l]]
    <3>0. l \in Nat \ {0} /\ U \in Int
      BY <1>0, <2>2, UpToIs
    <3>1. \A q \in Nat, r \in 0 .. l - 1 :
              q * l + r \in 0 .. n * l => Q[q * l + r] = q * U + UpTo[r]
      <4> SUFFICES ASSUME NEW q \in Nat, NEW r \in 0 .. l - 1, q * l + r \in 0 .. n * l
                   PROVE  Q[q * l + r] = q * U + UpTo[r]
        OBVIOUS
      <4>1. (q * l + r) % l = r /\ (q * l + r) \div l = q
        BY <3>0, Compose
      <4>2. Q[q * l + r] = ((q * l + r) \div l) * U + UpTo[(q * l + r) % l]
        OBVIOUS
      <4> QED
        BY <4>1, <4>2
    <3>2. Q \in [0 .. n * l -> Int]
      <4>1. \A i \in 0 .. n * l : (i \div l) * U + UpTo[i % l] \in Int
        <5> TAKE i \in 0 .. n * l
        <5>1. i \div l \in Nat /\ i % l \in 0 .. l - 1
          <6>1. i \in Nat
            BY <1>0
          <6> QED
            BY <3>0, <6>1, DivRest
        <5>2. UpTo[i % l] \in Int
          <6>1. \A z \in 0 .. l - 1 : z \in 0 .. EL_VER_NUM
            BY <1>0
          <6> QED
            BY <5>1, <6>1, UpToIs
        <5> DEFINE x == i \div l
                   y == UpTo[i % l]
        <5> HIDE DEF x, y, U
        <5>3. x * U + y \in Int
          BY <3>0, <5>1, <5>2 DEF x, y
        <5> QED
          BY <5>3 DEF x, y
      <4> QED
        BY <4>1
    <3>3. 0 * l + 0 = 0 /\ 0 \in 0 .. n * l /\ 0 \in 0 .. l - 1
      BY <1>0, <3>0
    <3> HIDE DEF U, Q
    <3>4. Q[0] = 0
      <4>1. Q[0 * l + 0] = 0 * U + UpTo[0]
        BY <3>1, <3>3
      <4> QED
        BY <3>0, <3>3, <4>1, UpToIs
    <3>5. ASSUME NEW i \in 1 .. n * l
          PROVE  Q[i] = Q[i - 1] + b[i]
      <4> DEFINE q == (i - 1) \div l
                 r == (i - 1) % l
      <4>1. i \in Nat /\ i - 1 \in Nat /\ i - 1 \in 0 .. n * l /\ i \in 0 .. n * l
        BY <1>0
      <4>2. q \in Nat /\ r \in 0 .. l - 1 /\ i - 1 = q * l + r
        BY <3>0, <4>1, DivRest
      <4>3. b[i] = ENHA_LAYER_BR[r + 1]
        BY <1>5
      <4> HIDE DEF q, r
      <4>4. Q[i - 1] = q * U + UpTo[r]
        BY <3>1, <4>1, <4>2
      <4>5. r + 1 \in 1 .. EL_VER_NUM /\ (r + 1) - 1 = r
        BY <1>0, <4>2
      <4>6. UpTo[r + 1] = UpTo[r] + b[i] /\ UpTo[r] \in Int /\ b[i] \in Int
        <5>1. r \in 0 .. EL_VER_NUM
          BY <1>0, <4>2
        <5>2. UpTo[r + 1] = UpTo[(r + 1) - 1] + ENHA_LAYER_BR[r + 1]
          BY <4>5, UpToIs
        <5>3. UpTo[r] \in Int
          BY <5>1, UpToIs
        <5>4. b[i] \in Int
          BY <1>5
        <5> QED
          BY <4>3, <4>5, <5>2, <5>3, <5>4
      <4>7. q * l \in Nat /\ (q + 1) * l = q * l + l /\ q + 1 \in Nat
        BY <3>0, <4>2
      <4>8. q * U \in Int /\ (q + 1) * U = q * U + U
        BY <3>0, <4>2
      <4>9. CASE r + 1 < l
        <5>1. r + 1 \in 0 .. l - 1
          BY <3>0, <4>2, <4>9
        <5>2. i = q * l + (r + 1)
          BY <4>1, <4>2, <4>7
        <5>3. Q[i] = q * U + UpTo[r + 1]
          BY <3>1, <4>1, <4>2, <5>1, <5>2
        <5> QED
          BY <4>4, <4>6, <4>8, <5>3
      <4>10. CASE ~(r + 1 < l)
        <5>1. r + 1 = l
          BY <3>0, <4>2, <4>10
        <5>2. i = (q + 1) * l + 0
          BY <4>1, <4>2, <4>7, <5>1
        <5>3. Q[i] = (q + 1) * U + UpTo[0]
          BY <3>1, <3>3, <4>1, <4>7, <5>2
        <5>4. U = UpTo[r] + b[i] /\ UpTo[0] = 0
          BY <4>6, <5>1, UpToIs DEF U
        <5> QED
          BY <3>0, <4>4, <4>6, <4>8, <5>3, <5>4
      <4> QED
        BY <4>9, <4>10
    <3>6. SumsUpTo(Q, b)
      BY <1>5, <3>2, <3>4, <3>5 DEF SumsUpTo
    <3>7. PICK p : SumsUpTo(p, b) /\ SumOf(b) = p[n * l]
      BY <1>5, SumSteps
    <3>8. p[n * l] = Q[n * l]
      <4> DEFINE z == n * l
      <4>1. z \in Nat /\ Len(b) = z
        BY <1>0, <1>5
      <4> HIDE DEF z
      <4>2. p[z] = Q[z]
        BY <1>5, <3>6, <3>7, <4>1, SameSums
      <4> QED
        BY <4>2 DEF z
    <3>9. Q[n * l] = n * U + UpTo[0]
      <4>1. n * l + 0 = n * l /\ n * l + 0 \in 0 .. n * l
        BY <1>0
      <4>2. Q[n * l + 0] = n * U + UpTo[0]
        BY <1>0, <3>1, <3>3, <4>1
      <4> QED
        BY <4>1, <4>2
    <3>10. n * U + UpTo[0] = U * n
      BY <1>0, <3>0, UpToIs
    <3> QED
      BY <3>7, <3>8, <3>9, <3>10 DEF U
  <2> QED
    BY <2>1, <2>2
<1> QED
  BY <1>4, <1>6, <1>7 DEF c
-----------------------------------------------------------------------------
(***************************************************************************)
(* The bitrate of what ALG 4 selects.                                      *)
(***************************************************************************)
\* r is some of the elements of s, in the order of s.
SubsequenceOf(r, s) ==
    \E g \in [1 .. Len(r) -> 1 .. Len(s)] :
        /\ \A i \in 1 .. Len(r) : r[i] = s[g[i]]
        /\ \A i, j \in 1 .. Len(r) : i < j => g[i] < g[j]

\* The selected elements of a list without repetitions are found in the list in
\* the order they are selected.
LEMMA InOrderPlaces ==
    ASSUME NEW T, NEW s \in Seq(T), NEW S \in SUBSET ToSet(s), NEW r \in InOrderOf(s, S),
           \A a, b \in 1 .. Len(s) : s[a] = s[b] => a = b
    PROVE  /\ r \in Seq(S)
           /\ SubsequenceOf(r, s)
<1>0. Len(s) \in Nat /\ DOMAIN s = 1 .. Len(s)
  OBVIOUS
<1>1. IsFiniteSet(S)
  <2> DEFINE h == [i \in 1 .. Len(s) |-> s[i]]
  <2>1. h \in Surjection(1 .. Len(s), ToSet(s))
    BY <1>0 DEF Surjection, ToSet
  <2>2. IsFiniteSet(1 .. Len(s))
    BY <1>0, FS_Interval
  <2> HIDE DEF h
  <2>3. IsFiniteSet(ToSet(s))
    BY <2>1, <2>2, FS_Surjection
  <2> QED
    BY <2>3, FS_Subset
<1> DEFINE n == Cardinality(S)
<1>2. n \in Nat
  BY <1>1, FS_CardinalityType
<1>3. r \in [1 .. n -> S]
  BY DEF InOrderOf, SetToSeqs
<1> HIDE DEF n
<1>4. r \in Seq(S) /\ Len(r) = n /\ DOMAIN r = 1 .. n
  BY <1>2, <1>3
<1>5. \A i \in 1 .. n : \E a \in 1 .. Len(s) : s[a] = r[i]
  BY <1>0, <1>3 DEF ToSet
<1> DEFINE g == [i \in 1 .. n |-> CHOOSE a \in 1 .. Len(s) : s[a] = r[i]]
<1>6. \A i \in 1 .. n : g[i] \in 1 .. Len(s) /\ s[g[i]] = r[i]
  BY <1>5
<1>7. g \in [1 .. n -> 1 .. Len(s)]
  BY <1>6
<1> HIDE DEF g
<1>8. ASSUME NEW i \in 1 .. n, NEW j \in 1 .. n, i < j
      PROVE  g[i] < g[j]
  <2>1. PICK a \in 1 .. Len(s), b \in 1 .. Len(s) : a < b /\ s[a] = r[i] /\ s[b] = r[j]
    BY <1>0, <1>4, <1>8 DEF InOrderOf
  <2>2. g[i] = a /\ g[j] = b
    BY <1>6, <2>1
  <2> QED
    BY <2>1, <2>2
<1> QED
  BY <1>4, <1>6, <1>7, <1>8 DEF SubsequenceOf

\* A function on 1 .. n as a sequence.
LEMMA FunctionAsSequence ==
    ASSUME NEW S, NEW n \in Nat, NEW u \in [1 .. n -> S]
    PROVE  u \in Seq(S) /\ Len(u) = n
<1>1. DOMAIN u = 1 .. n
  OBVIOUS
<1>2. u \in Seq(S)
  BY <1>1, SeqDef
<1>3. Len(u) \in Nat /\ DOMAIN u = 1 .. Len(u)
  BY <1>2, LenProperties
<1> QED
  BY <1>1, <1>2, <1>3

LEMMA SelectedRate ==
    ASSUME NEW v \in Seq(Nat), \A i, j \in DOMAIN v : v[i] = v[j] => i = j,
           NEW f \in [ToSet(v) -> 0 .. 2], NEW r \in Selected(SEG, v, f)
    PROVE  /\ r \in Seq(Chunks)
           /\ Rate(r) <= BASE_LAYER_BR + SumOf([i \in DOMAIN v |-> UpTo[f[v[i]]]])
<1> DEFINE n == Len(v)
           all == LayerMajor(SEG, v, 1, 2)
           S == {c \in ToSet(all) : c.lid <= f[c.fid]}
           u == [i \in DOMAIN v |-> UpTo[f[v[i]]]]
           Layer(l, i) == IF l <= f[v[i]] THEN ENHA_LAYER_BR[l] ELSE 0
           one == [i \in 1 .. n |-> Layer(1, i)]
           two == [i \in 1 .. n |-> Layer(2, i)]
<1>0. /\ n \in Nat /\ EL_VER_NUM \in Nat /\ 1 \in 1 .. EL_VER_NUM /\ 2 \in 1 .. EL_VER_NUM
      /\ ENHA_LAYER_BR[1] \in Nat /\ ENHA_LAYER_BR[2] \in Nat /\ BASE_LAYER_BR \in Nat
      /\ DOMAIN v = 1 .. n
  BY Bitrates
<1>1. \A i \in 1 .. n : f[v[i]] \in 0 .. 2
  BY <1>0 DEF ToSet
<1>2. ListsLayers(all, v, 1, 2)
  BY Bitrates, LayerMajorLists
<1>3. /\ all \in Seq(Chunks) /\ Len(all) = n + n
      /\ \A i \in 1 .. n + n :
             all[i] = StreamInfo(SEG, v[((i - 1) % n) + 1], 1 + (i - 1) \div n)
  <2>1. ~(2 < 1) /\ n * (2 - 1 + 1) = n + n
    BY <1>0
  <2> HIDE DEF all, n
  <2> QED
    BY <1>2, <2>1 DEF ListsLayers, n
<1>4. r \in InOrderOf(all, S)
  BY DEF Selected
<1> HIDE DEF all
<1>5. \A i \in 1 .. n : all[i] = StreamInfo(SEG, v[i], 1)
  <2> TAKE i \in 1 .. n
  <2>1. n \in Nat \ {0} /\ i - 1 \in 0 .. n - 1 /\ i \in 1 .. n + n
    BY <1>0
  <2>2. (0 * n + (i - 1)) % n = i - 1 /\ (0 * n + (i - 1)) \div n = 0
    <3> HIDE DEF n
    <3> QED
      BY <2>1, Compose
  <2>3. 0 * n + (i - 1) = i - 1 /\ (i - 1) + 1 = i /\ 1 + 0 = 1
    BY <2>1
  <2>4. (i - 1) % n = i - 1 /\ (i - 1) \div n = 0
    BY <2>2, <2>3
  <2>5. all[i] = StreamInfo(SEG, v[((i - 1) % n) + 1], 1 + (i - 1) \div n)
    BY <1>3, <2>1
  <2> QED
    BY <2>3, <2>4, <2>5
<1>6. \A i \in 1 .. n : all[n + i] = StreamInfo(SEG, v[i], 2)
  <2> TAKE i \in 1 .. n
  <2>1. n \in Nat \ {0} /\ i - 1 \in 0 .. n - 1 /\ n + i \in 1 .. n + n
    BY <1>0
  <2>2. (1 * n + (i - 1)) % n = i - 1 /\ (1 * n + (i - 1)) \div n = 1
    <3> HIDE DEF n
    <3> QED
      BY <2>1, Compose
  <2>3. 1 * n + (i - 1) = (n + i) - 1 /\ (i - 1) + 1 = i /\ 1 + 1 = 2
    BY <2>1
  <2>4. ((n + i) - 1) % n = i - 1 /\ ((n + i) - 1) \div n = 1
    BY <2>2, <2>3
  <2>5. all[n + i] = StreamInfo(SEG, v[(((n + i) - 1) % n) + 1], 1 + ((n + i) - 1) \div n)
    BY <1>3, <2>1
  <2> QED
    BY <2>3, <2>4, <2>5
<1>25. \A i \in 1 .. n : /\ all[i].fid = v[i] /\ all[i].lid = 1
                         /\ all[n + i].fid = v[i] /\ all[n + i].lid = 2
  <2> TAKE i \in 1 .. n
  <2>1. all[i] = StreamInfo(SEG, v[i], 1) /\ all[n + i] = StreamInfo(SEG, v[i], 2)
    BY <1>5, <1>6
  <2> HIDE DEF n
  <2>2. all[i].fid = v[i] /\ all[i].lid = 1
    BY ONLY <2>1 DEF StreamInfo
  <2>3. all[n + i].fid = v[i] /\ all[n + i].lid = 2
    BY ONLY <2>1 DEF StreamInfo
  <2> QED
    BY <2>2, <2>3
<1>7. \A a \in 1 .. n + n : \/ a \in 1 .. n
                            \/ \E i \in 1 .. n : a = n + i
  <2> TAKE a \in 1 .. n + n
  <2>1. ~(a \in 1 .. n) => a - n \in 1 .. n /\ a = n + (a - n)
    BY <1>0
  <2> QED
    BY <2>1
<1>8. \A a, b \in 1 .. Len(all) : all[a] = all[b] => a = b
  <2> SUFFICES ASSUME NEW a \in 1 .. n + n, NEW b \in 1 .. n + n, all[a] = all[b]
               PROVE  a = b
    BY <1>3
  <2> HIDE DEF n
  <2>1. CASE a \in 1 .. n /\ b \in 1 .. n
    <3>1. v[a] = v[b]
      BY <1>25, <2>1
    <3> QED
      BY <1>0, <2>1, <3>1
  <2>2. CASE a \notin 1 .. n /\ b \notin 1 .. n
    <3>1. PICK i \in 1 .. n, j \in 1 .. n : a = n + i /\ b = n + j
      BY <1>7, <2>2
    <3>2. v[i] = v[j]
      BY <1>25, <3>1
    <3> QED
      BY <1>0, <3>1, <3>2
  <2>3. CASE a \in 1 .. n /\ b \notin 1 .. n
    <3>1. PICK j \in 1 .. n : b = n + j
      BY <1>7, <2>3
    <3> QED
      BY <1>25, <2>3, <3>1
  <2>4. CASE a \notin 1 .. n /\ b \in 1 .. n
    <3>1. PICK i \in 1 .. n : a = n + i
      BY <1>7, <2>4
    <3> QED
      BY <1>25, <2>4, <3>1
  <2> QED
    BY <2>1, <2>2, <2>3, <2>4
<1>9. S \in SUBSET ToSet(all) /\ S \subseteq Chunks
  <2>1. \A a \in DOMAIN all : all[a] \in Chunks
    BY <1>3
  <2> QED
    BY <2>1 DEF ToSet
<1>10. \A c \in S : c.lid <= f[c.fid]
  OBVIOUS
<1> HIDE DEF S
<1>11. r \in Seq(S) /\ SubsequenceOf(r, all)
  <2>1. all \in Seq(Chunks)
    BY <1>3
  <2>2. S \in SUBSET ToSet(all)
    BY <1>9
  <2> HIDE DEF n, u, one, two, Layer
  <2> QED
    BY ONLY <1>4, <1>8, <2>1, <2>2, InOrderPlaces
<1>12. PICK g \in [1 .. Len(r) -> 1 .. Len(all)] :
              /\ \A i \in 1 .. Len(r) : r[i] = all[g[i]]
              /\ \A i, j \in 1 .. Len(r) : i < j => g[i] < g[j]
  BY <1>11 DEF SubsequenceOf
<1>13. r \in Seq(Chunks)
  BY <1>9, <1>11, SeqMonotonic
<1>14. \A l \in 1 .. 2, i \in 1 .. n : Layer(l, i) \in Nat
  BY <1>0, <1>1
<1>15. /\ one \in Seq(Nat) /\ two \in Seq(Nat) /\ Len(one) = n /\ Len(two) = n
       /\ \A i \in 1 .. n : one[i] = Layer(1, i) /\ two[i] = Layer(2, i)
  BY <1>0, <1>14
<1> DEFINE M == one \o two
<1> HIDE DEF one, two
<1>16. /\ M \in Seq(Nat) /\ Len(M) = n + n
       /\ \A i \in 1 .. n : M[i] = Layer(1, i) /\ M[n + i] = Layer(2, i)
  <2>1. /\ M \in Seq(Nat) /\ Len(M) = n + n
        /\ \A i \in 1 .. n + n : M[i] = IF i <= n THEN one[i] ELSE two[i - n]
    <3>1. one \in Seq(Nat) /\ two \in Seq(Nat)
      BY <1>15
    <3>2. /\ M \in Seq(Nat) /\ Len(M) = Len(one) + Len(two)
          /\ \A i \in 1 .. Len(one) + Len(two) :
                 M[i] = IF i <= Len(one) THEN one[i] ELSE two[i - Len(one)]
      BY ONLY <3>1, ConcatProperties DEF M
    <3> HIDE DEF M, n
    <3> QED
      BY <1>15, <3>2
  <2> HIDE DEF M, n, Layer
  <2>2. ASSUME NEW i \in 1 .. n PROVE M[i] = one[i] /\ M[n + i] = two[i]
    <3>1. i \in 1 .. n + n /\ i <= n /\ n + i \in 1 .. n + n /\ ~(n + i <= n) /\ (n + i) - n = i
      BY <1>0
    <3> QED
      BY <2>1, <3>1
  <2> QED
    BY <1>15, <2>1, <2>2
<1> HIDE DEF M
<1> DEFINE b == BitrateOf(r)
<1>17. b \in Seq(Nat) /\ Len(b) = Len(r) /\ \A j \in 1 .. Len(r) : b[j] = ENHA_LAYER_BR[r[j].lid]
  <2>1. DOMAIN r = 1 .. Len(r)
    BY <1>13
  <2> QED
    BY <1>13, <2>1, BitrateOfType DEF BitrateOf
<1>18. ASSUME NEW j \in 1 .. Len(r) PROVE b[j] = M[g[j]]
  <2> DEFINE a == g[j]
  <2>1. a \in 1 .. n + n /\ r[j] = all[a]
    BY <1>3, <1>12
  <2>2. r[j] \in S
    BY <1>11, ElementOfSeq
  <2>3. r[j].lid <= f[r[j].fid]
    BY <1>10, <2>2
  <2> HIDE DEF a, n, b
  <2>4. CASE a \in 1 .. n
    <3>1. r[j].lid = 1 /\ r[j].fid = v[a]
      BY <1>25, <2>1, <2>4
    <3>2. Layer(1, a) = ENHA_LAYER_BR[1]
      BY <2>3, <3>1
    <3> HIDE DEF Layer
    <3> QED
      BY <1>16, <1>17, <2>4, <3>1, <3>2 DEF a
  <2>5. CASE a \notin 1 .. n
    <3>1. PICK i \in 1 .. n : a = n + i
      BY <1>7, <2>1, <2>5
    <3>2. r[j].lid = 2 /\ r[j].fid = v[i]
      BY <1>25, <2>1, <3>1
    <3>3. Layer(2, i) = ENHA_LAYER_BR[2]
      BY <2>3, <3>2
    <3> HIDE DEF Layer
    <3> QED
      BY <1>16, <1>17, <3>1, <3>2, <3>3 DEF a
  <2> QED
    BY <2>4, <2>5
<1>19. SumOf(b) <= SumOf(M)
  <2>1. g \in [1 .. Len(b) -> 1 .. Len(M)]
    BY <1>3, <1>12, <1>16, <1>17
  <2>2. \A i, j \in 1 .. Len(b) : i < j => g[i] < g[j]
    BY <1>12, <1>17
  <2>3. \A i \in 1 .. Len(b) : b[i] = M[g[i]]
    BY <1>17, <1>18
  <2> HIDE DEF b
  <2> QED
    BY <1>16, <1>17, <2>1, <2>2, <2>3, SumSelection
<1>20. SumOf(M) = SumOf(one) + SumOf(two)
  BY <1>15, SumConcat DEF M
<1>21. SumOf(u) = SumOf(one) + SumOf(two)
  <2>1. UpTo[0] = 0 /\ UpTo[1] = ENHA_LAYER_BR[1] /\ UpTo[2] = ENHA_LAYER_BR[1] + ENHA_LAYER_BR[2]
    <3>1. UpTo[1] = UpTo[1 - 1] + ENHA_LAYER_BR[1] /\ UpTo[2] = UpTo[2 - 1] + ENHA_LAYER_BR[2]
      BY <1>0, UpToIs
    <3>2. 1 - 1 = 0 /\ 2 - 1 = 1 /\ UpTo[0] = 0
      BY UpToIs
    <3> QED
      BY <1>0, <3>1, <3>2
  <2>2. \A i \in 1 .. n : u[i] = one[i] + two[i] /\ u[i] \in Int
    <3> TAKE i \in 1 .. n
    <3>1. u[i] = UpTo[f[v[i]]]
      BY <1>0
    <3>2. one[i] = Layer(1, i) /\ two[i] = Layer(2, i)
      BY <1>15
    <3>3. f[v[i]] = 0 \/ f[v[i]] = 1 \/ f[v[i]] = 2
      BY <1>1
    <3> HIDE DEF u
    <3> QED
      BY <1>0, <2>1, <3>1, <3>2, <3>3
  <2>3. u \in Seq(Int) /\ Len(u) = n
    <3>1. u = [i \in 1 .. n |-> u[i]]
      BY <1>0
    <3>2. u \in [1 .. n -> Int]
      BY <2>2, <3>1
    <3>3. n \in Nat
      BY <1>0
    <3> HIDE DEF u, n
    <3> QED
      BY ONLY <3>2, <3>3, FunctionAsSequence
  <2>4. one \in Seq(Int) /\ two \in Seq(Int) /\ Len(one) = n /\ Len(two) = n
    BY <1>15
  <2> HIDE DEF u, n
  <2>5. Len(one) = Len(u) /\ Len(two) = Len(u) /\ \A i \in 1 .. Len(u) : u[i] = one[i] + two[i]
    BY <2>2, <2>3, <2>4
  <2> QED
    BY ONLY <2>3, <2>4, <2>5, SumAdded
<1>22. Rate(r) = BASE_LAYER_BR + SumOf(b) /\ SumOf(b) \in Nat
  BY <1>13, RateType
<1>23. SumOf(M) \in Nat
  BY <1>16, SumNat
<1> HIDE DEF b, u
<1>24. Rate(r) <= BASE_LAYER_BR + SumOf(u)
  BY <1>0, <1>19, <1>20, <1>21, <1>22, <1>23
<1> QED
  BY <1>13, <1>24 DEF u
-----------------------------------------------------------------------------
(***************************************************************************)
(* What a request loop leaves.                                             *)
(***************************************************************************)
LEMMA PrefixIs ==
    ASSUME NEW c \in Seq(Chunks), NEW m \in 0 .. Len(c)
    PROVE  /\ SubSeq(c, 1, m) \in Seq(Chunks)
           /\ Len(SubSeq(c, 1, m)) = m
           /\ \A i \in 1 .. m : SubSeq(c, 1, m)[i] = c[i]
<1>1. Len(c) \in Nat /\ m \in Nat
  OBVIOUS
<1>2. \A i \in 1 .. m : c[i] \in Chunks
  BY <1>1, ElementIsChunk
<1>3. /\ SubSeq(c, 1, m) \in Seq(Chunks)
      /\ Len(SubSeq(c, 1, m)) = IF 1 <= m THEN m - 1 + 1 ELSE 0
      /\ \A i \in 1 .. m - 1 + 1 : SubSeq(c, 1, m)[i] = c[1 + i - 1]
  BY <1>1, <1>2, SubSeqProperties
<1>4. m - 1 + 1 = m /\ (~(1 <= m) => m = 0)
  BY <1>1
<1>5. \A i \in 1 .. m : 1 + i - 1 = i
  BY <1>1
<1> QED
  BY <1>3, <1>4, <1>5

\* If the next candidate does not fit, the next layer of no tile of v does.
LEMMA NothingFits ==
    ASSUME NEW c, NEW v, NEW top \in 1 .. EL_VER_NUM, TriesAll(c, v, top),
           NEW budget \in Int, NEW m \in 0 .. Len(c),
           m < Len(c) => ~Fits(Rate(SubSeq(c, 1, m)), c[m + 1].lid, budget),
           NEW j \in 1 .. Len(v),
           NEW has, \A x \in has : \E i \in 1 .. m : c[i].lid = x,
           \A i \in 1 .. m : c[i].fid = v[j] => c[i].lid \in has
    PROVE  Cardinality(has) + 1 <= top
               => ~Fits(Rate(SubSeq(c, 1, m)), Cardinality(has) + 1, budget)
<1> DEFINE next == Cardinality(has) + 1
           taken == SubSeq(c, 1, m)
<1>0. /\ c \in Seq(Chunks) /\ Len(c) \in Nat /\ m \in Nat
      /\ EL_VER_NUM \in Nat /\ top \in Nat
  BY Bitrates DEF TriesAll
<1>1. /\ taken \in Seq(Chunks) /\ Len(taken) = m /\ DOMAIN taken = 1 .. m
      /\ \A i \in 1 .. m : taken[i] = c[i]
  BY <1>0, PrefixIs
<1>2. Rate(taken) \in Nat
  BY <1>1, RateType
<1> HIDE DEF taken
<1>3. /\ \A x \in has : \E i \in 1 .. m : c[i].lid = x
      /\ \A i \in 1 .. m : c[i].fid = v[j] => c[i].lid \in has
  OBVIOUS
<1>5. \A i \in 1 .. Len(c) : c[i].lid \in 1 .. top
  BY DEF TriesAll
<1>6. \A l \in 1 .. top : \E i \in 1 .. Len(c) : c[i].fid = v[j] /\ c[i].lid = l
  BY DEF TriesAll
<1>7. CASE m = Len(c)
  <2>1. has = 1 .. top
    BY <1>3, <1>5, <1>6, <1>7
  <2>2. Cardinality(has) = top
    BY <1>0, <2>1, FS_Interval
  <2> QED
    BY <1>0, <2>2
<1>8. CASE m < Len(c)
  <2> DEFINE L == c[m + 1].lid
  <2>0. m + 1 \in 1 .. Len(c) /\ \A i \in 1 .. m : i \in 1 .. Len(c) /\ i <= m + 1
    BY <1>0, <1>8
  <2>1. L \in 1 .. top
    BY <1>5, <2>0
  <2>2. ~Fits(Rate(taken), L, budget)
    BY <1>8 DEF taken
  <2>3. \A x \in has : x \in 1 .. L
    <3> TAKE x \in has
    <3>1. PICK i \in 1 .. m : c[i].lid = x
      BY <1>3
    <3>2. c[i].lid <= L /\ c[i].lid \in 1 .. top
      BY <1>5, <2>0 DEF TriesAll, Ascending
    <3> QED
      BY <2>1, <3>1, <3>2
  <2>4. \A l \in 1 .. L - 1 : l \in has
    <3> TAKE l \in 1 .. L - 1
    <3>1. l \in 1 .. top
      BY <1>0, <2>1
    <3>2. PICK i \in 1 .. Len(c) : c[i].fid = v[j] /\ c[i].lid = l
      BY <1>6, <3>1
    <3>3. ~(m + 1 <= i)
      <4> SUFFICES ASSUME m + 1 <= i PROVE FALSE
        OBVIOUS
      <4>1. L <= c[i].lid
        BY <2>0 DEF TriesAll, Ascending
      <4> QED
        BY <2>1, <3>2, <4>1
    <3>4. i \in 1 .. m
      BY <1>0, <3>3
    <3> QED
      BY <3>2, <3>4
  <2> HIDE DEF L
  <2>5. Cardinality(has) = L \/ Cardinality(has) = L - 1
    <3>1. CASE L \in has
      <4>2. \A x \in 1 .. L : x \in has
        BY <2>1, <2>4, <3>1
      <4>1. has = 1 .. L
        BY <2>3, <4>2
      <4> QED
        BY <2>1, <4>1, FS_Interval
    <3>2. CASE L \notin has
      <4>2. \A x \in has : x \in 1 .. L - 1
        BY <2>1, <2>3, <3>2
      <4>1. has = 1 .. L - 1
        BY <2>4, <4>2
      <4> QED
        BY <2>1, <4>1, FS_Interval
    <3> QED
      BY <3>1, <3>2
  <2>6. ASSUME next <= top PROVE ~Fits(Rate(taken), next, budget)
    <3>1. next \in 1 .. EL_VER_NUM /\ L \in 1 .. EL_VER_NUM /\ L <= next
      BY <1>0, <2>1, <2>5, <2>6
    <3>2. ENHA_LAYER_BR[L] <= ENHA_LAYER_BR[next]
      BY <3>1, BitratesGrow
    <3>3. ENHA_LAYER_BR[L] \in Nat /\ ENHA_LAYER_BR[next] \in Nat
      BY <3>1, Bitrates
    <3> HIDE DEF next
    <3> QED
      BY <1>2, <2>2, <3>2, <3>3 DEF Fits
  <2> QED
    BY <2>6 DEF taken
<1> QED
  BY <1>0, <1>7, <1>8

\* The layers of tile t in a list of requests.
LayersIn(taken, t) == {taken[i].lid : i \in {k \in DOMAIN taken : taken[k].fid = t}}

LEMMA LayersTaken ==
    ASSUME NEW c \in Seq(Chunks), NEW m \in 0 .. Len(c), NEW t
    PROVE  /\ \A x \in LayersIn(SubSeq(c, 1, m), t) : \E i \in 1 .. m : c[i].lid = x
           /\ \A i \in 1 .. m : c[i].fid = t => c[i].lid \in LayersIn(SubSeq(c, 1, m), t)
<1> DEFINE taken == SubSeq(c, 1, m)
<1>1. /\ taken \in Seq(Chunks) /\ Len(taken) = m
      /\ \A i \in 1 .. m : taken[i] = c[i]
  BY PrefixIs
<1>2. DOMAIN taken = 1 .. m
  BY <1>1
<1> HIDE DEF taken
<1>3. /\ \A x \in LayersIn(taken, t) : \E i \in 1 .. m : c[i].lid = x
      /\ \A i \in 1 .. m : c[i].fid = t => c[i].lid \in LayersIn(taken, t)
  BY ONLY <1>1, <1>2 DEF LayersIn
<1> QED
  BY <1>3 DEF taken

\* What the algorithms for whole tiles request is offered.
LEMMA UniformOffered ==
    ASSUME NEW alg \in UniformLayers, NEW v, NEW adj, NEW l \in 0 .. EL_VER_NUM
    PROVE  TileMajor(SEG, v, l) \in Offers(alg, SEG, v, adj, EL_VER_NUM)
<1> DEFINE S == {TileMajor(SEG, v, x) : x \in 0 .. EL_VER_NUM}
<1>1. TileMajor(SEG, v, l) \in S
  OBVIOUS
<1>2. CASE alg = 1
  BY <1>1, <1>2 DEF Offers, UniformLayers
<1>3. CASE alg = 2
  BY <1>1, <1>3 DEF Offers, UniformLayers
<1> QED
  BY <1>2, <1>3 DEF UniformLayers

\* What the algorithms without a window take is offered.
LEMMA AllOffered ==
    ASSUME NEW alg \in LayerByLayer, NEW v, NEW adj,
           NEW e \in IF alg \in Extending THEN {<<>>, adj} ELSE {<<>>},
           NEW m \in 0 .. Len(Candidates(alg, SEG, v, e, 1, EL_VER_NUM, EL_VER_NUM))
    PROVE  SubSeq(Candidates(alg, SEG, v, e, 1, EL_VER_NUM, EL_VER_NUM), 1, m)
               \in Offers(alg, SEG, v, adj, EL_VER_NUM)
<1> DEFINE c == Candidates(alg, SEG, v, e, 1, EL_VER_NUM, EL_VER_NUM)
<1>1. alg \notin UniformLayers /\ alg # 4 /\ alg \notin MovingWindow
  BY DEF LayerByLayer, UniformLayers, MovingWindow
<1>2. SubSeq(c, 1, m) \in Prefixes(c)
  BY DEF Prefixes
<1>3. Offers(alg, SEG, v, adj, EL_VER_NUM) =
        UNION {Prefixes(Candidates(alg, SEG, v, x, lo, hi, EL_VER_NUM)) :
                   x \in IF alg \in Extending THEN {<<>>, adj} ELSE {<<>>},
                   lo \in {1}, hi \in {EL_VER_NUM}}
  BY <1>1 DEF Offers
<1> QED
  BY <1>2, <1>3

LEMMA WindowOffered ==
    ASSUME NEW alg \in MovingWindow, NEW v, NEW adj,
           NEW e \in IF alg \in Extending THEN {<<>>, adj} ELSE {<<>>},
           NEW lo \in 1 .. EL_VER_NUM, NEW hi \in 1 .. EL_VER_NUM,
           NEW m \in 0 .. Len(Candidates(alg, SEG, v, e, lo, hi, EL_VER_NUM))
    PROVE  SubSeq(Candidates(alg, SEG, v, e, lo, hi, EL_VER_NUM), 1, m)
               \in Offers(alg, SEG, v, adj, EL_VER_NUM)
<1> DEFINE c == Candidates(alg, SEG, v, e, lo, hi, EL_VER_NUM)
<1>1. alg \notin UniformLayers /\ alg # 4
  BY DEF UniformLayers, MovingWindow
<1>2. SubSeq(c, 1, m) \in Prefixes(c)
  BY DEF Prefixes
<1>3. Offers(alg, SEG, v, adj, EL_VER_NUM) =
        UNION {Prefixes(Candidates(alg, SEG, v, x, a, b, EL_VER_NUM)) :
                   x \in IF alg \in Extending THEN {<<>>, adj} ELSE {<<>>},
                   a \in 1 .. EL_VER_NUM, b \in 1 .. EL_VER_NUM}
  BY <1>1 DEF Offers
<1> QED
  BY <1>2, <1>3

-----------------------------------------------------------------------------
(***************************************************************************)
(* The estimate.                                                           *)
(***************************************************************************)
\* The mean of samples is not above the highest.
LEMMA EstimateBound ==
    ASSUME NEW n \in 1 .. 3, NEW s \in [1 .. n -> Samples]
    PROVE  /\ Samples # {} /\ Max(Samples) \in Nat
           /\ est_iter_thrp(s) \in Nat /\ est_iter_thrp(s) <= 6 * Max(Samples)
<1>1. Samples \subseteq Nat /\ IsFiniteSet(Samples) /\ s[1] \in Samples
  BY BitrateAssumption
<1>2. Samples \subseteq Int /\ Samples # {}
  BY <1>1
<1> DEFINE m == Max(Samples)
<1>3. m \in Nat /\ \A x \in Samples : x \in 0 .. m
  <2>1. m \in Samples /\ \A y \in Samples : m >= y
    BY <1>1, <1>2, FiniteMax
  <2> HIDE DEF m
  <2> QED
    BY <1>1, <2>1
<1> HIDE DEF m
<1>4. s \in Seq(0 .. m) /\ Len(s) = n /\ s # <<>> /\ s \in Seq(Nat)
  <2>1. s \in [1 .. n -> 0 .. m]
    BY <1>3
  <2>0. n \in Nat /\ n # 0
    OBVIOUS
  <2>2. s \in Seq(0 .. m) /\ Len(s) = n
    <3>1. DOMAIN s = 1 .. n
      OBVIOUS
    <3>2. s \in Seq(0 .. m)
      BY <2>0, <2>1, SeqDef
    <3>3. Len(s) \in Nat /\ DOMAIN s = 1 .. Len(s)
      BY <3>2, LenProperties
    <3> QED
      BY <2>0, <3>1, <3>2, <3>3
  <2>3. s \in Seq(Nat) /\ s # <<>>
    BY <1>3, <2>0, <2>2
  <2> QED
    BY <2>2, <2>3
<1>5. SumOf(s) <= n * m /\ SumOf(s) \in Nat
  BY <1>3, <1>4, SumBound, SumNat
<1>6. est_iter_thrp(s) = (6 \div n) * SumOf(s)
  BY <1>4 DEF est_iter_thrp
<1>7. n = 1 \/ n = 2 \/ n = 3
  OBVIOUS
<1>8. CASE n = 1
  <2>1. 6 \div n = 6
    BY <1>8
  <2> QED
    BY <1>2, <1>3, <1>5, <1>6, <1>8, <2>1 DEF m
<1>9. CASE n = 2
  <2>1. 6 \div n = 3
    BY <1>9
  <2> QED
    BY <1>2, <1>3, <1>5, <1>6, <1>9, <2>1 DEF m
<1>10. CASE n = 3
  <2>1. 6 \div n = 2
    BY <1>10
  <2> QED
    BY <1>2, <1>3, <1>5, <1>6, <1>10, <2>1 DEF m
<1> QED
  BY <1>7, <1>8, <1>9, <1>10
-----------------------------------------------------------------------------
(***************************************************************************)
(* The invariants.  What is requested is right when it is decided, and     *)
(* nothing it is judged by changes until the iteration ends; the inductive *)
(* part is the window, and that no estimate exceeds what was measured.     *)
(***************************************************************************)
ThroughputMeasured ==
    iter_est_thrp > 0 \/ iter_smooth_bitrate > 0 =>
        /\ Samples # {} /\ Max(Samples) \in Nat
        /\ iter_est_thrp <= 6 * Max(Samples)
        /\ iter_smooth_bitrate <= 6 * Max(Samples)

Decided == RequestsOffered /\ WithinBudget /\ NothingLeftOut

IInv == AdaptationTypeOK /\ ThroughputMeasured /\ WindowComesDown /\ Decided

\* Nothing was requested.
LEMMA NothingDecided ==
    ASSUME phase # "layers"
    PROVE  Decided
BY DEF Decided, RequestsOffered, WithinBudget, NothingLeftOut

LEMMA NothingDecidedNext ==
    ASSUME phase' # "layers"
    PROVE  Decided'
BY DEF Decided, RequestsOffered, WithinBudget, NothingLeftOut

\* The window, clamped, and the budget are numbers.
LEMMA WindowType ==
    ASSUME AdaptationTypeOK
    PROVE  /\ ClampedMin \in 1 .. EL_VER_NUM + 1
           /\ ClampedMax \in 0 .. EL_VER_NUM
           /\ thrp_budget \in Nat
           /\ EL_VER_NUM \in Nat /\ EL_VER_NUM >= 2
<1>1. EL_VER_NUM \in Nat /\ EL_VER_NUM >= 2
  BY Bitrates
<1>2. min_layerId \in -2 .. EL_VER_NUM + 1 /\ max_layerId \in 0 .. 4 + EL_VER_NUM
  BY DEF AdaptationTypeOK
<1>3. ClampedMin \in 1 .. EL_VER_NUM + 1 /\ ClampedMax \in 0 .. EL_VER_NUM
  BY <1>1, <1>2 DEF ClampedMin, ClampedMax
<1> QED
  BY <1>1, <1>3 DEF AdaptationTypeOK, thrp_budget

\* A view is a list of tiles, and so is what it is extended by.
LEMMA ViewType ==
    ASSUME NEW v \in Views, NEW e \in Extensions(v)
    PROVE  /\ v \in Seq(Nat) /\ e \in Seq(Nat)
           /\ e \in IF ALG \in Extending THEN {<<>>, Adjacent[v]} ELSE {<<>>}
<1>1. v \in Seq(Nat) /\ Adjacent[v] \in Seq(Nat) /\ <<>> \in Seq(Nat)
  BY ViewAssumption
<1>2. e \in IF ALG \in Extending THEN {<<>>, Adjacent[v]} ELSE {<<>>}
  BY DEF Extensions
<1> QED
  BY <1>1, <1>2

\* With a budget kept, the link carries what was requested.
LEMMA BudgetKept ==
    ASSUME NEW r \in Nat, NEW b \in Nat, 60 * r < 9 * b
    PROVE  6 * r <= b /\ b > 0
OBVIOUS

\* The request loops keep the budget of their algorithm.
LEMMA WithinMeasured ==
    ASSUME AdaptationTypeOK, ThroughputMeasured, ALG \notin {1, 2, 4},
           NEW c \in Seq(Chunks), 60 * Rate(c) < 9 * thrp_budget
    PROVE  IF ALG \in {8, 11} THEN Rate(c) <= Max(Samples) ELSE 6 * Rate(c) <= iter_est_thrp
<1>1. Rate(c) \in Nat
  BY RateType
<1>2. iter_est_thrp \in Nat /\ iter_smooth_bitrate \in Nat
  BY DEF AdaptationTypeOK
<1>3. CASE ALG \in {8, 11}
  <2>1. 60 * Rate(c) < 9 * iter_smooth_bitrate
    BY <1>3 DEF thrp_budget
  <2>2. 6 * Rate(c) <= iter_smooth_bitrate /\ iter_smooth_bitrate > 0
    BY <1>1, <1>2, <2>1, BudgetKept
  <2>3. Max(Samples) \in Nat /\ iter_smooth_bitrate <= 6 * Max(Samples)
    BY <2>2 DEF ThroughputMeasured
  <2>4. Rate(c) <= Max(Samples)
    BY <1>1, <1>2, <2>2, <2>3
  <2> QED
    BY <1>3, <2>4
<1>4. CASE ALG \notin {8, 11}
  <2>1. 60 * Rate(c) < 9 * iter_est_thrp
    BY <1>4 DEF thrp_budget
  <2> QED
    BY <1>1, <1>2, <1>4, <2>1, BudgetKept
<1> QED
  BY <1>3, <1>4

\* The layers of a list of requests are layers there are.
LEMMA RequestsType ==
    ASSUME NEW c \in Seq(Chunks)
    PROVE  \A i \in DOMAIN c : c[i].lid \in 1 .. EL_VER_NUM
<1>1. DOMAIN c = 1 .. Len(c)
  OBVIOUS
<1> QED
  BY <1>1, ElementIsChunk

\* What a decision without a window leaves of the types, the estimate and the
\* window.
LEMMA RequestedKeeps ==
    ASSUME IInv, NEW v \in Views, NEW time \in TimeLeft \cup {0},
           NEW taken \in Seq(Chunks), phase = "decide", Requested(v, time, taken),
           UNCHANGED <<ALG, iter_sam_thrp, iter_est_thrp, iter_smooth_bitrate>>,
           min_layerId' \in -2 .. EL_VER_NUM + 1, max_layerId' \in 0 .. 4 + EL_VER_NUM
    PROVE  AdaptationTypeOK' /\ ThroughputMeasured'
<1>1. \A i \in DOMAIN requests' : requests'[i].lid \in 1 .. EL_VER_NUM
  BY RequestsType DEF Requested
<1>2. AdaptationTypeOK'
  BY <1>1 DEF IInv, AdaptationTypeOK, Requested
<1>3. ThroughputMeasured'
  BY DEF IInv, ThroughputMeasured
<1> QED
  BY <1>2, <1>3

\* A moved window stays in its bounds.
LEMMA MoveWindowType ==
    ASSUME NEW lo \in -1 .. EL_VER_NUM + 2, NEW hi \in -1 .. EL_VER_NUM + 2,
           NEW taken \in Seq(Chunks), MoveWindow(lo, hi, taken)
    PROVE  /\ min_layerId' \in -2 .. EL_VER_NUM + 1
           /\ max_layerId' \in 0 .. 4 + EL_VER_NUM
           /\ max_layerId' >= lo + 1 /\ min_layerId' <= hi - 1
           /\ \A i \in DOMAIN taken : /\ max_layerId' >= taken[i].lid + 1
                                      /\ min_layerId' <= taken[i].lid - 1
<1> DEFINE lids == {taken[i].lid : i \in DOMAIN taken}
<1>0. EL_VER_NUM \in Nat /\ EL_VER_NUM >= 2
  BY Bitrates
<1>1. /\ max_layerId' = Max(lids \cup {lo}) + 1
      /\ min_layerId' = Min(lids \cup {hi}) - 1
  BY DEF MoveWindow
<1>2. \A x \in lids : x \in 1 .. EL_VER_NUM
  BY RequestsType
<1> HIDE DEF lids
<1>3. \A x \in {lo, hi} : /\ lids \cup {x} \subseteq Int /\ lids \cup {x} # {}
                          /\ IsFiniteSet(lids \cup {x})
                          /\ \A y \in lids \cup {x} : y \in -1 .. EL_VER_NUM + 2
  <2> TAKE x \in {lo, hi}
  <2>1. x \in -1 .. EL_VER_NUM + 2
    OBVIOUS
  <2>2. \A y \in lids \cup {x} : y \in -1 .. EL_VER_NUM + 2
    BY <1>0, <1>2, <2>1
  <2>3. IsFiniteSet(-1 .. EL_VER_NUM + 2)
    BY <1>0, FS_Interval
  <2>4. lids \cup {x} \in SUBSET (-1 .. EL_VER_NUM + 2)
    BY <2>2
  <2>5. IsFiniteSet(lids \cup {x})
    BY <2>3, <2>4, FS_Subset
  <2>6. lids \cup {x} \subseteq Int /\ lids \cup {x} # {}
    BY <2>2
  <2> QED
    BY <2>2, <2>5, <2>6
<1> DEFINE a == Max(lids \cup {lo})
           b == Min(lids \cup {hi})
<1>4. a \in lids \cup {lo} /\ \A y \in lids \cup {lo} : a >= y
  BY <1>3, FiniteMax
<1>5. b \in lids \cup {hi} /\ \A y \in lids \cup {hi} : b <= y
  BY <1>3, FiniteMin
<1>6. a \in -1 .. EL_VER_NUM + 2 /\ b \in -1 .. EL_VER_NUM + 2
  BY <1>3, <1>4, <1>5
<1>7. a >= lo /\ b <= hi /\ \A x \in lids : x \in Int /\ a >= x /\ b <= x
  <2>1. a >= lo /\ b <= hi
    BY <1>4, <1>5
  <2>2. \A x \in lids : a >= x /\ b <= x
    BY <1>4, <1>5
  <2>3. \A x \in lids : x \in Int
    BY <1>2
  <2> QED
    BY <2>1, <2>2, <2>3
<1> HIDE DEF a, b
<1>8. max_layerId' = a + 1 /\ min_layerId' = b - 1
  BY <1>1 DEF a, b
<1>9. /\ min_layerId' \in -2 .. EL_VER_NUM + 1
      /\ max_layerId' \in 0 .. 4 + EL_VER_NUM
      /\ max_layerId' >= lo + 1 /\ min_layerId' <= hi - 1
  BY <1>0, <1>6, <1>7, <1>8
<1>10. \A x \in lids : max_layerId' >= x + 1 /\ min_layerId' <= x - 1
  BY <1>6, <1>7, <1>8
<1> QED
  BY <1>9, <1>10 DEF lids
-----------------------------------------------------------------------------
(***************************************************************************)
(* Decisions.                                                              *)
(***************************************************************************)
\* The window is only moved by the algorithms that have one.
LEMMA WindowUnmoved ==
    ASSUME WindowComesDown, UNCHANGED <<ALG, min_layerId, max_layerId>>
    PROVE  WindowComesDown'
BY DEF WindowComesDown, ClampedMin, ClampedMax

LEMMA UniformDecided ==
    ASSUME IInv, NEW v \in Views, AllocateUniform(v)
    PROVE  IInv'
<1> DEFINE n == Len(v)
           S == {l \in 0 .. EL_VER_NUM :
                   \A m \in 1 .. l : 6 * (BASE_LAYER_BR + UpTo[m] * n) <= iter_est_thrp}
           l == UniformLayer(n)
           taken == TileMajor(SEG, v, l)
<1>0. /\ v \in Seq(Nat) /\ n \in Nat /\ EL_VER_NUM \in Nat
      /\ AdaptationTypeOK /\ WindowComesDown
  BY ViewAssumption, Bitrates DEF IInv
<1>1. l \in S
  <2>1. 0 \in S
    <3>1. 0 \in 0 .. EL_VER_NUM /\ \A m \in 1 .. 0 : FALSE
      BY <1>0
    <3> QED
      BY <3>1
  <2>2. S \in SUBSET (0 .. EL_VER_NUM)
    OBVIOUS
  <2>3. IsFiniteSet(0 .. EL_VER_NUM)
    BY <1>0, FS_Interval
  <2> HIDE DEF S
  <2>5. \A x \in S : x \in 0 .. EL_VER_NUM
    BY <2>2
  <2>6. IsFiniteSet(S)
    BY ONLY <2>2, <2>3, FS_Subset
  <2>4. S \subseteq Int /\ S # {} /\ IsFiniteSet(S)
    BY <1>0, <2>1, <2>5, <2>6
  <2> QED
    BY <2>4, FiniteMax DEF UniformLayer, S
<1> HIDE DEF l
<1>2. l \in 0 .. EL_VER_NUM /\ \A m \in 1 .. l : 6 * (BASE_LAYER_BR + UpTo[m] * n) <= iter_est_thrp
  BY <1>1
<1>3. /\ taken \in Seq(Chunks) /\ Len(taken) = n * l
      /\ Rate(taken) = BASE_LAYER_BR + UpTo[l] * n
  BY <1>0, <1>2, TileMajorRate
<1>4. /\ phase = "decide" /\ ALG \in UniformLayers /\ Requested(v, 0, taken)
      /\ UNCHANGED <<ALG, iter_sam_thrp, iter_est_thrp, iter_smooth_bitrate,
                     min_layerId, max_layerId>>
  BY DEF AllocateUniform, l
<1>5. taken \in Offers(ALG, SEG, v, Adjacent[v], EL_VER_NUM)
  BY <1>2, <1>4, UniformOffered
<1> HIDE DEF taken
<1>6. AdaptationTypeOK' /\ ThroughputMeasured'
  <2>1. min_layerId' \in -2 .. EL_VER_NUM + 1 /\ max_layerId' \in 0 .. 4 + EL_VER_NUM
    BY <1>0, <1>4 DEF AdaptationTypeOK
  <2> QED
    BY <1>3, <1>4, <2>1, RequestedKeeps
<1>7. WindowComesDown'
  BY <1>0, <1>4, WindowUnmoved
<1>8. CASE taken = <<>>
  <2>1. phase' # "layers"
    BY <1>4, <1>8 DEF Requested
  <2> QED
    BY <1>6, <1>7, <2>1, NothingDecidedNext DEF IInv
<1>9. CASE taken # <<>>
  <2>1. /\ requests' = taken /\ view' = v /\ ALG' = ALG /\ ALG \in {1, 2}
        /\ iter_est_thrp' = iter_est_thrp
    BY <1>4, <1>9 DEF Requested, UniformLayers
  <2>2. RequestsOffered'
    BY <1>5, <2>1 DEF RequestsOffered
  <2>3. 6 * Rate(taken) <= iter_est_thrp
    <3>1. n * l # 0
      BY <1>3, <1>9
    <3>2. l \in 1 .. l
      BY <1>0, <1>2, <3>1
    <3> QED
      BY <1>2, <1>3, <3>2
  <2>4. Total' = Rate(taken)
    BY <2>1 DEF Total, Rate
  <2>5. WithinBudget'
    BY <2>1, <2>3, <2>4 DEF WithinBudget
  <2>6. NothingLeftOut'
    BY <2>1 DEF NothingLeftOut
  <2> QED
    BY <1>6, <1>7, <2>2, <2>5, <2>6 DEF IInv, Decided
<1> QED
  BY <1>8, <1>9

LEMMA InTimeDecided ==
    ASSUME IInv, NEW v \in Views, NEW time \in TimeLeft, AllocateInTime(v, time)
    PROVE  IInv'
<1>0. v \in Seq(Nat) /\ AdaptationTypeOK /\ WindowComesDown /\ time \in Int
      /\ \A i, j \in DOMAIN v : v[i] = v[j] => i = j
  BY ViewAssumption, BitrateAssumption DEF IInv
<1>9. PICK f \in LastReached(v, time) : \E r \in Selected(SEG, v, f) : Requested(v, time, r)
  BY DEF AllocateInTime
<1>1. PICK r \in Selected(SEG, v, f) : Requested(v, time, r)
  BY <1>9
<1>2. /\ phase = "decide" /\ ALG = 4
      /\ UNCHANGED <<ALG, iter_sam_thrp, iter_est_thrp, iter_smooth_bitrate,
                     min_layerId, max_layerId>>
  BY DEF AllocateInTime
<1>3. f \in [ToSet(v) -> 0 .. 2] /\ (Feasible(v, time) = {} \/ f \in Feasible(v, time))
  BY DEF LastReached, Feasible
<1>4. /\ r \in Seq(Chunks)
      /\ Rate(r) <= BASE_LAYER_BR + SumOf([i \in DOMAIN v |-> UpTo[f[v[i]]]])
  BY <1>0, <1>1, <1>3, SelectedRate
<1>5. AdaptationTypeOK' /\ ThroughputMeasured'
  <2>1. min_layerId' \in -2 .. EL_VER_NUM + 1 /\ max_layerId' \in 0 .. 4 + EL_VER_NUM
    BY <1>0, <1>2 DEF AdaptationTypeOK
  <2>2. time \in TimeLeft \cup {0}
    OBVIOUS
  <2> QED
    BY <1>1, <1>2, <1>4, <2>1, <2>2, RequestedKeeps
<1>6. WindowComesDown'
  BY <1>0, <1>2, WindowUnmoved
<1>7. CASE r = <<>>
  <2>1. phase' # "layers"
    BY <1>1, <1>7 DEF Requested
  <2> QED
    BY <1>5, <1>6, <2>1, NothingDecidedNext DEF IInv
<1>8. CASE r # <<>>
  <2>1. /\ requests' = r /\ view' = v /\ ALG' = ALG /\ ALG = 4
        /\ iter_est_thrp' = iter_est_thrp /\ iter_down_time_budget' = time
    BY <1>1, <1>2, <1>8 DEF Requested
  <2>2. RequestsOffered'
    <3>1. r \in Offers(4, SEG, v, Adjacent[v], EL_VER_NUM)
      BY <1>1, <1>3 DEF Offers, UniformLayers
    <3> QED
      BY <2>1, <3>1 DEF RequestsOffered
  <2>3. Feasible(v, time) = {} \/ 600 * Rate(r) <= iter_est_thrp * time
    <3> SUFFICES ASSUME f \in Feasible(v, time)
                 PROVE  600 * Rate(r) <= iter_est_thrp * time
      BY <1>3
    <3> DEFINE b == BASE_LAYER_BR + SumOf([i \in DOMAIN v |-> UpTo[f[v[i]]]])
               x == iter_est_thrp * time
    <3>1. 600 * b <= x
      BY DEF Feasible
    <3>2. b \in Int
      <4>1. DOMAIN v = 1 .. Len(v) /\ Len(v) \in Nat
        BY <1>0
      <4>2. \A i \in DOMAIN v : UpTo[f[v[i]]] \in Int
        <5> TAKE i \in DOMAIN v
        <5>1. f[v[i]] \in 0 .. 2
          BY <1>3 DEF ToSet
        <5>2. f[v[i]] \in 0 .. EL_VER_NUM
          BY <5>1, Bitrates
        <5> QED
          BY <5>2, UpToIs
      <4> DEFINE u == [i \in DOMAIN v |-> UpTo[f[v[i]]]]
      <4>3. u \in [1 .. Len(v) -> Int]
        BY <4>1, <4>2
      <4>4. u \in Seq(Int)
        BY <4>1, <4>3, SeqDef
      <4> HIDE DEF u
      <4>5. SumOf(u) \in Int
        BY <4>4, SumType
      <4> QED
        BY <4>5, Bitrates DEF u
    <3>3. x \in Int
      BY <1>0 DEF AdaptationTypeOK
    <3>4. Rate(r) \in Nat /\ Rate(r) <= b
      BY <1>4, RateType
    <3> HIDE DEF b, x
    <3>5. 600 * Rate(r) <= x
      BY <3>1, <3>2, <3>3, <3>4
    <3> QED
      BY <3>5 DEF x
  <2>4. Total' = Rate(r)
    BY <2>1 DEF Total, Rate
  <2>5. Feasible(v, time)' = Feasible(v, time)
    BY <2>1 DEF Feasible
  <2>6. Feasible(view, iter_down_time_budget)' = Feasible(v, time)
    BY <2>1 DEF Feasible
  <2>7. WithinBudget'
    BY <2>1, <2>3, <2>4, <2>6 DEF WithinBudget
  <2>8. NothingLeftOut'
    BY <2>1 DEF NothingLeftOut
  <2> QED
    BY <1>5, <1>6, <2>2, <2>7, <2>8 DEF IInv, Decided
<1> QED
  BY <1>7, <1>8
LEMMA GreedyDecided ==
    ASSUME IInv, NEW v \in Views, AllocateGreedy(v)
    PROVE  IInv'
<1>1. PICK e \in Extensions(v) :
          Requested(v, 0, Greedy(Candidates(ALG, SEG, v, e, 1, EL_VER_NUM, EL_VER_NUM),
                                 thrp_budget))
  BY DEF AllocateGreedy
<1>2. /\ phase = "decide" /\ ALG \in LayerByLayer
      /\ UNCHANGED <<ALG, iter_sam_thrp, iter_est_thrp, iter_smooth_bitrate,
                     min_layerId, max_layerId>>
  BY DEF AllocateGreedy, LayerByLayer
<1> DEFINE c == Candidates(ALG, SEG, v, e, 1, EL_VER_NUM, EL_VER_NUM)
           b == thrp_budget
           top == TopLayer(ALG)
<1>3. /\ v \in Seq(Nat) /\ e \in Seq(Nat)
      /\ e \in IF ALG \in Extending THEN {<<>>, Adjacent[v]} ELSE {<<>>}
  BY ViewType
<1>4. AdaptationTypeOK /\ WindowComesDown /\ ThroughputMeasured /\ b \in Nat
  BY WindowType DEF IInv
<1>5. TriesAll(c, v, top) /\ c \in Seq(Chunks) /\ Ascending(c)
  <2>1. TriesAll(c, v, top)
    BY <1>2, <1>3, CandidatesAll
  <2> QED
    BY <2>1 DEF TriesAll
<1>6. \A m \in 0 .. Len(c) : SubSeq(c, 1, m) \in Offers(ALG, SEG, v, Adjacent[v], EL_VER_NUM)
  BY <1>2, <1>3, AllOffered
<1>7. top \in 1 .. EL_VER_NUM
  BY Bitrates DEF TopLayer
<1> HIDE DEF c, b
<1>8. PICK m \in 0 .. Len(c) :
          /\ Greedy(c, b) = SubSeq(c, 1, m)
          /\ m = 0 \/ 60 * Rate(SubSeq(c, 1, m)) < 9 * b
          /\ m < Len(c) => ~Fits(Rate(SubSeq(c, 1, m)), c[m + 1].lid, b)
  <2>1. b \in Int
    BY <1>4
  <2> QED
    BY <1>5, <2>1, GreedyIsPrefix
<1> DEFINE taken == SubSeq(c, 1, m)
<1>9. taken \in Seq(Chunks) /\ Len(taken) = m
  BY <1>5, PrefixIs
<1>10. Requested(v, 0, taken)
  BY <1>1, <1>8 DEF c, b
<1>11. /\ m = 0 \/ 60 * Rate(taken) < 9 * b
       /\ m < Len(c) => ~Fits(Rate(taken), c[m + 1].lid, b)
       /\ taken \in Offers(ALG, SEG, v, Adjacent[v], EL_VER_NUM)
  BY <1>6, <1>8
<1>12. ASSUME NEW j \in 1 .. Len(v), NEW has,
              \A x \in has : \E i \in 1 .. m : c[i].lid = x,
              \A i \in 1 .. m : c[i].fid = v[j] => c[i].lid \in has
       PROVE  Cardinality(has) + 1 <= top => ~Fits(Rate(taken), Cardinality(has) + 1, b)
  <2>1. b \in Int
    BY <1>4
  <2> HIDE DEF top
  <2> QED
    BY <1>5, <1>7, <1>8, <1>12, <2>1, NothingFits
<1>13. \A t : /\ \A x \in LayersIn(taken, t) : \E i \in 1 .. m : c[i].lid = x
              /\ \A i \in 1 .. m : c[i].fid = t => c[i].lid \in LayersIn(taken, t)
  BY <1>5, LayersTaken
<1> HIDE DEF taken
<1>14. AdaptationTypeOK' /\ ThroughputMeasured'
  <2>1. min_layerId' \in -2 .. EL_VER_NUM + 1 /\ max_layerId' \in 0 .. 4 + EL_VER_NUM
    BY <1>2, <1>4 DEF AdaptationTypeOK
  <2> QED
    BY <1>2, <1>9, <1>10, <2>1, RequestedKeeps
<1>15. WindowComesDown'
  BY <1>2, <1>4, WindowUnmoved
<1>16. CASE taken = <<>>
  <2>1. phase' # "layers"
    BY <1>10, <1>16 DEF Requested
  <2> QED
    BY <1>14, <1>15, <2>1, NothingDecidedNext DEF IInv
<1>17. CASE taken # <<>>
  <2>1. /\ requests' = taken /\ view' = v /\ ALG' = ALG /\ ALG \in {3, 5, 6, 7, 8, 11, 12}
        /\ iter_est_thrp' = iter_est_thrp /\ iter_smooth_bitrate' = iter_smooth_bitrate
    BY <1>2, <1>10, <1>17 DEF Requested, LayerByLayer
  <2>2. RequestsOffered'
    BY <1>11, <2>1 DEF RequestsOffered
  <2>3. IF ALG \in {8, 11} THEN Rate(taken) <= Max(Samples) ELSE 6 * Rate(taken) <= iter_est_thrp
    <3>1. m # 0
      BY <1>9, <1>17
    <3>2. 60 * Rate(taken) < 9 * thrp_budget
      BY <1>11, <3>1 DEF b
    <3> QED
      BY <1>4, <1>9, <2>1, <3>2, WithinMeasured
  <2>4. Total' = Rate(taken)
    BY <2>1 DEF Total, Rate
  <2>5. WithinBudget'
    BY <2>1, <2>3, <2>4 DEF WithinBudget
  <2>6. thrp_budget' = b
    BY <2>1 DEF thrp_budget, b
  <2>7. NothingLeftOut'
    <3> SUFFICES ASSUME NEW t \in ToSet(v)
                 PROVE  Cardinality(LayersIn(taken, t)) + 1 <= top
                            => ~Fits(Rate(taken), Cardinality(LayersIn(taken, t)) + 1, b)
      BY <2>1, <2>4, <2>6 DEF NothingLeftOut, Fits, LayersIn, TopLayer
    <3>1. PICK j \in 1 .. Len(v) : v[j] = t
      BY <1>3 DEF ToSet
    <3> DEFINE has == LayersIn(taken, t)
    <3>2. /\ \A x \in has : \E i \in 1 .. m : c[i].lid = x
          /\ \A i \in 1 .. m : c[i].fid = v[j] => c[i].lid \in has
      BY <1>13, <3>1
    <3> HIDE DEF has
    <3>3. Cardinality(has) + 1 <= top => ~Fits(Rate(taken), Cardinality(has) + 1, b)
      BY <1>12, <3>2
    <3> QED
      BY <3>3 DEF has
  <2> QED
    BY <1>14, <1>15, <2>2, <2>5, <2>7 DEF IInv, Decided
<1> QED
  BY <1>16, <1>17

\* What a request loop over a window of layers takes, and when nothing.
LEMMA WindowTaken ==
    ASSUME IInv, ALG \in MovingWindow, NEW v \in Views,
           NEW e \in IF ALG \in Extending THEN {<<>>, Adjacent[v]} ELSE {<<>>},
           NEW lo \in 1 .. EL_VER_NUM + 1, NEW hi \in 0 .. EL_VER_NUM,
           NEW taken,
           taken = Greedy(Candidates(ALG, SEG, v, e, lo, hi, EL_VER_NUM), thrp_budget)
    PROVE  /\ taken \in Seq(Chunks)
           /\ taken # <<>> =>
                  /\ lo <= hi /\ taken[1].lid = lo
                  /\ taken \in Offers(ALG, SEG, v, Adjacent[v], EL_VER_NUM)
                  /\ 60 * Rate(taken) < 9 * thrp_budget
<1> DEFINE c == Candidates(ALG, SEG, v, e, lo, hi, EL_VER_NUM)
           b == thrp_budget
<1>1. /\ v \in Seq(Nat) /\ e \in Seq(Nat) /\ lo \in Nat \ {0} /\ hi \in Int
      /\ hi <= EL_VER_NUM /\ EL_VER_NUM \in Nat
  <2>1. v \in Seq(Nat) /\ Adjacent[v] \in Seq(Nat) /\ <<>> \in Seq(Nat)
    BY ViewAssumption
  <2>2. e \in Seq(Nat)
    <3>1. e \in {<<>>, Adjacent[v]}
      OBVIOUS
    <3> QED
      BY <2>1, <3>1
  <2>3. EL_VER_NUM \in Nat
    BY Bitrates
  <2>4. lo \in Nat \ {0} /\ hi \in Int /\ hi <= EL_VER_NUM
    BY <2>3
  <2> QED
    BY <2>1, <2>2, <2>3, <2>4
<1>2. TriesWindow(c, lo, hi)
  BY <1>1, CandidatesWindow
<1>3. /\ c \in Seq(Chunks) /\ Ascending(c) /\ b \in Int
      /\ c # <<>> => c[1].lid = lo /\ lo <= hi
  BY <1>2, WindowType DEF TriesWindow, IInv
<1>4. lo <= hi => \A m \in 0 .. Len(c) :
                      SubSeq(c, 1, m) \in Offers(ALG, SEG, v, Adjacent[v], EL_VER_NUM)
  <2>1. lo <= hi => lo \in 1 .. EL_VER_NUM /\ hi \in 1 .. EL_VER_NUM
    BY <1>1
  <2> QED
    BY <2>1, WindowOffered
<1>5. taken = Greedy(c, b)
  OBVIOUS
<1> HIDE DEF c, b
<1>6. PICK m \in 0 .. Len(c) :
          /\ Greedy(c, b) = SubSeq(c, 1, m)
          /\ m = 0 \/ 60 * Rate(SubSeq(c, 1, m)) < 9 * b
  BY <1>3, GreedyIsPrefix
<1>7. /\ taken \in Seq(Chunks) /\ Len(taken) = m
      /\ \A i \in 1 .. m : taken[i] = c[i]
  BY <1>3, <1>5, <1>6, PrefixIs
<1>8. ASSUME taken # <<>>
      PROVE  /\ lo <= hi /\ taken[1].lid = lo
             /\ taken \in Offers(ALG, SEG, v, Adjacent[v], EL_VER_NUM)
             /\ 60 * Rate(taken) < 9 * b
  <2>1. m # 0 /\ m \in Nat /\ 1 \in 1 .. m /\ Len(c) # 0
    BY <1>3, <1>7, <1>8
  <2>2. c # <<>>
    BY <2>1
  <2> QED
    BY <1>3, <1>4, <1>5, <1>6, <1>7, <2>1, <2>2
<1> QED
  BY <1>7, <1>8 DEF b

\* What the decision of an algorithm with a window leaves.
LEMMA WindowRequested ==
    ASSUME IInv, ALG \in MovingWindow, NEW v \in Views, NEW taken \in Seq(Chunks),
           taken # <<>> => /\ taken \in Offers(ALG, SEG, v, Adjacent[v], EL_VER_NUM)
                           /\ 60 * Rate(taken) < 9 * thrp_budget,
           phase = "decide", Requested(v, 0, taken),
           UNCHANGED <<ALG, iter_sam_thrp, iter_est_thrp, iter_smooth_bitrate>>,
           min_layerId' \in -2 .. EL_VER_NUM + 1, max_layerId' \in 0 .. 4 + EL_VER_NUM
    PROVE  AdaptationTypeOK' /\ ThroughputMeasured' /\ Decided'
<1>1. AdaptationTypeOK' /\ ThroughputMeasured'
  BY RequestedKeeps
<1>2. CASE taken = <<>>
  <2>1. phase' # "layers"
    BY <1>2 DEF Requested
  <2> QED
    BY <1>1, <2>1, NothingDecidedNext
<1>3. CASE taken # <<>>
  <2>1. /\ requests' = taken /\ view' = v /\ ALG' = ALG /\ ALG \in {9, 10, 13}
        /\ iter_est_thrp' = iter_est_thrp
    BY <1>3 DEF Requested, MovingWindow
  <2>2. RequestsOffered'
    BY <1>3, <2>1 DEF RequestsOffered
  <2>3. 6 * Rate(taken) <= iter_est_thrp
    BY <1>3, <2>1, WithinMeasured DEF IInv
  <2>4. Total' = Rate(taken)
    BY <2>1 DEF Total, Rate
  <2>5. WithinBudget'
    BY <2>1, <2>3, <2>4 DEF WithinBudget
  <2>6. NothingLeftOut'
    BY <2>1 DEF NothingLeftOut
  <2> QED
    BY <1>1, <2>2, <2>5, <2>6 DEF Decided
<1> QED
  BY <1>2, <1>3

LEMMA WindowDecided ==
    ASSUME IInv, NEW v \in Views, AllocateWindow(v)
    PROVE  IInv'
<1> DEFINE lo == ClampedMin
           hi == ClampedMax
<1>1. PICK e \in IF ALG = 13 THEN {<<>>} ELSE Extensions(v) :
          LET taken == Greedy(Candidates(ALG, SEG, v, e, lo, hi, EL_VER_NUM), thrp_budget)
          IN  Requested(v, 0, taken) /\ MoveWindow(lo, hi, taken)
  BY DEF AllocateWindow
<1>2. /\ phase = "decide" /\ ALG \in MovingWindow
      /\ UNCHANGED <<ALG, iter_sam_thrp, iter_est_thrp, iter_smooth_bitrate>>
  BY DEF AllocateWindow
<1>3. /\ lo \in 1 .. EL_VER_NUM + 1 /\ hi \in 0 .. EL_VER_NUM
      /\ EL_VER_NUM \in Nat /\ EL_VER_NUM >= 2
  BY WindowType DEF IInv
<1>4. e \in IF ALG \in Extending THEN {<<>>, Adjacent[v]} ELSE {<<>>}
  BY DEF Extensions, Extending, ExtendLast
<1> DEFINE taken == Greedy(Candidates(ALG, SEG, v, e, lo, hi, EL_VER_NUM), thrp_budget)
<1>5. Requested(v, 0, taken) /\ MoveWindow(lo, hi, taken)
  BY <1>1
<1>6. /\ taken \in Seq(Chunks)
      /\ taken # <<>> =>
             /\ lo <= hi /\ taken[1].lid = lo
             /\ taken \in Offers(ALG, SEG, v, Adjacent[v], EL_VER_NUM)
             /\ 60 * Rate(taken) < 9 * thrp_budget
  <2> HIDE DEF lo, hi
  <2> QED
    BY <1>2, <1>3, <1>4, WindowTaken
<1>14. WindowComesDown /\ ClampedMin = lo /\ ClampedMax = hi
  BY DEF IInv
<1> HIDE DEF taken, lo, hi
<1>7. /\ min_layerId' \in -2 .. EL_VER_NUM + 1
      /\ max_layerId' \in 0 .. 4 + EL_VER_NUM
      /\ max_layerId' >= lo + 1 /\ min_layerId' <= hi - 1
      /\ \A i \in DOMAIN taken : /\ max_layerId' >= taken[i].lid + 1
                                 /\ min_layerId' <= taken[i].lid - 1
  <2>1. lo \in -1 .. EL_VER_NUM + 2 /\ hi \in -1 .. EL_VER_NUM + 2
    BY <1>3
  <2> QED
    BY <1>5, <1>6, <2>1, MoveWindowType
<1>8. AdaptationTypeOK' /\ ThroughputMeasured' /\ Decided'
  BY <1>2, <1>5, <1>6, <1>7, WindowRequested
<1>9. WindowComesDown'
  <2> SUFFICES ASSUME ALG \in {9, 10}
               PROVE  /\ ClampedMin' > 1 => ClampedMax' <= 2
                      /\ ClampedMin' = 1 => ClampedMax' >= 1
    BY <1>2 DEF WindowComesDown
  <2>1. (lo > 1 => hi <= 2) /\ (lo = 1 => hi >= 1)
    BY <1>14 DEF WindowComesDown
  <2>2. ClampedMax' >= 1
    BY <1>3, <1>7 DEF ClampedMax
  <2>3. ASSUME min_layerId' > 1 PROVE ClampedMax' <= 2
    <3>1. lo = 1
      BY <1>3, <1>7, <2>1, <2>3
    <3>2. taken = <<>>
      <4> SUFFICES ASSUME taken # <<>> PROVE FALSE
        OBVIOUS
      <4>1. 1 \in DOMAIN taken /\ taken[1].lid = lo
        BY <1>6
      <4> QED
        BY <1>7, <2>3, <3>1, <4>1
    <3>3. max_layerId' = 2
      <4>1. max_layerId' = Max({taken[i].lid : i \in DOMAIN taken} \cup {lo}) + 1
        BY <1>5 DEF MoveWindow
      <4>2. {taken[i].lid : i \in DOMAIN taken} \cup {lo} = {1}
        BY <3>1, <3>2
      <4>3. Max({1}) = 1
        BY DEF Max
      <4>4. max_layerId' = Max({1}) + 1
        BY <4>1, <4>2, Zenon
      <4> QED
        BY <4>3, <4>4
    <3> QED
      BY <1>3, <3>3 DEF ClampedMax
  <2>4. ClampedMin' > 1 => min_layerId' > 1
    BY DEF ClampedMin
  <2> QED
    BY <2>2, <2>3, <2>4
<1> QED
  BY <1>8, <1>9 DEF IInv
LEMMA OpenedDecided ==
    ASSUME IInv, NEW v \in Views, AllocateOpened(v)
    PROVE  IInv'
<1> DEFINE taken == Greedy(Candidates(13, SEG, v, Adjacent[v], 1, EL_VER_NUM, EL_VER_NUM),
                           thrp_budget)
<1>1. /\ phase = "decide" /\ ALG = 13 /\ Requested(v, 0, taken)
      /\ UNCHANGED <<ALG, iter_sam_thrp, iter_est_thrp, iter_smooth_bitrate>>
      /\ \E lo, hi \in Garbage : MoveWindow(lo, hi, taken)
  BY DEF AllocateOpened
<1>2. EL_VER_NUM \in Nat /\ EL_VER_NUM >= 2
  BY Bitrates
<1>3. /\ ALG \in MovingWindow
      /\ Adjacent[v] \in IF ALG \in Extending THEN {<<>>, Adjacent[v]} ELSE {<<>>}
      /\ taken = Greedy(Candidates(ALG, SEG, v, Adjacent[v], 1, EL_VER_NUM, EL_VER_NUM),
                        thrp_budget)
  BY <1>1 DEF MovingWindow, Extending, ExtendLast
<1> HIDE DEF taken
<1>4. /\ taken \in Seq(Chunks)
      /\ taken # <<>> => /\ taken \in Offers(ALG, SEG, v, Adjacent[v], EL_VER_NUM)
                         /\ 60 * Rate(taken) < 9 * thrp_budget
  <2>1. 1 \in 1 .. EL_VER_NUM + 1 /\ EL_VER_NUM \in 0 .. EL_VER_NUM
    BY <1>2
  <2> QED
    BY <1>3, <2>1, WindowTaken
<1>5. /\ min_layerId' \in -2 .. EL_VER_NUM + 1
      /\ max_layerId' \in 0 .. 4 + EL_VER_NUM
  <2>1. PICK lo \in Garbage, hi \in Garbage : MoveWindow(lo, hi, taken)
    BY <1>1
  <2> QED
    BY <1>4, <2>1, MoveWindowType DEF Garbage
<1>6. AdaptationTypeOK' /\ ThroughputMeasured' /\ Decided'
  BY <1>1, <1>3, <1>4, <1>5, WindowRequested
<1>7. WindowComesDown'
  BY <1>1 DEF WindowComesDown
<1> QED
  BY <1>6, <1>7 DEF IInv

LEMMA BaseRequested ==
    ASSUME IInv, RequestBase
    PROVE  IInv'
<1>1. /\ phase' = "base"
      /\ UNCHANGED <<ALG, iter_sam_thrp, iter_est_thrp, iter_smooth_bitrate,
                     min_layerId, max_layerId, view, iter_down_time_budget, requests>>
  BY DEF RequestBase
<1>2. AdaptationTypeOK' /\ ThroughputMeasured'
  BY <1>1 DEF IInv, AdaptationTypeOK, ThroughputMeasured
<1>3. WindowComesDown'
  BY <1>1, WindowUnmoved DEF IInv
<1>4. Decided'
  BY <1>1, NothingDecidedNext
<1> QED
  BY <1>2, <1>3, <1>4 DEF IInv

\* A sequence as a function on 1 .. Len.
LEMMA SequenceAsFunction ==
    ASSUME NEW S, NEW u \in Seq(S), NEW N \in Nat, Len(u) \in 1 .. N
    PROVE  \E n \in 1 .. N : u \in [1 .. n -> S]
<1>1. u \in [1 .. Len(u) -> S]
  BY LenProperties
<1> QED
  BY <1>1

\* The last three samples.
LEMMA SamplesKept ==
    ASSUME AdaptationTypeOK, NEW sample \in Samples,
           iter_sam_thrp' = LET s == Append(iter_sam_thrp, sample)
                            IN  IF Len(s) > 3 THEN Tail(s) ELSE s
    PROVE  \E n \in 1 .. 3 : iter_sam_thrp' \in [1 .. n -> Samples]
<1>1. PICK n \in 0 .. 3 : iter_sam_thrp \in [1 .. n -> Samples]
  BY DEF AdaptationTypeOK
<1> DEFINE s == Append(iter_sam_thrp, sample)
<1>2. n \in Nat /\ iter_sam_thrp \in Seq(Samples) /\ Len(iter_sam_thrp) = n
  <2>1. n \in Nat /\ DOMAIN iter_sam_thrp = 1 .. n
    BY <1>1
  <2>2. iter_sam_thrp \in Seq(Samples)
    BY <1>1, <2>1, SeqDef
  <2>3. Len(iter_sam_thrp) \in Nat /\ DOMAIN iter_sam_thrp = 1 .. Len(iter_sam_thrp)
    BY <2>2, LenProperties
  <2> QED
    BY <2>1, <2>2, <2>3
<1>3. s \in Seq(Samples) /\ Len(s) = n + 1 /\ s # <<>>
  BY <1>2, AppendProperties
<1>4. iter_sam_thrp' = IF Len(s) > 3 THEN Tail(s) ELSE s
  OBVIOUS
<1> HIDE DEF s
<1>5. CASE n = 3
  <2> DEFINE u == Tail(s)
  <2>1. u \in Seq(Samples) /\ Len(u) = 3
    BY <1>3, <1>5, HeadTailProperties
  <2>2. Len(s) > 3
    BY <1>3, <1>5
  <2>3. iter_sam_thrp' = u
    BY <1>4, <2>2
  <2> HIDE DEF u
  <2>4. 3 \in Nat /\ Len(u) \in 1 .. 3
    BY <2>1
  <2>5. \E k \in 1 .. 3 : u \in [1 .. k -> Samples]
    BY ONLY <2>1, <2>4, SequenceAsFunction
  <2> QED
    BY ONLY <2>3, <2>5, Zenon
<1>6. CASE n # 3
  <2>1. n + 1 \in 1 .. 3 /\ ~(n + 1 > 3)
    BY <1>2, <1>6
  <2>2. s \in [1 .. Len(s) -> Samples] /\ Len(s) \in 1 .. 3 /\ ~(Len(s) > 3)
    BY <1>3, <2>1, LenProperties
  <2>3. iter_sam_thrp' = s
    BY <1>4, <2>2
  <2> QED
    BY <2>2, <2>3
<1> QED
  BY <1>5, <1>6

LEMMA IterationEnded ==
    ASSUME IInv, NEW sample \in Samples, EndIteration(sample)
    PROVE  IInv'
<1> DEFINE x == Max(Samples)
<1>1. /\ phase' = "decide" /\ requests' = <<>> /\ view' = <<>> /\ iter_down_time_budget' = 0
      /\ UNCHANGED <<ALG, min_layerId, max_layerId>>
      /\ iter_est_thrp' = est_iter_thrp(iter_sam_thrp')
      /\ iter_smooth_bitrate' =
             IF ALG < 5 THEN iter_smooth_bitrate
             ELSE cal_smooth_bitrate(iter_est_thrp', iter_smooth_bitrate, Step)
  BY DEF EndIteration
<1>2. AdaptationTypeOK /\ ThroughputMeasured /\ WindowComesDown
  BY DEF IInv
<1>3. PICK n \in 1 .. 3 : iter_sam_thrp' \in [1 .. n -> Samples]
  BY <1>2, SamplesKept DEF EndIteration
<1>4. /\ Samples # {} /\ x \in Nat
      /\ iter_est_thrp' \in Nat /\ iter_est_thrp' <= 6 * x
  <2>1. \A s \in [1 .. n -> Samples] :
            /\ Samples # {} /\ Max(Samples) \in Nat
            /\ est_iter_thrp(s) \in Nat /\ est_iter_thrp(s) <= 6 * Max(Samples)
    BY EstimateBound
  <2> QED
    BY <1>1, <1>3, <2>1
<1>5. iter_smooth_bitrate \in Nat /\ iter_smooth_bitrate <= 6 * x
  <2>1. iter_smooth_bitrate \in Nat
    BY <1>2 DEF AdaptationTypeOK
  <2>2. iter_smooth_bitrate > 0 => iter_smooth_bitrate <= 6 * x
    BY <1>2 DEF ThroughputMeasured
  <2> HIDE DEF x
  <2> QED
    BY <1>4, <2>1, <2>2
<1>6. iter_smooth_bitrate' \in Nat /\ iter_smooth_bitrate' <= 6 * x
  <2> HIDE DEF x
  <2>1. Step \in Nat
    BY DEF Step
  <2>2. CASE ALG < 5
    BY <1>1, <1>5, <2>2
  <2>3. CASE ~(ALG < 5)
    <3> DEFINE est == iter_est_thrp'
               last == iter_smooth_bitrate
    <3>1. iter_smooth_bitrate' = cal_smooth_bitrate(est, last, Step)
      BY <1>1, <2>3
    <3>2. est \in Nat /\ est <= 6 * x /\ last \in Nat /\ last <= 6 * x /\ x \in Nat
      BY <1>4, <1>5
    <3> HIDE DEF est, last
    <3>3. CASE est < last - 6 * Step
      <4>1. cal_smooth_bitrate(est, last, Step) = last - 6 * Step
        BY <2>1, <3>2, <3>3 DEF cal_smooth_bitrate
      <4> QED
        BY <2>1, <3>1, <3>2, <3>3, <4>1
    <3>4. CASE est > last + 6 * Step
      <4>1. cal_smooth_bitrate(est, last, Step) = last + 6 * Step
        BY <2>1, <3>2, <3>4 DEF cal_smooth_bitrate
      <4> QED
        BY <2>1, <3>1, <3>2, <3>4, <4>1
    <3>5. CASE ~(est < last - 6 * Step) /\ ~(est > last + 6 * Step)
      <4>1. cal_smooth_bitrate(est, last, Step) = est
        BY <3>5 DEF cal_smooth_bitrate
      <4> QED
        BY <3>1, <3>2, <4>1
    <3> QED
      BY <3>3, <3>4, <3>5
  <2> QED
    BY <2>2, <2>3
<1>7. AdaptationTypeOK'
  <2>1. iter_sam_thrp' \in UNION {[1 .. k -> Samples] : k \in 0 .. 3}
    <3>1. n \in 0 .. 3
      OBVIOUS
    <3> QED
      BY <1>3, <3>1
  <2>2. \A i \in DOMAIN requests' : requests'[i].lid \in 1 .. EL_VER_NUM
    BY <1>1
  <2> QED
    BY <1>1, <1>2, <1>4, <1>6, <2>1, <2>2 DEF AdaptationTypeOK
<1>8. ThroughputMeasured'
  BY <1>4, <1>6 DEF ThroughputMeasured
<1>9. WindowComesDown'
  BY <1>1, <1>2, WindowUnmoved
<1>10. Decided'
  BY <1>1, NothingDecidedNext
<1> QED
  BY <1>7, <1>8, <1>9, <1>10 DEF IInv

-----------------------------------------------------------------------------
(***************************************************************************)
(* The theorems.                                                           *)
(***************************************************************************)
LEMMA InitIInv == Init => IInv
<1> SUFFICES ASSUME Init PROVE IInv
  OBVIOUS
<1>1. EL_VER_NUM \in Nat /\ EL_VER_NUM >= 2
  BY Bitrates
<1>2. iter_sam_thrp \in UNION {[1 .. n -> Samples] : n \in 0 .. 3}
  <2>1. iter_sam_thrp = <<>> /\ 0 \in 0 .. 3
    BY DEF Init
  <2>2. <<>> \in [1 .. 0 -> Samples]
    OBVIOUS
  <2> QED
    BY <2>1, <2>2
<1>3. AdaptationTypeOK
  BY <1>1, <1>2 DEF Init, AdaptationTypeOK
<1>4. ThroughputMeasured
  BY DEF Init, ThroughputMeasured
<1>5. WindowComesDown
  BY <1>1 DEF Init, WindowComesDown, ClampedMin, ClampedMax
<1>6. Decided
  BY NothingDecided DEF Init
<1> QED
  BY <1>3, <1>4, <1>5, <1>6 DEF IInv

LEMMA NextIInv == IInv /\ [Next]_vars => IInv'
<1> SUFFICES ASSUME IInv, [Next]_vars PROVE IInv'
  OBVIOUS
<1>1. ASSUME NEW v \in Views, AllocateUniform(v) PROVE IInv'
  BY <1>1, UniformDecided
<1>2. ASSUME NEW v \in Views, NEW time \in TimeLeft, AllocateInTime(v, time) PROVE IInv'
  BY <1>2, InTimeDecided
<1>3. ASSUME NEW v \in Views, AllocateGreedy(v) PROVE IInv'
  BY <1>3, GreedyDecided
<1>4. ASSUME NEW v \in Views, AllocateWindow(v) PROVE IInv'
  BY <1>4, WindowDecided
<1>5. ASSUME NEW v \in Views, AllocateOpened(v) PROVE IInv'
  BY <1>5, OpenedDecided
<1>6. CASE RequestBase
  BY <1>6, BaseRequested
<1>7. ASSUME NEW sample \in Samples, EndIteration(sample) PROVE IInv'
  BY <1>7, IterationEnded
<1>8. CASE UNCHANGED vars
  BY <1>8 DEF vars, IInv, AdaptationTypeOK, ThroughputMeasured, WindowComesDown,
              ClampedMin, ClampedMax, Decided, RequestsOffered, WithinBudget,
              NothingLeftOut, Total, Rate, Feasible, thrp_budget, Fits
<1> QED
  BY <1>1, <1>2, <1>3, <1>4, <1>5, <1>6, <1>7, <1>8 DEF Next

\* The invariant the theorems follow from (nghttp.cc, MMSP and
\* UTD2017_adaptation_vr): what is requested is judged when it is decided.
THEOREM AdaptationIInv == Spec => []IInv
<1>1. Init => IInv
  BY InitIInv
<1>2. IInv /\ [Next]_vars => IInv'
  BY NextIInv
<1> QED
  BY <1>1, <1>2, PTL DEF Spec

\* The state of the decisions has its types: the window stays within two layers
\* of those there are, also when its extremes were not initialised.
THEOREM AdaptationTypes == Spec => []AdaptationTypeOK
<1>1. IInv => AdaptationTypeOK
  BY DEF IInv
<1> QED
  BY <1>1, AdaptationIInv, PTL

\* Whatever the throughput, the algorithms request one of the lists Streaming
\* chooses from.
THEOREM AdaptationOffered == Spec => []RequestsOffered
<1>1. IInv => RequestsOffered
  BY DEF IInv, Decided
<1> QED
  BY <1>1, AdaptationIInv, PTL

\* The request loops never ask for more than the link was measured to carry.
THEOREM AdaptationWithinBudget == Spec => []WithinBudget
<1>1. IInv => WithinBudget
  BY DEF IInv, Decided
<1> QED
  BY <1>1, AdaptationIInv, PTL

\* No algorithm without a window leaves out a layer that is affordable.
THEOREM AdaptationNothingLeftOut == Spec => []NothingLeftOut
<1>1. IInv => NothingLeftOut
  BY DEF IInv, Decided
<1> QED
  BY <1>1, AdaptationIInv, PTL

\* ALG 9 and 10 never decide twice in a row with a window that is empty or
\* leaves out layer 1.
THEOREM AdaptationWindow == Spec => []WindowComesDown
<1>1. IInv => WindowComesDown
  BY DEF IInv
<1> QED
  BY <1>1, AdaptationIInv, PTL
=============================================================================
