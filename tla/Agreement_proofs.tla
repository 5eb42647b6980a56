-------------------------- MODULE Agreement_proofs --------------------------
(***************************************************************************)
(* What the two ends of Connection agree on while frames of both are under *)
(* way, and what the operations of a session leave of it: the ground on    *)
(* which Errors_proofs shows that no frame is an error.                    *)
(***************************************************************************)
EXTENDS Windows_proofs

-----------------------------------------------------------------------------
(***************************************************************************)
(* What stands before what in a sequence of frames.  A relation is a set   *)
(* of pairs: the earlier frame, the later one.                             *)
(***************************************************************************)
\* Every frame is in ok or comes after one that R relates it to.
Guarded(q, ok, R) ==
    \A i \in 1 .. Len(q) : q[i] \in ok \/ \E j \in 1 .. i - 1 : <<q[j], q[i]>> \in R

\* No frame comes after one that R relates it to.
Apart(q, R) == \A i \in 1 .. Len(q) : \A j \in 1 .. i - 1 : <<q[j], q[i]>> \notin R

LEMMA Entries ==
    ASSUME NEW T, NEW q \in Seq(T), NEW f \in T
    PROVE  /\ Append(q, f) \in Seq(T) /\ Len(q) \in Nat
           /\ Len(Append(q, f)) = Len(q) + 1 /\ Append(q, f)[Len(q) + 1] = f
           /\ \A i \in 1 .. Len(q) : Append(q, f)[i] = q[i]
           /\ \A i \in 1 .. Len(Append(q, f)) : i \in 1 .. Len(q) \/ i = Len(q) + 1
OBVIOUS

LEMMA Rest ==
    ASSUME NEW T, NEW q \in Seq(T), q # <<>>
    PROVE  /\ Head(q) \in T /\ Tail(q) \in Seq(T) /\ Len(q) \in Nat \ {0} /\ q[1] = Head(q)
           /\ Len(Tail(q)) = Len(q) - 1
           /\ \A i \in 1 .. Len(Tail(q)) : Tail(q)[i] = q[i + 1] /\ i + 1 \in 1 .. Len(q)
           /\ \A i \in 1 .. Len(q) : i = 1 \/ (i - 1 \in 1 .. Len(Tail(q)) /\ Tail(q)[i - 1] = q[i])
OBVIOUS

\* The frames of a sequence that got one more, or lost its first one.
LEMMA MembersChange ==
    ASSUME NEW T, NEW q \in Seq(T)
    PROVE  /\ \A f \in T : Members(Append(q, f)) = Members(q) \cup {f}
           /\ q # <<>> => Members(q) = Members(Tail(q)) \cup {Head(q)}
           /\ Members(q) \subseteq T
           /\ Members(<<>>) = {}
<1>1. ASSUME NEW f \in T PROVE Members(Append(q, f)) = Members(q) \cup {f}
  <2>1. Members(q) \cup {f} \subseteq Members(Append(q, f))
    BY Entries DEF Members
  <2> QED
    BY <2>1, MembersOf
<1>2. ASSUME q # <<>> PROVE Members(q) = Members(Tail(q)) \cup {Head(q)}
  <2>1. ASSUME NEW i \in 1 .. Len(q) PROVE q[i] \in Members(Tail(q)) \cup {Head(q)}
    <3>1. i = 1 \/ (i - 1 \in 1 .. Len(Tail(q)) /\ Tail(q)[i - 1] = q[i])
      BY <1>2, Rest
    <3> QED
      BY <1>2, <3>1, Rest DEF Members
  <2>2. Members(q) \subseteq Members(Tail(q)) \cup {Head(q)}
    BY <2>1 DEF Members
  <2> QED
    BY <1>2, <2>2, MembersOf
<1>3. Members(<<>>) = {}
  BY DEF Members
<1> QED
  BY <1>1, <1>2, <1>3, MembersOf

LEMMA GuardedAppend ==
    ASSUME NEW T, NEW q \in Seq(T), NEW f \in T, NEW ok, NEW R, Guarded(q, ok, R),
           f \in ok \/ \E g \in Members(q) : <<g, f>> \in R
    PROVE  Guarded(Append(q, f), ok, R)
<1> DEFINE r == Append(q, f)
<1>1. /\ Len(q) \in Nat /\ Len(r) = Len(q) + 1 /\ r[Len(q) + 1] = f
      /\ \A i \in 1 .. Len(q) : r[i] = q[i]
  BY Entries
<1> HIDE DEF r
<1>2. ASSUME NEW i \in 1 .. Len(r)
      PROVE  r[i] \in ok \/ \E j \in 1 .. i - 1 : <<r[j], r[i]>> \in R
  <2>1. CASE i \in 1 .. Len(q)
    <3>1. /\ r[i] = q[i] /\ \A j \in 1 .. i - 1 : r[j] = q[j]
          /\ q[i] \in ok \/ \E j \in 1 .. i - 1 : <<q[j], q[i]>> \in R
      BY <1>1, <2>1 DEF Guarded
    <3> QED
      BY <3>1
  <2>2. CASE i = Len(q) + 1
    <3>1. ASSUME NEW g \in Members(q), <<g, f>> \in R
          PROVE  \E j \in 1 .. i - 1 : <<r[j], r[i]>> \in R
      <4>1. PICK j \in 1 .. Len(q) : g = q[j]
        BY <3>1 DEF Members
      <4>2. j \in 1 .. i - 1 /\ r[j] = g /\ r[i] = f
        BY <1>1, <2>2, <4>1
      <4> QED
        BY <3>1, <4>2
    <3> QED
      BY <1>1, <2>2, <3>1
  <2>3. i \in 1 .. Len(q) \/ i = Len(q) + 1
    BY <1>1
  <2> QED
    BY <2>1, <2>2, <2>3
<1> QED
  BY <1>2 DEF Guarded, r

\* What stood behind the first frame is guarded without it, if need be by
\* being in the set that takes the place of ok.
LEMMA GuardedTail ==
    ASSUME NEW T, NEW q \in Seq(T), q # <<>>, NEW ok, NEW on, NEW R, Guarded(q, ok, R),
           \A f \in Members(Tail(q)) : f \in ok \/ <<Head(q), f>> \in R => f \in on
    PROVE  Guarded(Tail(q), on, R)
<1> DEFINE r == Tail(q)
<1>1. /\ Len(q) \in Nat /\ Len(r) = Len(q) - 1 /\ q[1] = Head(q)
      /\ \A i \in 1 .. Len(r) : r[i] = q[i + 1] /\ i + 1 \in 1 .. Len(q)
      /\ \A i \in 1 .. Len(q) : i = 1 \/ (i - 1 \in 1 .. Len(r) /\ r[i - 1] = q[i])
  BY Rest
<1>2. ASSUME NEW i \in 1 .. Len(r)
      PROVE  r[i] \in on \/ \E j \in 1 .. i - 1 : <<r[j], r[i]>> \in R
  <2> HIDE DEF r
  <2>1. r[i] \in Members(r) /\ r[i] = q[i + 1] /\ i + 1 \in 1 .. Len(q)
    BY <1>1 DEF Members
  <2>2. CASE q[i + 1] \in ok
    BY <2>1, <2>2 DEF r
  <2>3. ASSUME NEW j \in 1 .. (i + 1) - 1, <<q[j], q[i + 1]>> \in R
        PROVE  r[i] \in on \/ \E k \in 1 .. i - 1 : <<r[k], r[i]>> \in R
    <3>1. CASE j = 1
      BY <1>1, <2>1, <2>3, <3>1 DEF r
    <3>2. CASE j # 1
      <4>1. j - 1 \in 1 .. i - 1 /\ j \in 1 .. Len(q)
        BY <1>1, <3>2
      <4>2. r[j - 1] = q[j]
        BY <1>1, <3>2, <4>1
      <4> QED
        BY <2>1, <2>3, <4>1, <4>2
    <3> QED
      BY <3>1, <3>2
  <2> QED
    BY <2>1, <2>2, <2>3 DEF Guarded
<1> QED
  BY <1>2 DEF Guarded

LEMMA GuardedMore ==
    ASSUME NEW q, NEW ok, NEW on, NEW R, Guarded(q, ok, R),
           \A f \in Members(q) : f \in ok => f \in on
    PROVE  Guarded(q, on, R)
BY DEF Guarded, Members

LEMMA ApartAppend ==
    ASSUME NEW T, NEW q \in Seq(T), NEW f \in T, NEW R, Apart(q, R),
           \A g \in Members(q) : <<g, f>> \notin R
    PROVE  Apart(Append(q, f), R)
<1> DEFINE r == Append(q, f)
<1>1. /\ Len(q) \in Nat /\ Len(r) = Len(q) + 1 /\ r[Len(q) + 1] = f
      /\ \A i \in 1 .. Len(q) : r[i] = q[i]
  BY Entries
<1> HIDE DEF r
<1>2. ASSUME NEW i \in 1 .. Len(r), NEW j \in 1 .. i - 1
      PROVE  <<r[j], r[i]>> \notin R
  <2>1. CASE i \in 1 .. Len(q)
    BY <1>1, <2>1 DEF Apart
  <2>2. CASE i = Len(q) + 1
    <3>1. j \in 1 .. Len(q) /\ q[j] \in Members(q)
      BY <1>1, <2>2 DEF Members
    <3> QED
      BY <1>1, <2>2, <3>1
  <2> QED
    BY <1>1, <2>1, <2>2
<1> QED
  BY <1>2 DEF Apart, r

LEMMA ApartTail ==
    ASSUME NEW T, NEW q \in Seq(T), q # <<>>, NEW R, Apart(q, R)
    PROVE  /\ Apart(Tail(q), R)
           /\ \A f \in Members(Tail(q)) : <<Head(q), f>> \notin R
<1> DEFINE r == Tail(q)
<1>1. /\ Len(q) \in Nat /\ Len(r) = Len(q) - 1 /\ q[1] = Head(q)
      /\ \A i \in 1 .. Len(r) : r[i] = q[i + 1] /\ i + 1 \in 1 .. Len(q)
  BY Rest
<1> HIDE DEF r
<1>2. Apart(r, R)
  <2>1. ASSUME NEW i \in 1 .. Len(r), NEW j \in 1 .. i - 1
        PROVE  <<r[j], r[i]>> \notin R
    <3>1. j \in 1 .. Len(r) /\ j + 1 \in 1 .. (i + 1) - 1
      BY <1>1
    <3> QED
      BY <1>1, <3>1 DEF Apart
  <2> QED
    BY <2>1 DEF Apart
<1>3. ASSUME NEW f \in Members(r) PROVE <<Head(q), f>> \notin R
  <2>1. PICK i \in 1 .. Len(r) : f = r[i]
    BY <1>3 DEF Members
  <2>2. i + 1 \in 1 .. Len(q) /\ 1 \in 1 .. (i + 1) - 1 /\ f = q[i + 1]
    BY <1>1, <2>1
  <2> QED
    BY <1>1, <2>2 DEF Apart
<1> QED
  BY <1>2, <1>3 DEF r
-----------------------------------------------------------------------------
(***************************************************************************)
(* Frames.                                                                 *)
(***************************************************************************)
Odd(k) == k % 2 = 1
Has(q, type, k) == \E f \in Members(q) : f.type = type /\ f.id = k

\* What the fields of a frame are, and which end sends it.
LEMMA FrameFields ==
    ASSUME NEW f \in AllFrames
    PROVE  /\ f.type \in {"HEADERS", "PUSH_PROMISE", "RST_STREAM", "WINDOW_UPDATE", "GOAWAY",
                          "SETTINGS", "ACK", "DATA"}
           /\ f.type \in {"HEADERS", "PUSH_PROMISE", "RST_STREAM", "DATA"} => f.id \in StreamIds
           /\ f.type = "WINDOW_UPDATE" => f.id \in Levels /\ f.increment \in Nat
           /\ f.type = "PUSH_PROMISE" => f.promised \in StreamIds /\ ~Odd(f.promised)
           /\ f.type = "HEADERS" => f.size \in Nat
           /\ f.type = "GOAWAY" => f.last \in Nat
           /\ f.type = "SETTINGS" => f.max \in Int /\ f.window \in Int
           /\ f.type = "DATA" => f.length \in Nat /\ f.end \in BOOLEAN
<1>1. \/ f \in Requests \/ f \in Responses \/ f \in Promises \/ f \in Updates \/ f \in Goaways
      \/ f \in Resets \/ f \in SettingsFrames \/ f \in Acks \/ f \in DataFrames
  BY DEF AllFrames, Frames, Regular
<1>2. \A i \in StreamIds : i % 2 = 0 => i % 2 # 1
  BY IdsFinite
<1>3. CASE f \in Requests
  BY <1>3 DEF Requests
<1>4. CASE f \in Responses
  BY <1>4 DEF Responses
<1>5. CASE f \in Promises
  BY <1>2, <1>5 DEF Promises, Odd
<1>6. CASE f \in Updates
  BY <1>6 DEF Updates, Levels
<1>7. CASE f \in Goaways
  BY <1>7 DEF Goaways
<1>8. CASE f \in Resets \/ f \in Acks
  BY <1>8 DEF Resets, Acks
<1>9. CASE f \in SettingsFrames
  BY <1>9 DEF SettingsFrames
<1>10. CASE f \in DataFrames
  BY <1>10 DEF DataFrames
<1> QED
  BY <1>1, <1>3, <1>4, <1>5, <1>6, <1>7, <1>8, <1>9, <1>10

\* The kinds of frames, by their types.
LEMMA FrameKinds ==
    ASSUME NEW srv \in BOOLEAN, NEW f \in Frames(srv)
    PROVE  /\ f \in AllFrames
           /\ f.type = "HEADERS" =>
                IF srv THEN f \in Responses /\ f.cat = "HEADERS"
                       ELSE f \in Requests /\ f.cat = "REQUEST" /\ Odd(f.id) /\ f.size = 0
           /\ f.type = "PUSH_PROMISE" => srv /\ f \in Promises
           /\ f.type = "RST_STREAM" => f \in Resets
           /\ f.type = "WINDOW_UPDATE" => f \in Updates
           /\ f.type = "GOAWAY" => f \in Goaways
           /\ f.type = "SETTINGS" => f \in SettingsFrames
           /\ f.type = "ACK" => f \in Acks
           /\ f.type = "DATA" => f \in DataFrames
<1>1. f \in AllFrames
  BY IsFrame
<1>2. \/ srv /\ f \in Responses
      \/ srv /\ f \in Promises
      \/ ~srv /\ f \in Requests
      \/ f \in Updates \/ f \in Goaways
      \/ f \in Resets \/ f \in SettingsFrames \/ f \in Acks \/ f \in DataFrames
  BY DEF Frames, Regular
<1>3. CASE srv /\ f \in Responses
  BY <1>1, <1>3 DEF Responses
<1>4. CASE srv /\ f \in Promises
  BY <1>1, <1>4 DEF Promises
<1>5. CASE ~srv /\ f \in Requests
  BY <1>1, <1>5 DEF Requests, Odd
<1>6. CASE f \in Updates \/ f \in Goaways
  BY <1>1, <1>6 DEF Updates, Goaways
<1>7. CASE f \in Resets \/ f \in SettingsFrames \/ f \in Acks \/ f \in DataFrames
  BY <1>1, <1>7 DEF Resets, SettingsFrames, Acks, DataFrames
<1> QED
  BY <1>2, <1>3, <1>4, <1>5, <1>6, <1>7

-----------------------------------------------------------------------------
(***************************************************************************)
(* Room for requests.  A stream is ahead of a frame on its way to the      *)
(* server if it will be open there when that frame arrives.                *)
(***************************************************************************)
Before(q, i, type, k) == \E j \in 1 .. i - 1 : q[j].type = type /\ q[j].id = k

Ahead(s, v, i) ==
    {k \in StreamIds : /\ Odd(k)
                       /\ Active(s, k) \/ Before(v, i, "HEADERS", k)
                       /\ ~Before(v, i, "RST_STREAM", k)}

\* Those ahead of the next frame.
AheadOfNext(s, v) ==
    {k \in StreamIds : /\ Odd(k)
                       /\ Active(s, k) \/ Has(v, "HEADERS", k)
                       /\ ~Has(v, "RST_STREAM", k)}

RoomOK(s, v) ==
    \A i \in 1 .. Len(v) : v[i].type = "HEADERS" => Cardinality(Ahead(s, v, i)) < ServerMax

\* A request or a reset does not come after one of the same stream or a later.
Revives ==
    {p \in AllFrames \X AllFrames :
       /\ p[1].type \in {"HEADERS", "RST_STREAM"} /\ Odd(p[1].id)
       /\ p[2].type = "HEADERS" /\ p[2].id <= p[1].id}

LEMMA RevivesIff ==
    ASSUME NEW g \in AllFrames, NEW f \in AllFrames
    PROVE  <<g, f>> \in Revives <=> /\ g.type \in {"HEADERS", "RST_STREAM"} /\ Odd(g.id)
                                    /\ f.type = "HEADERS" /\ f.id <= g.id
BY DEF Revives

LEMMA FewerIds ==
    ASSUME NEW X \in SUBSET StreamIds, NEW Y \in SUBSET X
    PROVE  Cardinality(Y) \in Nat /\ Cardinality(X) \in Nat /\ Cardinality(Y) <= Cardinality(X)
BY NumberOf, FS_Subset

LEMMA RoomFor ==
    ASSUME NEW s, NEW t, NEW v, NEW r, NEW i, NEW j, NEW n \in Nat,
           Ahead(t, r, j) \subseteq Ahead(s, v, i), Cardinality(Ahead(s, v, i)) < n
    PROVE  Cardinality(Ahead(t, r, j)) < n
<1>1. Ahead(s, v, i) \in SUBSET StreamIds
  BY DEF Ahead
<1> QED
  BY <1>1, FewerIds

LEMMA RoomShrinks ==
    ASSUME NEW s, NEW t, NEW v, RoomOK(s, v),
           \A k \in StreamIds : Odd(k) /\ Active(t, k) => Active(s, k)
    PROVE  RoomOK(t, v)
<1>1. \A i : Ahead(t, v, i) \subseteq Ahead(s, v, i)
  BY DEF Ahead
<1>2. ServerMax \in Nat
  BY LimitAssumption
<1> QED
  BY <1>1, <1>2, RoomFor DEF RoomOK

LEMMA RoomAppend ==
    ASSUME NEW s, NEW v \in Seq(AllFrames), NEW f \in AllFrames, RoomOK(s, v),
           f.type = "HEADERS" => Cardinality(AheadOfNext(s, v)) < ServerMax
    PROVE  RoomOK(s, Append(v, f))
<1> DEFINE r == Append(v, f)
<1>1. /\ Len(v) \in Nat /\ Len(r) = Len(v) + 1 /\ r[Len(v) + 1] = f
      /\ \A i \in 1 .. Len(v) : r[i] = v[i]
  BY Entries
<1> HIDE DEF r
<1>2. ASSUME NEW i \in 1 .. Len(v) + 1, NEW type, NEW k
      PROVE  Before(r, i, type, k) <=> Before(v, i, type, k)
  BY <1>1 DEF Before
<1>3. ASSUME NEW type, NEW k
      PROVE  Before(v, Len(v) + 1, type, k) <=> Has(v, type, k)
  BY <1>1 DEF Before, Has, Members
<1>4. ASSUME NEW i \in 1 .. Len(r), r[i].type = "HEADERS"
      PROVE  Cardinality(Ahead(s, r, i)) < ServerMax
  <2>1. CASE i \in 1 .. Len(v)
    <3>1. Ahead(s, r, i) = Ahead(s, v, i)
      BY <1>1, <1>2, <2>1 DEF Ahead
    <3> QED
      BY <1>1, <1>4, <2>1, <3>1 DEF RoomOK
  <2>2. CASE i = Len(v) + 1
    <3>1. Ahead(s, r, i) = AheadOfNext(s, v)
      BY <1>1, <1>2, <1>3, <2>2 DEF Ahead, AheadOfNext
    <3> QED
      BY <1>1, <1>4, <2>2, <3>1
  <2>3. i \in 1 .. Len(v) \/ i = Len(v) + 1
    BY <1>1
  <2> QED
    BY <2>1, <2>2, <2>3
<1> QED
  BY <1>4 DEF RoomOK, r

\* The first frame is taken: the stream of a request may be open then, that of
\* a reset is not.
LEMMA RoomTail ==
    ASSUME NEW s, NEW t, NEW v \in Seq(AllFrames), v # <<>>, RoomOK(s, v), Apart(v, Revives),
           \A k \in StreamIds : Odd(k) /\ Active(t, k) =>
              /\ Active(s, k) \/ (Head(v).type = "HEADERS" /\ Head(v).id = k)
              /\ ~(Head(v).type = "RST_STREAM" /\ Head(v).id = k)
    PROVE  RoomOK(t, Tail(v))
<1> DEFINE r == Tail(v)
<1>1. /\ Len(v) \in Nat /\ Len(r) = Len(v) - 1 /\ v[1] = Head(v)
      /\ \A i \in 1 .. Len(r) : r[i] = v[i + 1] /\ i + 1 \in 1 .. Len(v)
      /\ \A i \in 1 .. Len(v) : i = 1 \/ (i - 1 \in 1 .. Len(r) /\ r[i - 1] = v[i])
      /\ Head(v) \in AllFrames /\ r \in Seq(AllFrames)
  BY Rest
<1>2. /\ Members(r) \subseteq AllFrames
      /\ \A f \in Members(r) : <<Head(v), f>> \notin Revives
  BY <1>1, MembersOf, ApartTail
<1> HIDE DEF r
<1>3. ASSUME NEW i \in 1 .. Len(r), NEW k \in Ahead(t, r, i)
      PROVE  k \in Ahead(s, v, i + 1)
  <2>1. k \in StreamIds /\ Odd(k) /\ k \in Nat
    BY IdsFinite DEF Ahead
  <2>2. ASSUME NEW type, Before(r, i, type, k) PROVE Before(v, i + 1, type, k)
    <3>1. PICK j \in 1 .. i - 1 : r[j].type = type /\ r[j].id = k
      BY <2>2 DEF Before
    <3>2. j + 1 \in 1 .. (i + 1) - 1 /\ r[j] = v[j + 1]
      BY <1>1, <3>1
    <3> QED
      BY <3>1, <3>2 DEF Before
  <2>3. ASSUME NEW type, Before(v, i + 1, type, k)
        PROVE  Before(r, i, type, k) \/ (Head(v).type = type /\ Head(v).id = k)
    <3>1. PICK j \in 1 .. (i + 1) - 1 : v[j].type = type /\ v[j].id = k
      BY <2>3 DEF Before
    <3>2. CASE j = 1
      BY <1>1, <3>1, <3>2
    <3>3. CASE j # 1
      <4>1. j - 1 \in 1 .. i - 1 /\ j \in 1 .. Len(v)
        BY <1>1, <3>3
      <4>2. r[j - 1] = v[j]
        BY <1>1, <3>3, <4>1
      <4> QED
        BY <3>1, <4>1, <4>2 DEF Before
    <3> QED
      BY <3>2, <3>3
  <2>4. 1 \in 1 .. (i + 1) - 1
    BY <1>1
  <2>5. ASSUME Head(v).type = "HEADERS", Head(v).id = k
        PROVE  Before(v, i + 1, "HEADERS", k)
    BY <1>1, <2>4, <2>5 DEF Before
  <2>6. Active(s, k) \/ Before(v, i + 1, "HEADERS", k)
    <3>1. Active(t, k) \/ Before(r, i, "HEADERS", k)
      BY DEF Ahead
    <3> QED
      BY <2>1, <2>2, <2>5, <3>1
  <2>7. ASSUME Head(v).type = "RST_STREAM", Head(v).id = k PROVE FALSE
    <3>1. Before(r, i, "HEADERS", k)
      BY <2>1, <2>7 DEF Ahead
    <3>2. PICK j \in 1 .. i - 1 : r[j].type = "HEADERS" /\ r[j].id = k
      BY <3>1 DEF Before
    <3>3. j \in 1 .. Len(r)
      BY <1>1
    <3>4. r[j] \in Members(r) /\ r[j] \in AllFrames
      BY <1>2, <3>3 DEF Members
    <3>5. <<Head(v), r[j]>> \in Revives
      <4>1. Head(v) \in AllFrames
        BY <1>1
      <4>2. r[j].id <= Head(v).id
        BY <2>1, <2>7, <3>2
      <4>3. <<Head(v), r[j]>> \in Revives <=>
              /\ Head(v).type \in {"HEADERS", "RST_STREAM"} /\ Odd(Head(v).id)
              /\ r[j].type = "HEADERS" /\ r[j].id <= Head(v).id
        BY <3>4, <4>1, RevivesIff, Zenon
      <4> QED
        BY <2>1, <2>7, <3>2, <4>2, <4>3
    <3> QED
      BY <1>2, <3>4, <3>5
  <2>8. ~Before(v, i + 1, "RST_STREAM", k)
    BY <2>3, <2>7 DEF Ahead
  <2> QED
    BY <2>1, <2>6, <2>8 DEF Ahead
<1>4. ASSUME NEW i \in 1 .. Len(r), r[i].type = "HEADERS"
      PROVE  Cardinality(Ahead(t, r, i)) < ServerMax
  <2>1. Ahead(t, r, i) \subseteq Ahead(s, v, i + 1)
    BY <1>3
  <2>2. Cardinality(Ahead(s, v, i + 1)) < ServerMax
    BY <1>1, <1>4 DEF RoomOK
  <2> QED
    BY <2>1, <2>2, RoomFor, LimitAssumption
<1> QED
  BY <1>4 DEF RoomOK, r
-----------------------------------------------------------------------------
(***************************************************************************)
(* What most steps leave of a session.                                     *)
(***************************************************************************)
\* Two requests of a queue that are not in the order of their ids.
Descends ==
    {p \in AllFrames \X AllFrames :
       p[1].type = "HEADERS" /\ p[2].type = "HEADERS" /\ p[2].id <= p[1].id}

LEMMA DescendsIff ==
    ASSUME NEW g \in AllFrames, NEW f \in AllFrames
    PROVE  <<g, f>> \in Descends <=> g.type = "HEADERS" /\ f.type = "HEADERS" /\ f.id <= g.id
BY DEF Descends

\* Only updates are queued, and no request is taken out.
SameFrames(s, t) ==
    /\ \A f \in Members(t.ob_reg) : f.type = "WINDOW_UPDATE" \/ f \in Members(s.ob_reg)
    /\ ~s.server => \A f \in Members(s.ob_reg) : f.type = "HEADERS" => f \in Members(t.ob_reg)
    /\ Apart(s.ob_reg, Descends) => Apart(t.ob_reg, Descends)

\* A stream goes on, is reset or closes; only one of I gets a body to send.
SameStream(s, t, I, k) ==
    /\ \/ t.streams[k].state = s.streams[k].state
       \/ Active(s, k) /\ t.streams[k].state \in {"OPENED", "CLOSING", "CLOSED"}
    /\ Active(t, k) => t.streams[k].shut = s.streams[k].shut
    /\ t.streams[k].item # NoItem => s.streams[k].item # NoItem \/ k \in I

\* A step that begins nothing and ends nothing but streams: only those of R
\* are reset.
Mild(s, t, R, I) ==
    /\ t.server = s.server
    /\ t.goaway_flags = s.goaway_flags
    /\ t.remote_last_stream_id = s.remote_last_stream_id
    /\ t.next_stream_id = s.next_stream_id
    /\ t.last_sent_stream_id = s.last_sent_stream_id
    /\ t.last_recv_stream_id = s.last_recv_stream_id
    /\ t.last_proc_stream_id = s.last_proc_stream_id
    /\ t.local_last_stream_id = s.local_last_stream_id
    /\ t.local_window_size = s.local_window_size
    /\ s.remote_window_size >= 0 => t.remote_window_size >= 0
    /\ SameFrames(s, t)
    /\ \A f \in Members(t.ob_syn) : f \in Members(s.ob_syn) \/ f.id \in R
    /\ \A k \in StreamIds : SameStream(s, t, I, k)

SameSettings(s, t) ==
    /\ t.ob_urgent = s.ob_urgent
    /\ t.inflight_settings = s.inflight_settings
    /\ t.local_max = s.local_max

Tame(s, t, R, I) == Mild(s, t, R, I) /\ SameSettings(s, t)

\* A side that receives no body has nothing to give back.
NoRecv(s) ==
    s.recv_window_size = 0 /\ \A k \in StreamIds : s.streams[k].recv_window_size = 0

Dry(s, t) ==
    NoRecv(s) => /\ NoRecv(t)
                 /\ \A f \in Members(t.ob_reg) : f.type = "WINDOW_UPDATE" => f \in Members(s.ob_reg)

LEMMA MildTwice ==
    ASSUME NEW s, NEW t, NEW u, NEW R, NEW I, NEW Q, NEW J, Q \subseteq R, J \subseteq I,
           Mild(s, t, R, I) \/ Mild(s, t, Q, J), Mild(t, u, R, I) \/ Mild(t, u, Q, J)
    PROVE  Mild(s, u, R, I)
<1>1. /\ SameFrames(s, t) /\ SameFrames(t, u) /\ t.server = s.server
      /\ \A k \in StreamIds : SameStream(s, t, I, k) /\ SameStream(t, u, I, k)
      /\ \A f \in Members(t.ob_syn) : f \in Members(s.ob_syn) \/ f.id \in R
      /\ \A f \in Members(u.ob_syn) : f \in Members(t.ob_syn) \/ f.id \in R
  BY DEF Mild, SameStream
<1>2. SameFrames(s, u)
  BY <1>1 DEF SameFrames
<1>3. \A k \in StreamIds : SameStream(s, u, I, k)
  BY <1>1 DEF SameStream, Active
<1>4. \A f \in Members(u.ob_syn) : f \in Members(s.ob_syn) \/ f.id \in R
  BY <1>1
<1> QED
  BY <1>2, <1>3, <1>4 DEF Mild

LEMMA TameTwice ==
    ASSUME NEW s, NEW t, NEW u, NEW R, NEW I, NEW Q, NEW J, Q \subseteq R, J \subseteq I,
           Tame(s, t, R, I) \/ Tame(s, t, Q, J), Tame(t, u, R, I) \/ Tame(t, u, Q, J)
    PROVE  Tame(s, u, R, I)
BY MildTwice DEF Tame, SameSettings

LEMMA DryTwice ==
    ASSUME NEW s, NEW t, NEW u, Dry(s, t), Dry(t, u)
    PROVE  Dry(s, u)
BY DEF Dry

LEMMA SameFramesSelf ==
    ASSUME NEW s, NEW t, t.ob_reg = s.ob_reg
    PROVE  SameFrames(s, t)
BY DEF SameFrames

LEMMA TameSelf ==
    ASSUME NEW s, NEW R, NEW I
    PROVE  Tame(s, s, R, I) /\ Dry(s, s)
BY SameFramesSelf DEF Tame, Mild, SameSettings, SameStream, Dry

\* Whatever else changes, these fields are the same.
Steady(s, t) ==
    /\ t.server = s.server
    /\ t.goaway_flags = s.goaway_flags
    /\ t.remote_last_stream_id = s.remote_last_stream_id
    /\ t.next_stream_id = s.next_stream_id
    /\ t.last_sent_stream_id = s.last_sent_stream_id
    /\ t.last_recv_stream_id = s.last_recv_stream_id
    /\ t.last_proc_stream_id = s.last_proc_stream_id
    /\ t.local_last_stream_id = s.local_last_stream_id
    /\ t.local_window_size = s.local_window_size
    /\ SameSettings(s, t)

LEMMA SteadyTame ==
    ASSUME NEW s, NEW t, NEW R, NEW I, Steady(s, t),
           s.remote_window_size >= 0 => t.remote_window_size >= 0, SameFrames(s, t),
           \A f \in Members(t.ob_syn) : f \in Members(s.ob_syn) \/ f.id \in R,
           \A k \in StreamIds : SameStream(s, t, I, k)
    PROVE  Tame(s, t, R, I)
BY DEF Steady, Tame, Mild

\* Steps that touch one field.
LEMMA ResetsTame ==
    ASSUME NEW srv \in BOOLEAN, NEW s \in SessionType(srv), NEW q, NEW R, NEW I,
           \A f \in Members(q) : f \in Members(s.ob_syn) \/ f.id \in R
    PROVE  LET t == [s EXCEPT !.ob_syn = q] IN Tame(s, t, R, I) /\ Dry(s, t)
<1> DEFINE t == [s EXCEPT !.ob_syn = q]
<1>1. /\ Steady(s, t) /\ t.remote_window_size = s.remote_window_size
      /\ t.ob_reg = s.ob_reg /\ t.ob_syn = q /\ t.streams = s.streams
      /\ t.recv_window_size = s.recv_window_size
  BY DEF SessionType, Steady, SameSettings
<1> HIDE DEF t
<1>2. Tame(s, t, R, I)
  BY <1>1, SteadyTame, SameFramesSelf DEF SameStream
<1>3. Dry(s, t)
  BY <1>1 DEF Dry, NoRecv
<1> QED
  BY <1>2, <1>3 DEF t

LEMMA StreamTame ==
    ASSUME NEW srv \in BOOLEAN, NEW s \in SessionType(srv), NEW id \in StreamIds, NEW a,
           NEW R, NEW I,
           \/ a.state = s.streams[id].state
           \/ Active(s, id) /\ a.state \in {"OPENED", "CLOSING", "CLOSED"},
           a.shut = s.streams[id].shut,
           a.item # NoItem => s.streams[id].item # NoItem \/ id \in I
    PROVE  LET t == [s EXCEPT !.streams[id] = a] IN
           /\ Tame(s, t, R, I)
           /\ a.recv_window_size \in {s.streams[id].recv_window_size, 0} => Dry(s, t)
<1> DEFINE t == [s EXCEPT !.streams[id] = a]
<1>1. /\ Steady(s, t) /\ t.remote_window_size = s.remote_window_size
      /\ t.ob_reg = s.ob_reg /\ t.ob_syn = s.ob_syn
      /\ t.streams = [s.streams EXCEPT ![id] = a]
      /\ t.recv_window_size = s.recv_window_size
  BY DEF SessionType, Steady, SameSettings
<1> HIDE DEF t
<1>2. \A k \in StreamIds : t.streams[k] = IF k = id THEN a ELSE s.streams[k]
  BY <1>1, FieldTypes
<1>3. \A k \in StreamIds : SameStream(s, t, I, k)
  BY <1>2 DEF SameStream
<1>4. Tame(s, t, R, I)
  BY <1>1, <1>3, SteadyTame, SameFramesSelf
<1>5. a.recv_window_size \in {s.streams[id].recv_window_size, 0} => Dry(s, t)
  BY <1>1, <1>2 DEF Dry, NoRecv
<1> QED
  BY <1>4, <1>5 DEF t

LEMMA AddRstTame ==
    ASSUME NEW srv \in BOOLEAN, NEW s \in SessionType(srv), NEW id \in StreamIds, NEW R,
           id \in R, NEW I
    PROVE  Tame(s, add_rst_stream(s, id), R, I) /\ Dry(s, add_rst_stream(s, id))
<1> DEFINE a == [s.streams[id] EXCEPT !.state = "CLOSING"]
           t == [s EXCEPT !.streams[id] = a]
<1>1. ASSUME NEW u \in SessionType(srv)
      PROVE  /\ Tame(u, Enqueue(u, "ob_syn", RstStream(id)), R, I)
             /\ Dry(u, Enqueue(u, "ob_syn", RstStream(id)))
  <2>1. RstStream(id) \in Resets /\ RstStream(id).id \in R /\ u.ob_syn \in Seq(Resets)
    BY FieldTypes DEF RstStream, Resets
  <2>2. Members(Append(u.ob_syn, RstStream(id))) \subseteq Members(u.ob_syn) \cup {RstStream(id)}
    BY <2>1, MembersOf
  <2> QED
    BY <2>1, <2>2, ResetsTame DEF Enqueue
<1>2. CASE ~Active(s, id)
  BY <1>1, <1>2 DEF add_rst_stream
<1>3. CASE Active(s, id) /\ s.streams[id].state = "CLOSING"
  BY <1>3, TameSelf DEF add_rst_stream
<1>4. CASE Active(s, id) /\ s.streams[id].state # "CLOSING"
  <2>1. s.streams[id] \in StreamType
    BY StreamTypes
  <2>2. /\ a \in StreamType /\ a.state = "CLOSING" /\ a.push = s.streams[id].push
        /\ a.shut = s.streams[id].shut /\ a.item = s.streams[id].item
        /\ a.recv_window_size = s.streams[id].recv_window_size
    BY <2>1 DEF StreamType
  <2>3. add_rst_stream(s, id) = Enqueue(t, "ob_syn", RstStream(id))
    BY <1>4 DEF add_rst_stream
  <2> HIDE DEF a
  <2>4. t \in SessionType(srv)
    BY <1>4, <2>2, StreamChanged
  <2>5. Tame(s, t, R, I) /\ Dry(s, t)
    BY <1>4, <2>2, StreamTame
  <2> HIDE DEF t
  <2> QED
    BY <1>1, <2>3, <2>4, <2>5, TameTwice, DryTwice
<1> QED
  BY <1>2, <1>3, <1>4

LEMMA CloseStreamsTame ==
    ASSUME NEW srv \in BOOLEAN, NEW s \in SessionType(srv), NEW ids, NEW R, NEW I
    PROVE  Tame(s, close_streams(s, ids), R, I) /\ Dry(s, close_streams(s, ids))
<1> DEFINE t == close_streams(s, ids)
<1>1. /\ Steady(s, t) /\ t.remote_window_size = s.remote_window_size
      /\ t.ob_reg = s.ob_reg /\ t.ob_syn = s.ob_syn
      /\ t.streams = [id \in StreamIds |-> IF id \in ids /\ Active(s, id)
                                           THEN ClosedStream ELSE s.streams[id]]
      /\ t.recv_window_size = s.recv_window_size
  BY DEF SessionType, Steady, SameSettings, close_streams
<1> HIDE DEF t
<1>2. /\ ClosedStream.state = "CLOSED" /\ ClosedStream.item = NoItem
      /\ ClosedStream.recv_window_size = 0
  BY DEF ClosedStream, NoStream
<1>3. \A k \in StreamIds : SameStream(s, t, I, k)
  BY <1>1, <1>2 DEF SameStream, Active
<1>4. Tame(s, t, R, I)
  BY <1>1, <1>3, SteadyTame, SameFramesSelf
<1>5. Dry(s, t)
  BY <1>1, <1>2 DEF Dry, NoRecv
<1> QED
  BY <1>4, <1>5 DEF t

\* A stream whose other half is shut closes.
LEMMA ShutdownTame ==
    ASSUME NEW srv \in BOOLEAN, NEW s \in SessionType(srv), NEW id \in StreamIds,
           NEW dir, NEW other, {dir, other} = {"RD", "WR"},
           Active(s, id) => other \in s.streams[id].shut, NEW R, NEW I
    PROVE  /\ Tame(s, shutdown(s, id, dir), R, I) /\ Dry(s, shutdown(s, id, dir))
           /\ ~Active(shutdown(s, id, dir), id)
<1> DEFINE a == [s.streams[id] EXCEPT !.shut = s.streams[id].shut \cup {dir}]
           t == [s EXCEPT !.streams[id] = a]
           u == shutdown(s, id, dir)
<1>1. s.streams[id] \in StreamType /\ s.streams[id].shut \subseteq {"RD", "WR"}
  BY StreamTypes
<1>2. /\ a \in StreamType /\ SameStreamWindows(s.streams[id], a)
      /\ a.state = s.streams[id].state /\ a.item = s.streams[id].item
      /\ a.shut = s.streams[id].shut \cup {dir} /\ a.push = s.streams[id].push
  BY <1>1 DEF StreamType, SameStreamWindows
<1>3. t = [s EXCEPT !.streams[id].shut = s.streams[id].shut \cup {dir}]
  BY DEF SessionType
<1> HIDE DEF a
<1>4. /\ Steady(s, t) /\ t.remote_window_size = s.remote_window_size
      /\ t.ob_reg = s.ob_reg /\ t.ob_syn = s.ob_syn
      /\ t.streams = [s.streams EXCEPT ![id] = a]
      /\ t.recv_window_size = s.recv_window_size
  BY DEF SessionType, Steady, SameSettings
<1>5. t \in SessionType(srv)
  BY <1>1, <1>2, StreamChanged
<1>6. u = IF a.shut = {"RD", "WR"} THEN close_stream(t, id) ELSE t
  <2>1. t.streams[id] = a
    BY <1>4, FieldTypes
  <2> QED
    BY <1>3, <2>1 DEF shutdown, close_stream_if_shut_rdwr
<1> HIDE DEF t
<1>7. \A k \in StreamIds : t.streams[k] = IF k = id THEN a ELSE s.streams[k]
  BY <1>4, FieldTypes
<1>8. CASE Active(s, id)
  <2>1. a.shut = {"RD", "WR"}
    BY <1>1, <1>2, <1>8
  <2>2. u = close_streams(t, {id})
    BY <1>6, <2>1 DEF close_stream
  <2>3. u.streams = [k \in StreamIds |-> IF k \in {id} /\ Active(t, k)
                                         THEN ClosedStream ELSE t.streams[k]]
    BY <1>5, <2>2 DEF SessionType, close_streams
  <2>4. Tame(t, u, R, I) /\ Dry(t, u)
    BY <1>5, <2>2, CloseStreamsTame
  <2> HIDE DEF u
  <2>5. u.streams[id] = ClosedStream /\ ClosedStream.state = "CLOSED" /\ ClosedStream.item = NoItem
    BY <1>2, <1>7, <1>8, <2>3 DEF Active, ClosedStream, NoStream
  <2>6. \A k \in StreamIds : SameStream(s, u, I, k)
    <3>1. \A k \in StreamIds : k # id => u.streams[k] = s.streams[k]
      BY <1>7, <2>3
    <3> QED
      BY <1>8, <2>5, <3>1 DEF SameStream, Active
  <2>7. Mild(s, u, R, I)
    BY <1>4, <2>4, <2>6 DEF Tame, Mild, SameFrames, Steady
  <2>8. Tame(s, u, R, I)
    BY <1>4, <2>4, <2>7 DEF Tame, Steady, SameSettings
  <2>9. Dry(s, t)
    BY <1>2, <1>4, <1>7 DEF Dry, NoRecv, SameStreamWindows
  <2> QED
    BY <2>4, <2>5, <2>8, <2>9, DryTwice DEF u, Active
<1>9. CASE ~Active(s, id)
  <2>1. ~Active(t, id)
    BY <1>2, <1>7, <1>9 DEF Active
  <2>2. \A k \in StreamIds : SameStream(s, t, I, k)
    BY <1>2, <1>7, <2>1 DEF SameStream, Active
  <2>3. Tame(s, t, R, I)
    BY <1>4, <2>2, SteadyTame, SameFramesSelf
  <2>4. Dry(s, t)
    BY <1>2, <1>4, <1>7 DEF Dry, NoRecv, SameStreamWindows
  <2>5. /\ Tame(t, close_stream(t, id), R, I) /\ Dry(t, close_stream(t, id))
        /\ ~Active(close_stream(t, id), id)
    <3>1. close_streams(t, {id}).streams
            = [k \in StreamIds |-> IF k \in {id} /\ Active(t, k)
                                   THEN ClosedStream ELSE t.streams[k]]
      BY <1>5 DEF SessionType, close_streams
    <3> QED
      BY <1>5, <2>1, <3>1, CloseStreamsTame DEF close_stream, Active
  <2> HIDE DEF u
  <2> QED
    BY <1>6, <2>1, <2>3, <2>4, <2>5, TameTwice, DryTwice DEF u
<1> QED
  BY <1>8, <1>9

-----------------------------------------------------------------------------
(***************************************************************************)
(* Windows.                                                                *)
(***************************************************************************)
LEMMA UpdateFrames ==
    ASSUME NEW srv \in BOOLEAN, NEW s \in SessionType(srv), NEW t, NEW f \in Updates,
           t.ob_reg = Append(s.ob_reg, f)
    PROVE  SameFrames(s, t)
<1>1. s.ob_reg \in Seq(AllFrames) /\ f \in AllFrames /\ f.type = "WINDOW_UPDATE"
  BY FieldTypes, QueueType, IsFrame DEF Updates
<1>2. Members(t.ob_reg) = Members(s.ob_reg) \cup {f} /\ Members(s.ob_reg) \subseteq AllFrames
  BY <1>1, MembersChange
<1>3. Apart(s.ob_reg, Descends) => Apart(t.ob_reg, Descends)
  BY <1>1, <1>2, ApartAppend, DescendsIff
<1> QED
  BY <1>1, <1>2, <1>3 DEF SameFrames

LEMMA UpdateConnectionTame ==
    ASSUME NEW srv \in BOOLEAN, NEW s \in SessionType(srv), NEW n \in Nat,
           s.recv_window_size + n <= s.local_window_size, NEW R, NEW I
    PROVE  Tame(s, update_recv_connection_window_size(s, n), R, I)
<1> DEFINE t == update_recv_connection_window_size(s, n)
           m == s.recv_window_size + n
           u == [s EXCEPT !.recv_window_size = m]
           f == WindowUpdate(0, m)
           w == [s EXCEPT !.ob_reg = Append(s.ob_reg, f), !.recv_window_size = 0,
                          !.window_update_queued = TRUE]
<1>1. m \in Nat /\ f \in Updates
  BY FieldTypes DEF WindowUpdate, Updates
<1>2. t \in {w, u}
  <2>1. w = [Enqueue(u, "ob_reg", f) EXCEPT !.window_update_queued = TRUE, !.recv_window_size = 0]
    BY DEF Enqueue, SessionType
  <2>2. f = WindowUpdate(0, u.recv_window_size)
    BY DEF SessionType
  <2>3. u.recv_window_size = m
    BY DEF SessionType
  <2>4. ~(m > s.local_window_size)
    BY <1>1, FieldTypes
  <2> HIDE DEF w, f
  <2> QED
    BY <1>1, <2>1, <2>2, <2>3, <2>4 DEF update_recv_connection_window_size
<1> HIDE DEF f, m
<1>3. CASE t = u
  <2>1. /\ Steady(s, t) /\ t.remote_window_size = s.remote_window_size
        /\ t.ob_reg = s.ob_reg /\ t.ob_syn = s.ob_syn /\ t.streams = s.streams
    BY <1>3 DEF SessionType, Steady, SameSettings
  <2> HIDE DEF t
  <2> QED
    BY <2>1, SteadyTame, SameFramesSelf DEF SameStream, t
<1>4. CASE t = w
  <2>1. /\ Steady(s, t) /\ t.remote_window_size = s.remote_window_size
        /\ t.ob_reg = Append(s.ob_reg, f) /\ t.ob_syn = s.ob_syn /\ t.streams = s.streams
    BY <1>4 DEF SessionType, Steady, SameSettings
  <2> HIDE DEF t
  <2> QED
    BY <1>1, <2>1, SteadyTame, UpdateFrames DEF SameStream, t
<1> QED
  BY <1>2, <1>3, <1>4

LEMMA UpdateStreamTame ==
    ASSUME NEW srv \in BOOLEAN, NEW s \in SessionType(srv), NEW id \in StreamIds,
           NEW n \in Nat, NEW send \in BOOLEAN, NEW R, id \in R, NEW I
    PROVE  Tame(s, update_recv_stream_window_size(s, id, n, send), R, I)
<1> DEFINE t == update_recv_stream_window_size(s, id, n, send)
           m == s.streams[id].recv_window_size + n
           a == [s.streams[id] EXCEPT !.recv_window_size = m]
           b == [s.streams[id] EXCEPT !.window_update_queued = TRUE, !.recv_window_size = 0]
           u == [s EXCEPT !.streams[id] = a]
           f == WindowUpdate(id, m)
           w == [s EXCEPT !.ob_reg = Append(s.ob_reg, f), !.streams[id] = b]
<1>1. s.streams[id] \in StreamType /\ m \in Nat /\ f \in Updates
  BY StreamTypes DEF WindowUpdate, Updates
<1>2. /\ a.state = s.streams[id].state /\ b.state = s.streams[id].state
      /\ a.shut = s.streams[id].shut /\ b.shut = s.streams[id].shut
      /\ a.item = s.streams[id].item /\ b.item = s.streams[id].item
  BY <1>1 DEF StreamType
<1>3. t \in {add_rst_stream(s, id), w, u}
  <2> DEFINE v == [s EXCEPT !.streams[id].recv_window_size = @ + n]
  <2>1. u = v
    OBVIOUS
  <2>2. v.streams[id].recv_window_size = m
    BY <2>1, <1>1, FieldTypes DEF SessionType, StreamType
  <2>3. w = [Enqueue(v, "ob_reg", f) EXCEPT !.streams[id].window_update_queued = TRUE,
                                            !.streams[id].recv_window_size = 0]
    <3>1. [Enqueue(v, "ob_reg", f) EXCEPT !.streams[id].window_update_queued = TRUE,
                                          !.streams[id].recv_window_size = 0]
            = [s EXCEPT !.ob_reg = Append(s.ob_reg, f),
                        !.streams[id] = [a EXCEPT !.window_update_queued = TRUE,
                                                  !.recv_window_size = 0]]
      <4>1. Enqueue(u, "ob_reg", f) = [s EXCEPT !.ob_reg = Append(s.ob_reg, f), !.streams[id] = a]
        BY FieldTypes, ZenonT(40) DEF Enqueue, SessionType
      <4> DEFINE z == [s EXCEPT !.ob_reg = Append(s.ob_reg, f), !.streams[id] = a]
                 c == [a EXCEPT !.window_update_queued = TRUE, !.recv_window_size = 0]
      <4> HIDE DEF a, f
      <4>2. z.streams[id] = a
        BY FieldTypes DEF SessionType
      <4>3. [z EXCEPT !.streams[id].window_update_queued = TRUE,
                      !.streams[id].recv_window_size = 0] = [z EXCEPT !.streams[id] = c]
        <5> HIDE DEF z
        <5> QED
          BY <4>2, ZenonT(40)
      <4>4. [z EXCEPT !.streams[id] = c]
              = [s EXCEPT !.ob_reg = Append(s.ob_reg, f), !.streams[id] = c]
        <5> HIDE DEF c
        <5> QED
          BY FieldTypes, ZenonT(40) DEF SessionType
      <4> HIDE DEF z, u, v
      <4> QED
        BY <2>1, <4>1, <4>3, <4>4 DEF z
    <3>2. [a EXCEPT !.window_update_queued = TRUE, !.recv_window_size = 0] = b
      BY <1>1 DEF StreamType
    <3> QED
      BY <3>1, <3>2
  <2>4. t \in {add_rst_stream(s, id), u,
               [Enqueue(v, "ob_reg", WindowUpdate(id, v.streams[id].recv_window_size))
                  EXCEPT !.streams[id].window_update_queued = TRUE,
                         !.streams[id].recv_window_size = 0]}
    BY <2>1 DEF update_recv_stream_window_size
  <2> QED
    BY <2>2, <2>3, <2>4
<1> HIDE DEF a, b, f, m
<1>4. CASE t = add_rst_stream(s, id)
  BY <1>4, AddRstTame
<1>5. CASE t = u
  BY <1>2, <1>5, StreamTame
<1>6. CASE t = w
  <2>1. /\ Steady(s, t) /\ t.remote_window_size = s.remote_window_size
        /\ t.ob_reg = Append(s.ob_reg, f) /\ t.ob_syn = s.ob_syn
        /\ t.streams = [s.streams EXCEPT ![id] = b]
    BY <1>6 DEF SessionType, Steady, SameSettings
  <2> HIDE DEF t, w, u
  <2>2. \A k \in StreamIds : t.streams[k] = IF k = id THEN b ELSE s.streams[k]
    BY <2>1, FieldTypes
  <2>3. \A k \in StreamIds : SameStream(s, t, I, k)
    BY <1>2, <2>2 DEF SameStream
  <2> QED
    BY <1>1, <2>1, <2>3, SteadyTame, UpdateFrames DEF t
<1> QED
  BY <1>3, <1>4, <1>5, <1>6

LEMMA WindowUpdateSentTame ==
    ASSUME NEW srv \in BOOLEAN, NEW s \in SessionType(srv), NEW f \in Updates,
           s.recv_window_size <= s.local_window_size, NEW R, f.id \in StreamIds => f.id \in R,
           NEW I
    PROVE  Tame(s, window_update_sent(s, f), R, I)
<1>0. f.id \in StreamIds \cup {0}
  BY DEF Updates
<1>1. CASE f.id = 0
  <2> DEFINE u == [s EXCEPT !.window_update_queued = FALSE]
  <2>1. u \in SessionType(srv)
    BY DEF SessionType
  <2>2. /\ Steady(s, u) /\ u.remote_window_size = s.remote_window_size
        /\ u.ob_reg = s.ob_reg /\ u.ob_syn = s.ob_syn /\ u.streams = s.streams
        /\ u.recv_window_size + 0 <= u.local_window_size
    BY FieldTypes DEF SessionType, Steady, SameSettings
  <2>3. window_update_sent(s, f) = update_recv_connection_window_size(u, 0)
    BY <1>1 DEF window_update_sent
  <2> HIDE DEF u
  <2>4. Tame(s, u, R, I)
    BY <2>2, SteadyTame, SameFramesSelf DEF SameStream
  <2>5. Tame(u, update_recv_connection_window_size(u, 0), R, I)
    BY <2>1, <2>2, UpdateConnectionTame
  <2> QED
    BY <2>3, <2>4, <2>5, TameTwice
<1>2. CASE f.id # 0 /\ ~Active(s, f.id)
  BY <1>2, TameSelf DEF window_update_sent
<1>3. CASE f.id # 0 /\ Active(s, f.id)
  <2> DEFINE id == f.id
             a == [s.streams[id] EXCEPT !.window_update_queued = FALSE]
             u == [s EXCEPT !.streams[id] = a]
             t == update_recv_stream_window_size(u, id, 0, TRUE)
  <2>1. id \in StreamIds
    BY <1>0, <1>3
  <2>2. /\ a \in StreamType /\ SameLife(s.streams[id], a) /\ a.item = s.streams[id].item
    <3>1. s.streams[id] \in StreamType
      BY <2>1, StreamTypes
    <3> QED
      BY <3>1 DEF StreamType, SameLife
  <2>3. window_update_sent(s, f) \in {u, t}
    BY <1>3 DEF window_update_sent
  <2> HIDE DEF a
  <2>4. u \in SessionType(srv)
    BY <2>1, <2>2, StreamChanged DEF SameLife
  <2>5. Tame(s, u, R, I)
    BY <2>1, <2>2, StreamTame DEF SameLife
  <2> HIDE DEF u
  <2>6. Tame(u, t, R, I)
    BY <2>1, <2>4, UpdateStreamTame
  <2> HIDE DEF t
  <2> QED
    BY <2>3, <2>5, <2>6, TameTwice
<1> QED
  BY <1>0, <1>1, <1>2, <1>3

LEMMA ItemTame ==
    ASSUME NEW srv \in BOOLEAN, NEW s \in SessionType(srv), NEW id \in StreamIds, NEW R, NEW I
    PROVE  /\ Tame(s, detach_item(s, id), R, I) /\ Dry(s, detach_item(s, id))
           /\ Tame(s, defer_item(s, id), R, I) /\ Dry(s, defer_item(s, id))
<1> DEFINE a == [s.streams[id] EXCEPT !.item = NoItem, !.deferred = FALSE]
           b == [s.streams[id] EXCEPT !.deferred = TRUE]
<1>1. s.streams[id] \in StreamType
  BY StreamTypes
<1>2. /\ a.state = s.streams[id].state /\ b.state = s.streams[id].state
      /\ a.shut = s.streams[id].shut /\ b.shut = s.streams[id].shut
      /\ a.item = NoItem /\ b.item = s.streams[id].item
      /\ a.recv_window_size = s.streams[id].recv_window_size
      /\ b.recv_window_size = s.streams[id].recv_window_size
  BY <1>1 DEF StreamType, NoItem
<1>3. /\ detach_item(s, id) = [s EXCEPT !.streams[id] = a]
      /\ defer_item(s, id) = [s EXCEPT !.streams[id] = b]
  BY DEF detach_item, defer_item, SessionType
<1> HIDE DEF a, b
<1> QED
  BY <1>2, <1>3, StreamTame

-----------------------------------------------------------------------------
(***************************************************************************)
(* DATA and the windows and settings of the peer.                          *)
(***************************************************************************)
LEMMA DataSentTame ==
    ASSUME NEW srv \in BOOLEAN, NEW s \in SessionType(srv), NEW id \in StreamIds,
           s.streams[id].item # NoItem, Active(s, id) => "RD" \in s.streams[id].shut,
           NEW f, f = NextData(s, id), f.length > 0, NEW R, NEW I
    PROVE  /\ Tame(s, data_sent(s, f), R, I) /\ Dry(s, data_sent(s, f))
           /\ f.end => ~Active(data_sent(s, f), id)
<1> DEFINE stream == s.streams[id]
           n == f.length
           a == [stream EXCEPT !.remote_window_size = stream.remote_window_size - n,
                               !.item = stream.item - n]
           t == [s EXCEPT !.remote_window_size = s.remote_window_size - n,
                          !.streams[id] = a]
<1>1. stream \in StreamType /\ s.remote_window_size \in Int
      /\ stream.remote_window_size \in Int /\ stream.item \in Nat
  BY FieldTypes, StreamTypes
<1>2. f.id = id /\ n \in Nat /\ n <= stream.item /\ n <= s.remote_window_size
  <2> DEFINE m == Min2(Min2(stream.item, MaxFrameSize),
                       Min2(stream.remote_window_size, s.remote_window_size))
  <2>1. f = [type |-> "DATA", id |-> id, length |-> m, end |-> m = stream.item]
    BY DEF NextData, Data
  <2>2. m \in Int /\ m <= stream.item /\ m <= s.remote_window_size
    BY <1>1, SizeAssumption DEF Min2
  <2>3. f.length > 0
    OBVIOUS
  <2> HIDE DEF m
  <2>4. f.length = m /\ f.id = id
    BY <2>1
  <2> QED
    BY <2>2, <2>3, <2>4
<1>3. stream.item - n \in Nat /\ stream.remote_window_size - n \in Int
      /\ s.remote_window_size - n >= 0 /\ s.remote_window_size - n \in Int
  BY <1>1, <1>2
<1>4. a \in StreamType /\ SameLife(stream, a) /\ a.recv_window_size = stream.recv_window_size
  <2>1. a \in StreamType /\ SameLife(stream, a)
    BY <1>1, <1>3, WindowFields, WindowFieldsOnly, Zenon
  <2> QED
    BY <1>1, <2>1 DEF StreamType
<1>5. data_sent(s, f) = IF f.end THEN shutdown(t, id, "WR") ELSE t
  <2>1. t = [s EXCEPT !.remote_window_size = @ - n,
                      !.streams[id].remote_window_size = @ - n,
                      !.streams[id].item = @ - n]
    <3> DEFINE b == [stream EXCEPT !.remote_window_size = @ - n, !.item = @ - n]
               v == [s EXCEPT !.remote_window_size = @ - n, !.streams[id] = b]
    <3>1. b = a
      BY <1>1 DEF StreamType
    <3>2. v = t
      <4> HIDE DEF a, b
      <4> QED
        BY <3>1
    <3>3. v = [s EXCEPT !.remote_window_size = @ - n,
                        !.streams[id].remote_window_size = @ - n,
                        !.streams[id].item = @ - n]
      BY <1>1, FieldTypes, ZenonT(40) DEF SessionType
    <3> QED
      BY <3>2, <3>3
  <2> HIDE DEF t
  <2> QED
    BY <1>2, <2>1 DEF data_sent
<1> HIDE DEF a
<1>6. /\ t \in SessionType(srv)
      /\ Steady(s, t) /\ t.remote_window_size = s.remote_window_size - n
      /\ t.ob_reg = s.ob_reg /\ t.ob_syn = s.ob_syn
      /\ t.streams = [s.streams EXCEPT ![id] = a]
      /\ t.recv_window_size = s.recv_window_size
  BY <1>1, <1>3, <1>4 DEF SessionType, Steady, SameSettings
<1> HIDE DEF t
<1>7. \A k \in StreamIds : t.streams[k] = IF k = id THEN a ELSE s.streams[k]
  BY <1>6, FieldTypes
<1>8. \A k \in StreamIds : SameStream(s, t, I, k)
  BY <1>4, <1>7 DEF SameStream, SameLife
<1>9. Tame(s, t, R, I) /\ Dry(s, t)
  <2>1. Tame(s, t, R, I)
    BY <1>3, <1>6, <1>8, SteadyTame, SameFramesSelf
  <2>2. Dry(s, t)
    BY <1>4, <1>6, <1>7 DEF Dry, NoRecv
  <2> QED
    BY <2>1, <2>2
<1>10. CASE f.end
  <2>1. Active(t, id) => "RD" \in t.streams[id].shut
    BY <1>4, <1>7 DEF SameLife, Active
  <2>2. {"WR", "RD"} = {"RD", "WR"}
    OBVIOUS
  <2>3. /\ Tame(t, shutdown(t, id, "WR"), R, I) /\ Dry(t, shutdown(t, id, "WR"))
        /\ ~Active(shutdown(t, id, "WR"), id)
    BY <1>6, <2>1, <2>2, ShutdownTame
  <2>4. data_sent(s, f) = shutdown(t, id, "WR")
    BY <1>5, <1>10
  <2> QED
    BY <1>9, <2>3, <2>4, TameTwice, DryTwice
<1>11. CASE ~f.end
  BY <1>5, <1>9, <1>11
<1> QED
  BY <1>10, <1>11

LEMMA WindowUpdateReceivedTame ==
    ASSUME NEW srv \in BOOLEAN, NEW s \in SessionType(srv), NEW f \in Updates,
           f.id # 0 => /\ ~detect_idle_stream(s, f.id)
                       /\ ~(s.streams[f.id].state = "RESERVED" /\ ~is_my_stream_id(s, f.id)),
           NEW R, NEW I
    PROVE  /\ Tame(s, on_window_update_received(s, f), R, I)
           /\ Dry(s, on_window_update_received(s, f))
<1>0. f.increment \in Nat /\ f.id \in StreamIds \cup {0}
  BY DEF Updates
<1>1. CASE f.id = 0
  <2> DEFINE n == s.remote_window_size + f.increment
             t == [s EXCEPT !.remote_window_size = n]
  <2>1. s.remote_window_size >= 0 => n >= 0
    BY <1>0, FieldTypes
  <2>2. t = on_window_update_received(s, f)
    BY <1>1 DEF on_window_update_received
  <2> HIDE DEF n
  <2>3. /\ Steady(s, t) /\ t.remote_window_size = n
        /\ t.ob_reg = s.ob_reg /\ t.ob_syn = s.ob_syn /\ t.streams = s.streams
        /\ t.recv_window_size = s.recv_window_size
    BY DEF SessionType, Steady, SameSettings
  <2> HIDE DEF t
  <2>4. Tame(s, t, R, I)
    BY <2>1, <2>3, SteadyTame, SameFramesSelf DEF SameStream
  <2>5. Dry(s, t)
    BY <2>3 DEF Dry, NoRecv
  <2> QED
    BY <2>2, <2>4, <2>5
<1>2. CASE f.id # 0
  <2> DEFINE n == s.streams[f.id].remote_window_size + f.increment
             d == s.streams[f.id].deferred /\ n <= 0
             a == [s.streams[f.id] EXCEPT !.remote_window_size = n, !.deferred = d]
             t == [s EXCEPT !.streams[f.id].remote_window_size = @ + f.increment,
                            !.streams[f.id].deferred = @ /\ n <= 0]
  <2>1. f.id \in StreamIds
    BY <1>0, <1>2
  <2>3. on_window_update_received(s, f) \in {s, t}
    BY <1>2 DEF on_window_update_received
  <2>4. t = [s EXCEPT !.streams[f.id] = a]
    BY <2>1, FieldTypes, ZenonT(40) DEF SessionType
  <2> HIDE DEF n, d, t
  <2>5. /\ a.state = s.streams[f.id].state /\ a.shut = s.streams[f.id].shut
        /\ a.item = s.streams[f.id].item
        /\ a.recv_window_size = s.streams[f.id].recv_window_size
    <3>1. s.streams[f.id] \in StreamType
      BY <2>1, StreamTypes
    <3> QED
      BY <3>1 DEF StreamType
  <2> HIDE DEF a
  <2> QED
    BY <2>1, <2>3, <2>4, <2>5, StreamTame, TameSelf
<1> QED
  BY <1>1, <1>2

\* Two sessions that differ in the queue of the frames about settings only.
ButUrgent(s, t) ==
    /\ t.server = s.server
    /\ t.goaway_flags = s.goaway_flags
    /\ t.remote_last_stream_id = s.remote_last_stream_id
    /\ t.next_stream_id = s.next_stream_id
    /\ t.last_sent_stream_id = s.last_sent_stream_id
    /\ t.last_recv_stream_id = s.last_recv_stream_id
    /\ t.last_proc_stream_id = s.last_proc_stream_id
    /\ t.local_last_stream_id = s.local_last_stream_id
    /\ t.local_window_size = s.local_window_size
    /\ t.remote_window_size = s.remote_window_size
    /\ t.ob_reg = s.ob_reg /\ t.ob_syn = s.ob_syn /\ t.streams = s.streams
    /\ t.recv_window_size = s.recv_window_size
    /\ t.inflight_settings = s.inflight_settings /\ t.local_max = s.local_max

LEMMA UrgentMild ==
    ASSUME NEW s, NEW t, NEW R, NEW I, ButUrgent(s, t)
    PROVE  /\ Mild(s, t, R, I) /\ Dry(s, t)
           /\ t.inflight_settings = s.inflight_settings /\ t.local_max = s.local_max
<1>1. Mild(s, t, R, I)
  BY SameFramesSelf DEF Mild, SameStream, ButUrgent
<1>2. Dry(s, t)
  BY DEF Dry, NoRecv, ButUrgent
<1> QED
  BY <1>1, <1>2 DEF ButUrgent

\* The streams change in their windows.
LEMMA StreamsTame ==
    ASSUME NEW srv \in BOOLEAN, NEW s \in SessionType(srv), NEW t, NEW S, Steady(s, t),
           t.remote_window_size = s.remote_window_size,
           t.ob_reg = s.ob_reg, t.ob_syn = s.ob_syn,
           t.recv_window_size = s.recv_window_size, t.streams = S,
           \A id \in StreamIds :
              /\ SameLife(s.streams[id], S[id]) /\ S[id].item = s.streams[id].item
              /\ S[id].recv_window_size \in {s.streams[id].recv_window_size, 0},
           NEW R, NEW I
    PROVE  Tame(s, t, R, I) /\ Dry(s, t)
<1>1. \A k \in StreamIds : SameStream(s, t, I, k)
  BY DEF SameStream, SameLife
<1>2. Tame(s, t, R, I)
  BY <1>1, SteadyTame, SameFramesSelf
<1>3. Dry(s, t)
  BY DEF Dry, NoRecv
<1> QED
  BY <1>2, <1>3

LEMMA SettingsReceivedMild ==
    ASSUME NEW srv \in BOOLEAN, NEW s \in SessionType(srv), NEW f \in SettingsFrames,
           NEW R, NEW I
    PROVE  LET t == on_settings_received(s, f) IN
           /\ Mild(s, t, R, I) /\ Dry(s, t)
           /\ t.inflight_settings = s.inflight_settings /\ t.local_max = s.local_max
           /\ t.ob_urgent \in {s.ob_urgent, Append(s.ob_urgent, SettingsAck)}
<1> DEFINE change == IF f.window = Unchanged THEN 0 ELSE f.window - s.remote_initial_window
           moved(stream) == [stream EXCEPT !.remote_window_size = @ + change,
                                           !.deferred = @ /\ stream.remote_window_size + change <= 0]
           S == [id \in StreamIds |-> IF Active(s, id) THEN moved(s.streams[id]) ELSE s.streams[id]]
           w == s.remote_initial_window + change
           m == IF f.max = Unchanged THEN s.remote_max ELSE f.max
           u == [s EXCEPT !.streams = S]
           t == [u EXCEPT !.remote_initial_window = w, !.remote_max = m]
           r == Append(t.ob_urgent, SettingsAck)
           e == [t EXCEPT !.ob_urgent = r]
<1>1. f.window \in Int /\ f.max \in Int
  BY DEF SettingsFrames
<1>2. change \in Int /\ w \in Int /\ m \in Int
  BY <1>1, FieldTypes DEF Unchanged
<1>3. on_settings_received(s, f) \in {t, e}
  <2>1. on_settings_received(s, f) \in {t, Enqueue(t, "ob_urgent", SettingsAck)}
    BY DEF on_settings_received, SessionType
  <2> HIDE DEF t
  <2>2. Enqueue(t, "ob_urgent", SettingsAck) = e
    BY DEF Enqueue
  <2> QED
    BY <2>1, <2>2
<1> HIDE DEF change, w, m
<1>4. \A id \in StreamIds :
        /\ S[id] \in StreamType
        /\ SameLife(s.streams[id], S[id]) /\ S[id].item = s.streams[id].item
        /\ S[id].recv_window_size = s.streams[id].recv_window_size
  <2> SUFFICES ASSUME NEW id \in StreamIds
               PROVE  /\ S[id] \in StreamType
                      /\ SameLife(s.streams[id], S[id]) /\ S[id].item = s.streams[id].item
                      /\ S[id].recv_window_size = s.streams[id].recv_window_size
    OBVIOUS
  <2> DEFINE i == s.streams[id].remote_window_size + change
             d == s.streams[id].deferred /\ i <= 0
             a == [s.streams[id] EXCEPT !.remote_window_size = i, !.deferred = d]
  <2>1. i \in Int /\ d \in BOOLEAN
    BY <1>2, StreamTypes
  <2>2. S[id] = IF Active(s, id) THEN a ELSE s.streams[id]
    OBVIOUS
  <2> HIDE DEF S, i, d
  <2>3. /\ a \in StreamType /\ SameLife(s.streams[id], a) /\ a.item = s.streams[id].item
        /\ a.recv_window_size = s.streams[id].recv_window_size
    <3>1. a \in StreamType /\ SameLife(s.streams[id], a)
      BY <2>1, StreamTypes, WindowFields, WindowFieldsOnly, Zenon
    <3>2. s.streams[id] \in StreamType
      BY StreamTypes
    <3> QED
      BY <3>1, <3>2 DEF StreamType
  <2>4. SameLife(s.streams[id], s.streams[id])
    BY DEF SameLife
  <2> HIDE DEF a
  <2> QED
    BY <2>2, <2>3, <2>4, StreamTypes
<1>5. S \in [StreamIds -> StreamType]
  BY <1>4
<1>6. u = [s EXCEPT !.streams = S]
  OBVIOUS
<1> HIDE DEF S
<1>7. t \in SessionType(srv)
  BY <1>2, <1>5 DEF SessionType
<1>8. /\ Steady(s, t) /\ t.remote_window_size = s.remote_window_size
      /\ t.ob_reg = s.ob_reg /\ t.ob_syn = s.ob_syn
      /\ t.streams = S /\ t.recv_window_size = s.recv_window_size
  BY DEF SessionType, Steady, SameSettings
<1> HIDE DEF t
<1>9. Tame(s, t, R, I) /\ Dry(s, t)
  BY <1>4, <1>8, StreamsTame
<1>10. /\ Mild(t, e, R, I) /\ Dry(t, e) /\ e.ob_urgent = r
       /\ e.inflight_settings = t.inflight_settings /\ e.local_max = t.local_max
  <2>1. ButUrgent(t, e) /\ e.ob_urgent = r
    BY <1>7 DEF SessionType, ButUrgent
  <2> QED
    BY <2>1, UrgentMild
<1> HIDE DEF e
<1> QED
  BY <1>3, <1>9, <1>10, MildTwice, DryTwice DEF Tame, SameSettings

\* Updates are queued behind what is there.
LEMMA MoreUpdates ==
    ASSUME NEW srv \in BOOLEAN, NEW s \in SessionType(srv), NEW t,
           NEW q \in Seq(Updates), t.ob_reg = s.ob_reg \o q
    PROVE  SameFrames(s, t)
<1> DEFINE p == s.ob_reg
           r == t.ob_reg
<1>1. p \in Seq(Regular(srv)) /\ Regular(srv) \subseteq AllFrames
  BY FieldTypes DEF Regular, Frames, AllFrames
<1>2. /\ Len(p) \in Nat /\ Len(r) = Len(p) + Len(q) /\ Len(q) \in Nat
      /\ \A i \in 1 .. Len(r) : \/ i \in 1 .. Len(p) /\ r[i] = p[i]
                                \/ i > Len(p) /\ r[i] = q[i - Len(p)] /\ i - Len(p) \in 1 .. Len(q)
      /\ \A i \in 1 .. Len(p) : r[i] = p[i] /\ i \in 1 .. Len(r)
      /\ \A i \in 1 .. Len(q) : q[i] \in Updates
      /\ \A i \in 1 .. Len(p) : p[i] \in Regular(srv)
  BY <1>1
<1>3. \A f \in Updates : f.type = "WINDOW_UPDATE" /\ f \in AllFrames
  BY DEF Updates, AllFrames, Frames, Regular
<1> HIDE DEF p, r
<1>4. \A f \in Members(r) : f.type = "WINDOW_UPDATE" \/ f \in Members(p)
  BY <1>2, <1>3 DEF Members
<1>5. \A f \in Members(p) : f \in Members(r)
  BY <1>2 DEF Members
<1>6. Apart(p, Descends) => Apart(r, Descends)
  <2> SUFFICES ASSUME Apart(p, Descends), NEW i \in 1 .. Len(r), NEW j \in 1 .. i - 1,
                      <<r[j], r[i]>> \in Descends
               PROVE  FALSE
    BY DEF Apart
  <2>1. j \in 1 .. Len(r)
    BY <1>2
  <2>2. \A k \in 1 .. Len(r) : r[k] \in AllFrames
    BY <1>1, <1>2, <1>3
  <2>3. r[i].type = "HEADERS" /\ r[j].type = "HEADERS"
    BY <2>1, <2>2, DescendsIff
  <2>4. i \in 1 .. Len(p) /\ r[i] = p[i]
    BY <1>2, <1>3, <2>3
  <2>5. j \in 1 .. Len(p) /\ r[j] = p[j]
    BY <1>2, <1>3, <2>1, <2>3
  <2> QED
    BY <2>4, <2>5 DEF Apart
<1> QED
  BY <1>4, <1>5, <1>6 DEF SameFrames, p, r

LEMMA LocalSettingsMild ==
    ASSUME NEW srv \in BOOLEAN, NEW s \in SessionType(srv), NEW f \in SettingsFrames,
           NEW R, NEW I
    PROVE  LET t == update_local_settings(s, f) IN
           /\ Mild(s, t, R, I)
           /\ f.window = Unchanged => Dry(s, t)
           /\ t.ob_urgent = s.ob_urgent /\ t.inflight_settings = s.inflight_settings
           /\ t.local_max = IF f.max = Unchanged THEN s.local_max ELSE f.max
<1> DEFINE change == IF f.window = Unchanged THEN 0 ELSE f.window - s.local_initial_window
           updates == {id \in ActiveStreams(s) :
                         /\ f.window # Unchanged
                         /\ ~s.streams[id].window_update_queued
                         /\ should_send_window_update(
                              s.streams[id].local_window_size + change,
                              s.streams[id].recv_window_size)}
           ids == Ascending(updates)
           moved(id) == [s.streams[id] EXCEPT
                           !.local_window_size = @ + change,
                           !.window_update_queued = @ \/ id \in updates,
                           !.recv_window_size = IF id \in updates THEN 0 ELSE @]
           S == [id \in StreamIds |-> IF Active(s, id) THEN moved(id) ELSE s.streams[id]]
           q == [i \in DOMAIN ids |-> WindowUpdate(ids[i], s.streams[ids[i]].recv_window_size)]
           r == s.ob_reg \o q
           w == s.local_initial_window + change
           m == IF f.max = Unchanged THEN s.local_max ELSE f.max
           u == [s EXCEPT !.streams = S]
           t == [u EXCEPT !.ob_reg = r, !.local_initial_window = w, !.local_max = m]
<1>1. change \in Int /\ w \in Int /\ m \in Int
  <2>1. f.window \in Int /\ f.max \in Int
    BY DEF SettingsFrames
  <2> QED
    BY <2>1, FieldTypes DEF Unchanged
<1>2. /\ ids \in Seq(StreamIds)
      /\ f.window = Unchanged => Len(ids) = 0
  <2>1. updates \in SUBSET StreamIds /\ (f.window = Unchanged => updates = {})
    BY DEF ActiveStreams
  <2> HIDE DEF updates
  <2>2. Ascending(updates) \in Seq(updates) /\ Len(Ascending(updates)) = Cardinality(updates)
    BY <2>1, AscendingType
  <2> QED
    BY <2>1, <2>2, FS_EmptySet
<1>3. update_local_settings(s, f) = t
  BY DEF update_local_settings, SessionType
<1>4. \A id \in StreamIds :
        /\ SameLife(s.streams[id], S[id]) /\ S[id].item = s.streams[id].item
        /\ S[id].recv_window_size \in {s.streams[id].recv_window_size, 0}
  <2> SUFFICES ASSUME NEW id \in StreamIds
               PROVE  /\ SameLife(s.streams[id], S[id]) /\ S[id].item = s.streams[id].item
                      /\ S[id].recv_window_size \in {s.streams[id].recv_window_size, 0}
    OBVIOUS
  <2> DEFINE i == s.streams[id].local_window_size + change
             b == s.streams[id].window_update_queued \/ id \in updates
             n == IF id \in updates THEN 0 ELSE s.streams[id].recv_window_size
             a == [s.streams[id] EXCEPT !.local_window_size = i, !.window_update_queued = b,
                                        !.recv_window_size = n]
  <2>1. n \in {s.streams[id].recv_window_size, 0}
    <3> HIDE DEF change, updates
    <3> QED
      OBVIOUS
  <2>2. S[id] = IF Active(s, id) THEN a ELSE s.streams[id]
    OBVIOUS
  <2> HIDE DEF S, i, b, n
  <2>3. /\ SameLife(s.streams[id], a) /\ a.item = s.streams[id].item
        /\ a.recv_window_size = n
    <3>1. s.streams[id] \in StreamType
      BY StreamTypes
    <3> QED
      BY <3>1 DEF StreamType, SameLife
  <2>4. SameLife(s.streams[id], s.streams[id])
    BY DEF SameLife
  <2> HIDE DEF a
  <2> QED
    BY <2>1, <2>2, <2>3, <2>4
<1>5. q \in Seq(Updates) /\ (f.window = Unchanged => q = <<>>)
  <2> HIDE DEF ids
  <2>1. \A i \in DOMAIN ids : ids[i] \in StreamIds
    BY <1>2
  <2>2. \A i \in DOMAIN ids : q[i] \in Updates
    BY <2>1, StreamTypes DEF WindowUpdate, Updates
  <2>3. DOMAIN q = 1 .. Len(ids) /\ DOMAIN ids = 1 .. Len(ids) /\ Len(ids) \in Nat
    BY <1>2
  <2>4. q = [i \in 1 .. Len(ids) |-> q[i]]
    BY <2>3
  <2> HIDE DEF q
  <2>5. q \in [1 .. Len(ids) -> Updates]
    BY <2>2, <2>3, <2>4
  <2>6. q \in Seq(Updates) /\ Len(q) = Len(ids)
    BY <2>3, <2>5
  <2> QED
    BY <1>2, <2>6
<1>6. r = s.ob_reg \o q
  OBVIOUS
<1> HIDE DEF change, updates, ids, S, q, r, w
<1>7. /\ Steady(s, u) /\ u.remote_window_size = s.remote_window_size
      /\ u.ob_reg = s.ob_reg /\ u.ob_syn = s.ob_syn
      /\ u.streams = S /\ u.recv_window_size = s.recv_window_size
  BY DEF SessionType, Steady, SameSettings
<1>8. Tame(s, u, R, I) /\ Dry(s, u)
  <2> HIDE DEF u
  <2> QED
    BY <1>4, <1>7, StreamsTame
<1>9. /\ t.server = u.server
      /\ t.goaway_flags = u.goaway_flags
      /\ t.remote_last_stream_id = u.remote_last_stream_id
      /\ t.next_stream_id = u.next_stream_id
      /\ t.last_sent_stream_id = u.last_sent_stream_id
      /\ t.last_recv_stream_id = u.last_recv_stream_id
      /\ t.last_proc_stream_id = u.last_proc_stream_id
      /\ t.local_last_stream_id = u.local_last_stream_id
      /\ t.local_window_size = u.local_window_size
      /\ t.remote_window_size = u.remote_window_size
      /\ t.ob_reg = r /\ t.ob_syn = u.ob_syn /\ t.streams = u.streams
      /\ t.recv_window_size = u.recv_window_size
      /\ t.inflight_settings = u.inflight_settings /\ t.local_max = m
      /\ t.ob_urgent = u.ob_urgent
  BY DEF SessionType
<1> HIDE DEF m, t, u
<1>10. SameFrames(s, t)
  BY <1>5, <1>6, <1>9, MoreUpdates
<1>11. Mild(s, t, R, I)
  BY <1>8, <1>9, <1>10 DEF Mild, Tame, SameStream, Active
<1>12. f.window = Unchanged => Dry(s, t)
  <2>1. f.window = Unchanged => r = s.ob_reg
    BY <1>5, <1>6, FieldTypes
  <2> QED
    BY <1>7, <1>8, <1>9, <2>1 DEF Dry, NoRecv
<1> QED
  BY <1>3, <1>7, <1>9, <1>11, <1>12 DEF Steady, SameSettings, m

LEMMA SettingsAckedMild ==
    ASSUME NEW srv \in BOOLEAN, NEW s \in SessionType(srv), s.inflight_settings # <<>>,
           NEW R, NEW I
    PROVE  LET t == on_settings_ack_received(s)
               f == Head(s.inflight_settings) IN
           /\ Mild(s, t, R, I)
           /\ f.window = Unchanged => Dry(s, t)
           /\ t.ob_urgent = s.ob_urgent /\ t.inflight_settings = Tail(s.inflight_settings)
           /\ t.local_max = IF f.max = Unchanged THEN s.local_max ELSE f.max
<1> DEFINE f == Head(s.inflight_settings)
           u == update_local_settings(s, f)
           t == [u EXCEPT !.inflight_settings = Tail(u.inflight_settings)]
<1>1. f \in SettingsFrames
  BY FieldTypes
<1>2. on_settings_ack_received(s) = t
  BY DEF on_settings_ack_received
<1> HIDE DEF f
<1>3. u \in SessionType(srv)
  BY <1>1, LocalSettings
<1>4. /\ Mild(s, u, R, I)
      /\ f.window = Unchanged => Dry(s, u)
      /\ u.ob_urgent = s.ob_urgent /\ u.inflight_settings = s.inflight_settings
      /\ u.local_max = IF f.max = Unchanged THEN s.local_max ELSE f.max
  BY <1>1, LocalSettingsMild
<1> HIDE DEF u
<1>5. /\ t.server = u.server
      /\ t.goaway_flags = u.goaway_flags
      /\ t.remote_last_stream_id = u.remote_last_stream_id
      /\ t.next_stream_id = u.next_stream_id
      /\ t.last_sent_stream_id = u.last_sent_stream_id
      /\ t.last_recv_stream_id = u.last_recv_stream_id
      /\ t.last_proc_stream_id = u.last_proc_stream_id
      /\ t.local_last_stream_id = u.local_last_stream_id
      /\ t.local_window_size = u.local_window_size
      /\ t.remote_window_size = u.remote_window_size
      /\ t.ob_reg = u.ob_reg /\ t.ob_syn = u.ob_syn /\ t.streams = u.streams
      /\ t.recv_window_size = u.recv_window_size
      /\ t.inflight_settings = Tail(u.inflight_settings) /\ t.local_max = u.local_max
      /\ t.ob_urgent = u.ob_urgent
  BY <1>3 DEF SessionType
<1> HIDE DEF t
<1>6. Mild(u, t, R, I) /\ Dry(u, t)
  <2>1. Mild(u, t, R, I)
    BY <1>5, SameFramesSelf DEF Mild, SameStream
  <2>2. Dry(u, t)
    BY <1>5 DEF Dry, NoRecv
  <2> QED
    BY <2>1, <2>2
<1>7. Mild(s, t, R, I) /\ (f.window = Unchanged => Dry(s, t))
  BY <1>4, <1>6, MildTwice, DryTwice
<1> QED
  BY <1>2, <1>4, <1>5, <1>7 DEF f

-----------------------------------------------------------------------------
(***************************************************************************)
(* Which streams a step closes.                                            *)
(***************************************************************************)
OnlyCloses(s, t, X) == \A k \in StreamIds : Active(s, k) /\ ~Active(t, k) => k \in X

LEMMA ClosesTwice ==
    ASSUME NEW s, NEW t, NEW u, NEW X, NEW Y, OnlyCloses(s, t, X), OnlyCloses(t, u, Y)
    PROVE  OnlyCloses(s, u, X \cup Y)
BY DEF OnlyCloses

LEMMA CalmCloses ==
    ASSUME NEW s, NEW t, Calm(s, t)
    PROVE  OnlyCloses(s, t, {})
BY DEF Calm, OnlyCloses, Active

LEMMA CloseStreamsCloses ==
    ASSUME NEW srv \in BOOLEAN, NEW s \in SessionType(srv), NEW ids
    PROVE  /\ OnlyCloses(s, close_streams(s, ids), ids)
           /\ \A k \in StreamIds : k \in ids => ~Active(close_streams(s, ids), k)
<1> DEFINE t == close_streams(s, ids)
<1>1. t.streams = [id \in StreamIds |-> IF id \in ids /\ Active(s, id)
                                        THEN ClosedStream ELSE s.streams[id]]
  BY DEF SessionType, close_streams
<1>2. ClosedStream.state = "CLOSED"
  BY DEF ClosedStream, NoStream
<1> HIDE DEF t
<1> QED
  BY <1>1, <1>2 DEF OnlyCloses, Active, t

LEMMA ShutdownCloses ==
    ASSUME NEW srv \in BOOLEAN, NEW s \in SessionType(srv), NEW id \in StreamIds,
           NEW dir \in {"RD", "WR"}
    PROVE  OnlyCloses(s, shutdown(s, id, dir), {id})
<1> DEFINE a == [s.streams[id] EXCEPT !.shut = s.streams[id].shut \cup {dir}]
           t == [s EXCEPT !.streams[id] = a]
<1>1. s.streams[id] \in StreamType /\ s.streams[id].shut \subseteq {"RD", "WR"}
  BY StreamTypes
<1>2. /\ a \in StreamType /\ a.state = s.streams[id].state
      /\ a.push = s.streams[id].push /\ s.streams[id].shut \subseteq a.shut
  BY <1>1 DEF StreamType
<1>3. t = [s EXCEPT !.streams[id].shut = @ \cup {dir}]
  BY DEF SessionType
<1> HIDE DEF a
<1>4. t \in SessionType(srv) /\ Calm(s, t)
  BY <1>2, StreamChanged
<1>5. shutdown(s, id, dir) \in {t, close_streams(t, {id})}
  BY <1>3 DEF shutdown, close_stream_if_shut_rdwr, close_stream
<1> HIDE DEF t
<1>6. OnlyCloses(s, t, {}) /\ OnlyCloses(t, close_streams(t, {id}), {id})
  BY <1>4, CalmCloses, CloseStreamsCloses
<1> QED
  BY <1>5, <1>6 DEF OnlyCloses

\* One stream goes on.
LEMMA OneStreamTame ==
    ASSUME NEW srv \in BOOLEAN, NEW s \in SessionType(srv), NEW t, NEW id \in StreamIds,
           NEW a, NEW R, NEW I,
           Steady(s, t), t.remote_window_size = s.remote_window_size,
           t.ob_reg = s.ob_reg, t.ob_syn = s.ob_syn,
           t.recv_window_size = s.recv_window_size,
           \A k \in StreamIds : t.streams[k] = IF k = id THEN a ELSE s.streams[k],
           a.state = "OPENED", Active(s, id), a.shut = s.streams[id].shut,
           a.recv_window_size = s.streams[id].recv_window_size,
           a.item # NoItem => s.streams[id].item # NoItem \/ id \in I
    PROVE  Tame(s, t, R, I) /\ Dry(s, t) /\ OnlyCloses(s, t, {})
<1>1. \A k \in StreamIds : t.streams[k] = IF k = id THEN a ELSE s.streams[k]
  OBVIOUS
<1>2. \A k \in StreamIds : SameStream(s, t, I, k)
  BY <1>1 DEF SameStream
<1>3. Tame(s, t, R, I)
  BY <1>2, SteadyTame, SameFramesSelf
<1>4. Dry(s, t)
  BY <1>1 DEF Dry, NoRecv
<1>5. OnlyCloses(s, t, {})
  BY <1>1 DEF OnlyCloses, Active
<1> QED
  BY <1>3, <1>4, <1>5

\* A response without a body ends the stream at once.
LEMMA ResponseSentTame ==
    ASSUME NEW srv \in BOOLEAN, NEW s \in SessionType(srv), NEW f \in Responses, MaySend(s, f),
           "RD" \in s.streams[f.id].shut, NEW I, f.size # 0 => f.id \in I, NEW R
    PROVE  /\ Tame(s, headers_sent(s, f), R, I) /\ Dry(s, headers_sent(s, f))
           /\ f.size = 0 => ~Active(headers_sent(s, f), f.id)
<1>2. /\ f.id \in StreamIds /\ f.id \in Nat /\ f.size \in Nat
      /\ f.cat = "HEADERS" /\ f.type = "HEADERS"
  BY IdsFinite DEF Responses
<1>3. Active(s, f.id)
  BY <1>2 DEF MaySend, predicate_for_stream_send
<1> DEFINE push == s.streams[f.id].push
           a == [s.streams[f.id] EXCEPT !.state = "OPENED", !.push = FALSE]
           n == IF push THEN s.num_outgoing_streams + 1 ELSE s.num_outgoing_streams
           u == [s EXCEPT !.streams[f.id] = a, !.num_outgoing_streams = n,
                          !.last_sent_stream_id = s.last_sent_stream_id]
           t == [s EXCEPT !.streams[f.id].state = "OPENED",
                          !.streams[f.id].push = FALSE,
                          !.num_outgoing_streams = n,
                          !.last_sent_stream_id = s.last_sent_stream_id]
<1>4. s.streams[f.id] \in StreamType /\ s.num_outgoing_streams \in Int
  BY <1>2, StreamTypes, FieldTypes
<1>5. /\ a \in StreamType /\ a.state = "OPENED" /\ a.shut = s.streams[f.id].shut
      /\ a.item = s.streams[f.id].item
      /\ a.recv_window_size = s.streams[f.id].recv_window_size
  BY <1>4 DEF StreamType
<1>6. n \in Int
  BY <1>4
<1>7. u = t
  BY <1>2, FieldTypes, ZenonT(40) DEF SessionType
<1>8. headers_sent(s, f) = IF f.size = 0 THEN shutdown(t, f.id, "WR")
                           ELSE [t EXCEPT !.streams[f.id].item = f.size]
  BY <1>2 DEF headers_sent
<1> HIDE DEF a, n, t
<1>9. /\ Steady(s, u) /\ u.remote_window_size = s.remote_window_size
      /\ u.ob_reg = s.ob_reg /\ u.ob_syn = s.ob_syn
      /\ u.streams = [s.streams EXCEPT ![f.id] = a]
      /\ u.recv_window_size = s.recv_window_size
  BY DEF SessionType, Steady, SameSettings
<1>10. u \in SessionType(srv)
  BY <1>2, <1>4, <1>5, <1>6 DEF SessionType
<1> HIDE DEF u
<1>11. /\ Tame(s, u, R, I) /\ Dry(s, u)
       /\ \A k \in StreamIds : u.streams[k] = IF k = f.id THEN a ELSE s.streams[k]
  <2> DEFINE id == f.id
  <2>1. id \in StreamIds
    BY <1>2
  <2>2. /\ a.state = "OPENED" /\ Active(s, id) /\ a.shut = s.streams[id].shut
        /\ a.recv_window_size = s.streams[id].recv_window_size
        /\ a.item # NoItem => s.streams[id].item # NoItem \/ id \in I
    BY <1>3, <1>5
  <2>3. \A k \in StreamIds : u.streams[k] = IF k = id THEN a ELSE s.streams[k]
    BY <1>9, FieldTypes
  <2> HIDE DEF id
  <2>4. Tame(s, u, R, I) /\ Dry(s, u)
    BY <1>9, <2>1, <2>2, <2>3, OneStreamTame
  <2> QED
    BY <2>3, <2>4 DEF id
<1>12. CASE f.size = 0
  <2>1. Active(u, f.id) => "RD" \in u.streams[f.id].shut
    BY <1>2, <1>5, <1>11
  <2>2. {"WR", "RD"} = {"RD", "WR"}
    OBVIOUS
  <2>3. /\ Tame(u, shutdown(u, f.id, "WR"), R, I) /\ Dry(u, shutdown(u, f.id, "WR"))
        /\ ~Active(shutdown(u, f.id, "WR"), f.id)
    BY <1>2, <1>10, <2>1, <2>2, ShutdownTame
  <2>4. headers_sent(s, f) = shutdown(u, f.id, "WR")
    BY <1>7, <1>8, <1>12
  <2> QED
    BY <1>11, <2>3, <2>4, TameTwice, DryTwice
<1>13. CASE f.size # 0
  <2> DEFINE b == [u.streams[f.id] EXCEPT !.item = f.size]
             e == [u EXCEPT !.streams[f.id] = b]
  <2>1. headers_sent(s, f) = e
    <3>1. e = [u EXCEPT !.streams[f.id].item = f.size]
      BY <1>2, <1>10 DEF SessionType
    <3> HIDE DEF e
    <3> QED
      BY <1>7, <1>8, <1>13, <3>1
  <2>2. /\ b.state = u.streams[f.id].state /\ b.shut = u.streams[f.id].shut
        /\ b.recv_window_size = u.streams[f.id].recv_window_size
    <3>1. u.streams[f.id] \in StreamType
      BY <1>2, <1>10, StreamTypes
    <3> QED
      BY <3>1 DEF StreamType
  <2>3. b.item # NoItem => u.streams[f.id].item # NoItem \/ f.id \in I
    BY <1>13
  <2> HIDE DEF b
  <2>4. Tame(u, e, R, I) /\ Dry(u, e)
    BY <1>2, <1>10, <2>2, <2>3, StreamTame
  <2> HIDE DEF e
  <2> QED
    BY <1>11, <1>13, <2>1, <2>4, TameTwice, DryTwice
<1> QED
  BY <1>2, <1>12, <1>13

\* END_STREAM of a side whose other half is shut ends the stream.
LEMMA HeadersEndTame ==
    ASSUME NEW srv \in BOOLEAN, NEW s \in SessionType(srv), NEW f, f.id \in StreamIds,
           Active(s, f.id) => "WR" \in s.streams[f.id].shut, NEW R, NEW I
    PROVE  /\ Tame(s, end_stream_headers(s, f), R, I)
           /\ OnlyCloses(s, end_stream_headers(s, f), {k \in {f.id} : f.size = 0})
<1>1. CASE f.size = 0
  <2>1. /\ Tame(s, shutdown(s, f.id, "RD"), R, I)
        /\ OnlyCloses(s, shutdown(s, f.id, "RD"), {f.id})
    BY ShutdownTame, ShutdownCloses
  <2> QED
    BY <1>1, <2>1 DEF end_stream_headers, OnlyCloses
<1>2. CASE f.size # 0
  BY <1>2, TameSelf DEF end_stream_headers, OnlyCloses
<1> QED
  BY <1>1, <1>2

\* What a frame that carries a body, or announces one, finds.
DataAllowed(c, k) ==
    /\ ~detect_idle_stream(c, k)
    /\ Active(c, k) => c.streams[k].state \in {"CLOSING", "OPENED"}

LEMMA DataAllowedStays ==
    ASSUME NEW c, NEW d, NEW R, NEW I, Mild(c, d, R, I), NEW k \in StreamIds, DataAllowed(c, k)
    PROVE  DataAllowed(d, k)
BY DEF Mild, SameStream, DataAllowed, Active, detect_idle_stream, is_my_stream_id

LEMMA HeadersReceivedTame ==
    ASSUME NEW srv \in BOOLEAN, ~srv, NEW s \in SessionType(srv), NEW f, f.id \in StreamIds,
           ~detect_idle_stream(s, f.id), allow_incoming_new_stream(s),
           s.streams[f.id].state # "INITIAL",
           s.streams[f.id].state = "OPENING" => is_my_stream_id(s, f.id),
           s.streams[f.id].state = "RESERVED" => ~incoming_max(s),
           Active(s, f.id) => s.streams[f.id].shut = {"WR"}, NEW R, f.id \in R, NEW I
    PROVE  LET t == process_headers_frame(s, f) IN
           /\ Tame(s, t, R, I)
           /\ OnlyCloses(s, t, {k \in {f.id} : f.size = 0})
           /\ DataAllowed(t, f.id)
<1> DEFINE id == f.id
           a == [s.streams[id] EXCEPT !.state = "OPENED"]
           b == [s.streams[id] EXCEPT !.state = "OPENED", !.push = FALSE]
           n == s.num_incoming_streams + 1
           m == s.num_incoming_reserved_streams - 1
           ta == [s EXCEPT !.streams[id] = a]
           tb == [s EXCEPT !.streams[id] = b, !.num_incoming_reserved_streams = m,
                           !.num_incoming_streams = n]
           E == {k \in {id} : f.size = 0}
<1>1. /\ id \in StreamIds /\ s.streams[id] \in StreamType /\ s.server = srv
      /\ n \in Int /\ m \in Int
      /\ s.streams[id].state \in {"IDLE", "OPENING", "OPENED", "RESERVED", "CLOSING", "CLOSED"}
  BY StreamTypes, FieldTypes
<1>2. \A x \in {a, b} :
         /\ x \in StreamType /\ x.state = "OPENED" /\ x.shut = s.streams[id].shut
         /\ x.item = s.streams[id].item /\ x.recv_window_size = s.streams[id].recv_window_size
  BY <1>1 DEF StreamType
<1>3. /\ ta = [s EXCEPT !.streams[id].state = "OPENED"]
      /\ tb = [s EXCEPT !.streams[id].state = "OPENED", !.streams[id].push = FALSE,
                        !.num_incoming_reserved_streams = @ - 1,
                        !.num_incoming_streams = @ + 1]
  BY <1>1, FieldTypes, ZenonT(40) DEF SessionType
<1> HIDE DEF a, b, n, m
<1>4. \A t \in {ta, tb} :
         /\ t \in SessionType(srv)
         /\ Steady(s, t) /\ t.remote_window_size = s.remote_window_size
         /\ t.ob_reg = s.ob_reg /\ t.ob_syn = s.ob_syn
         /\ t.recv_window_size = s.recv_window_size
  <2>1. ta \in SessionType(srv) /\ tb \in SessionType(srv)
    BY <1>1, <1>2 DEF SessionType
  <2>2. /\ Steady(s, ta) /\ ta.remote_window_size = s.remote_window_size
        /\ ta.ob_reg = s.ob_reg /\ ta.ob_syn = s.ob_syn
        /\ ta.recv_window_size = s.recv_window_size
    BY DEF SessionType, Steady, SameSettings
  <2>3. /\ Steady(s, tb) /\ tb.remote_window_size = s.remote_window_size
        /\ tb.ob_reg = s.ob_reg /\ tb.ob_syn = s.ob_syn
        /\ tb.recv_window_size = s.recv_window_size
    BY DEF SessionType, Steady, SameSettings
  <2> HIDE DEF ta, tb
  <2> QED
    BY <2>1, <2>2, <2>3
<1>5. /\ \A k \in StreamIds : ta.streams[k] = IF k = id THEN a ELSE s.streams[k]
      /\ \A k \in StreamIds : tb.streams[k] = IF k = id THEN b ELSE s.streams[k]
  BY <1>1, FieldTypes DEF SessionType
<1> HIDE DEF ta, tb
<1>6. ASSUME Active(s, id)
      PROVE  \A t \in {ta, tb} : /\ Tame(s, end_stream_headers(t, f), R, I)
                                 /\ OnlyCloses(s, end_stream_headers(t, f), E)
                                 /\ end_stream_headers(t, f).streams[id].state
                                      \in {"OPENED", "CLOSING", "CLOSED"}
  <2>1. Tame(s, ta, R, I) /\ OnlyCloses(s, ta, {})
    BY <1>1, <1>2, <1>4, <1>5, <1>6, OneStreamTame
  <2>2. Tame(s, tb, R, I) /\ OnlyCloses(s, tb, {})
    BY <1>1, <1>2, <1>4, <1>5, <1>6, OneStreamTame
  <2>3. ASSUME NEW t \in {ta, tb}
        PROVE  /\ Tame(t, end_stream_headers(t, f), R, I)
               /\ OnlyCloses(t, end_stream_headers(t, f), E)
               /\ end_stream_headers(t, f).streams[id].state \in {"OPENED", "CLOSING", "CLOSED"}
    <3>1. /\ t.streams[id].shut = s.streams[id].shut /\ t.streams[id].state = "OPENED"
          /\ s.streams[id].shut = {"WR"}
      BY <1>1, <1>2, <1>5, <1>6
    <3>2. Tame(t, end_stream_headers(t, f), R, I) /\ OnlyCloses(t, end_stream_headers(t, f), E)
      BY <1>1, <1>4, <3>1, HeadersEndTame
    <3> QED
      BY <1>1, <3>1, <3>2 DEF Tame, Mild, SameStream
  <2> QED
    BY <2>1, <2>2, <2>3, TameTwice, ClosesTwice DEF OnlyCloses
<1> DEFINE t == process_headers_frame(s, f)
<1>7. \/ t = s /\ (Active(s, id) => s.streams[id].state \in {"OPENED", "CLOSING"})
      \/ t = add_rst_stream(s, id) /\ Active(s, id)
      \/ Active(s, id) /\ \E x \in {ta, tb} : t = end_stream_headers(x, f)
  <2>1. CASE ~Active(s, id)
    BY <1>1, <2>1 DEF process_headers_frame, on_request_headers_received
  <2>2. CASE Active(s, id) /\ s.streams[id].state = "RESERVED"
    BY <1>1, <1>3, <2>2 DEF process_headers_frame, on_push_response_headers_received
  <2>3. CASE Active(s, id) /\ s.streams[id].state = "OPENING"
    BY <1>1, <1>3, <2>3 DEF process_headers_frame, on_response_headers_received
  <2>4. CASE Active(s, id) /\ s.streams[id].state \notin {"RESERVED", "OPENING"}
    BY <1>1, <2>4 DEF process_headers_frame, Active
  <2> QED
    BY <2>1, <2>2, <2>3, <2>4
<1> HIDE DEF t
<1>8. /\ Tame(s, t, R, I) /\ OnlyCloses(s, t, E)
      /\ Active(t, id) => t.streams[id].state \in {"CLOSING", "OPENED"}
  <2>1. CASE t = s /\ (Active(s, id) => s.streams[id].state \in {"OPENED", "CLOSING"})
    BY <2>1, TameSelf DEF OnlyCloses
  <2>2. CASE t = add_rst_stream(s, id) /\ Active(s, id)
    <3>1. Tame(s, t, R, I) /\ OnlyCloses(s, t, {})
      BY <1>1, <2>2, AddRstTame, AddRst, CalmCloses
    <3>2. t.streams[id].state = "CLOSING"
      BY <1>1, <2>2, FieldTypes DEF SessionType, add_rst_stream, Enqueue, StreamType
    <3> QED
      BY <3>1, <3>2 DEF OnlyCloses
  <2>3. CASE Active(s, id) /\ \E x \in {ta, tb} : t = end_stream_headers(x, f)
    BY <1>6, <2>3 DEF Active
  <2> QED
    BY <1>7, <2>1, <2>2, <2>3
<1>9. ~detect_idle_stream(t, id)
  BY <1>8 DEF Tame, Mild, detect_idle_stream, is_my_stream_id
<1> QED
  BY <1>8, <1>9 DEF DataAllowed, t

LEMMA DataReceivedTame ==
    ASSUME NEW srv \in BOOLEAN, NEW s \in SessionType(srv), NEW f \in DataFrames,
           ~data_not_allowed(s, f),
           s.recv_window_size + f.length <= s.local_window_size,
           Active(s, f.id) => "WR" \in s.streams[f.id].shut, NEW R, f.id \in R, NEW I
    PROVE  LET t == on_data_received(s, f) IN
           Tame(s, t, R, I) /\ OnlyCloses(s, t, {k \in {f.id} : f.end})
<1> DEFINE id == f.id
           u == update_recv_connection_window_size(s, f.length)
           v == update_recv_stream_window_size(u, id, f.length, ~f.end)
           t == on_data_received(s, f)
           E == {k \in {id} : f.end}
<1>1. id \in StreamIds /\ f.length \in Nat /\ (~f.end) \in BOOLEAN
  BY DEF DataFrames
<1>2. t = u \/ t = v \/ (f.end /\ t = shutdown(v, id, "RD"))
  BY Zenon DEF on_data_received, ignore_data
<1>3. u \in SessionType(srv) /\ Calm(s, u) /\ Tame(s, u, R, I)
  BY <1>1, UpdateConnection, UpdateConnectionTame
<1> HIDE DEF u
<1>4. v \in SessionType(srv) /\ Calm(u, v) /\ Tame(u, v, R, I)
  BY <1>1, <1>3, UpdateStream, UpdateStreamTame
<1> HIDE DEF v
<1>5. Tame(s, v, R, I)
  BY <1>3, <1>4, TameTwice
<1>6. OnlyCloses(s, u, {}) /\ OnlyCloses(s, v, {})
  BY <1>3, <1>4, CalmCloses DEF OnlyCloses
<1>7. Active(v, id) => "WR" \in v.streams[id].shut
  <2>1. SameStream(s, v, I, id)
    BY <1>1, <1>5 DEF Tame, Mild
  <2> QED
    BY <2>1 DEF SameStream, Active
<1>8. Tame(v, shutdown(v, id, "RD"), R, I) /\ OnlyCloses(v, shutdown(v, id, "RD"), {id})
  BY <1>1, <1>4, <1>7, ShutdownTame, ShutdownCloses
<1>9. Tame(s, shutdown(v, id, "RD"), R, I) /\ OnlyCloses(s, shutdown(v, id, "RD"), {id})
  BY <1>5, <1>6, <1>8, TameTwice DEF OnlyCloses
<1> HIDE DEF t
<1> QED
  BY <1>2, <1>3, <1>5, <1>6, <1>9 DEF OnlyCloses, t

-----------------------------------------------------------------------------
(***************************************************************************)
(* The first frame of a queue is taken.                                    *)
(***************************************************************************)
LEMMA RegularTail ==
    ASSUME NEW srv \in BOOLEAN, NEW s \in SessionType(srv), s.ob_reg # <<>>,
           srv \/ Head(s.ob_reg).type # "HEADERS", NEW R, NEW I
    PROVE  LET t == [s EXCEPT !.ob_reg = Tail(s.ob_reg)] IN
           Tame(s, t, R, I) /\ Dry(s, t)
<1> DEFINE q == Tail(s.ob_reg)
           t == [s EXCEPT !.ob_reg = q]
<1>1. /\ Steady(s, t) /\ t.remote_window_size = s.remote_window_size
      /\ t.ob_reg = q /\ t.ob_syn = s.ob_syn /\ t.streams = s.streams
      /\ t.recv_window_size = s.recv_window_size /\ s.server = srv
  BY DEF SessionType, Steady, SameSettings
<1>2. s.ob_reg \in Seq(AllFrames)
  <2>1. s.ob_reg \in Seq(Regular(srv)) /\ Regular(srv) \subseteq AllFrames
    BY FieldTypes DEF Regular, Frames, AllFrames
  <2> QED
    BY <2>1
<1>3. /\ Members(s.ob_reg) = Members(q) \cup {Head(s.ob_reg)}
      /\ Apart(s.ob_reg, Descends) => Apart(q, Descends)
  BY <1>2, MembersChange, ApartTail
<1> HIDE DEF q, t
<1>4. SameFrames(s, t)
  BY <1>1, <1>3 DEF SameFrames
<1>5. Tame(s, t, R, I)
  BY <1>1, <1>4, SteadyTame DEF SameStream
<1>6. Dry(s, t)
  BY <1>1, <1>3 DEF Dry, NoRecv
<1> QED
  BY <1>5, <1>6 DEF q, t

LEMMA SynTail ==
    ASSUME NEW srv \in BOOLEAN, NEW s \in SessionType(srv), s.ob_syn # <<>>, NEW R, NEW I
    PROVE  LET t == [s EXCEPT !.ob_syn = Tail(s.ob_syn)] IN
           Tame(s, t, R, I) /\ Dry(s, t)
<1>1. Members(s.ob_syn) = Members(Tail(s.ob_syn)) \cup {Head(s.ob_syn)}
  BY FieldTypes, MembersChange
<1> QED
  BY <1>1, ResetsTame

-----------------------------------------------------------------------------
(***************************************************************************)
(* The invariant.  c and s are the sessions of client and server, v and w  *)
(* the frames they have sent.  A client that has flags is ending the       *)
(* session, and then only what keeps the server from an error matters.     *)
(***************************************************************************)
\* Updates and resets of requests the server has seen, or that are behind
\* the request.
KnownRequests(n) ==
    {f \in AllFrames : f.type \in {"RST_STREAM", "WINDOW_UPDATE"} /\ Odd(f.id) => f.id <= n}
Introduces ==
    {p \in AllFrames \X AllFrames :
       /\ p[1].type = "HEADERS" /\ p[2].type \in {"RST_STREAM", "WINDOW_UPDATE"}
       /\ p[2].id <= p[1].id}

\* Frames of pushed streams the client has seen, or that are behind the promise.
KnownPushes(n) ==
    {f \in AllFrames : f.type \in {"HEADERS", "DATA", "RST_STREAM"} /\ ~Odd(f.id) => f.id <= n}
Promised ==
    {p \in AllFrames \X AllFrames :
       /\ p[1].type = "PUSH_PROMISE" /\ p[2].type \in {"HEADERS", "DATA", "RST_STREAM"}
       /\ p[2].id <= p[1].promised}
PushesDescend ==
    {p \in AllFrames \X AllFrames :
       /\ p[1].type = "PUSH_PROMISE" /\ p[2].type = "PUSH_PROMISE"
       /\ p[2].promised <= p[1].promised}

\* DATA the client may get already, or that is behind the HEADERS.
Readable(c) == {f \in AllFrames : f.type = "DATA" => DataAllowed(c, f.id)}
Headed ==
    {p \in AllFrames \X AllFrames :
       p[1].type = "HEADERS" /\ p[2].type = "DATA" /\ p[1].id = p[2].id}

LEMMA RelationsIff ==
    ASSUME NEW g \in AllFrames, NEW f \in AllFrames
    PROVE  /\ <<g, f>> \in Introduces <=>
                /\ g.type = "HEADERS" /\ f.type \in {"RST_STREAM", "WINDOW_UPDATE"}
                /\ f.id <= g.id
           /\ <<g, f>> \in Promised <=>
                /\ g.type = "PUSH_PROMISE" /\ f.type \in {"HEADERS", "DATA", "RST_STREAM"}
                /\ f.id <= g.promised
           /\ <<g, f>> \in PushesDescend <=>
                /\ g.type = "PUSH_PROMISE" /\ f.type = "PUSH_PROMISE"
                /\ f.promised <= g.promised
           /\ <<g, f>> \in Headed <=>
                g.type = "HEADERS" /\ f.type = "DATA" /\ g.id = f.id
BY DEF Introduces, Promised, PushesDescend, Headed

\* A GOAWAY names a stream of the server, or all streams.
LastOK(n) == ~Odd(n) \/ n = Unlimited

\* What the server never does: it ends no session, receives no body, and
\* answers only what is asked in full.
ServerOK(s, w) ==
    /\ s.goaway_flags \subseteq {"RECV"}
    /\ \A f \in Members(s.ob_reg) \cup Members(w) : f.type \notin {"GOAWAY", "WINDOW_UPDATE"}
    /\ NoRecv(s)
    /\ \A k \in StreamIds : Active(s, k) => "RD" \in s.streams[k].shut

GoawaysOK(c) ==
    /\ LastOK(c.last_proc_stream_id) /\ LastOK(c.local_last_stream_id)
    /\ \A f \in Members(c.ob_reg) : f.type = "GOAWAY" => LastOK(f.last)

\* What the server gets is no error.
HeardOK(s, v) ==
    /\ \A f \in Members(v) :
         /\ f.type # "DATA"
         /\ f.type = "HEADERS" => s.last_recv_stream_id < f.id
         /\ f.type \in {"RST_STREAM", "WINDOW_UPDATE"} /\ ~Odd(f.id) =>
              f.id <= s.last_sent_stream_id
         /\ f.type = "GOAWAY" => LastOK(f.last)
    /\ Guarded(v, KnownRequests(s.last_recv_stream_id), Introduces)
    /\ Apart(v, Revives)

\* The requests: those given out are sent or queued in the order of their ids,
\* those sent have arrived or are on their way.
Asked(c) ==
    /\ Apart(c.ob_reg, Descends)
    /\ \A f \in Members(c.ob_reg) : /\ f.type = "HEADERS" => c.last_sent_stream_id < f.id
                                    /\ f.type # "GOAWAY"
    /\ c.last_sent_stream_id < c.next_stream_id
    /\ \A k \in StreamIds : Odd(k) /\ k < c.next_stream_id =>
          \/ k <= c.last_sent_stream_id
          \/ \E f \in Members(c.ob_reg) : f.type = "HEADERS" /\ k <= f.id
    /\ \A k \in StreamIds : Odd(k) /\ ~Idle(c, k) => k <= c.last_sent_stream_id

Underway(c, s, v) ==
    /\ \A f \in Members(v) :
         /\ f.type # "GOAWAY"
         /\ f.type \in {"HEADERS", "RST_STREAM"} /\ Odd(f.id) => f.id <= c.last_sent_stream_id
    /\ s.last_recv_stream_id <= c.last_sent_stream_id
    /\ \/ c.last_sent_stream_id <= s.last_recv_stream_id
       \/ \E f \in Members(v) : f.type = "HEADERS" /\ c.last_sent_stream_id <= f.id
    /\ \A f \in Members(c.ob_syn) : IF Odd(f.id) THEN f.id < c.next_stream_id
                                                 ELSE f.id <= s.last_sent_stream_id

\* The server speaks of streams it has seen or announced, ...
Begun(s, k) == IF Odd(k) THEN k <= s.last_recv_stream_id ELSE k <= s.last_sent_stream_id

Spoken(s, w) ==
    /\ \A f \in Members(s.ob_syn) : Begun(s, f.id)
    /\ \A f \in Members(s.ob_reg) \cup Members(w) :
         /\ f.type \in {"HEADERS", "PUSH_PROMISE", "DATA", "RST_STREAM"} => Begun(s, f.id)
         /\ f.type = "PUSH_PROMISE" => Odd(f.id)

\* ... promises streams in the order of their ids, ...
Announced(c, s, w) ==
    /\ \A f \in Members(w) : f.type = "PUSH_PROMISE" => c.last_recv_stream_id < f.promised
    /\ Apart(w, PushesDescend)
    /\ Guarded(w, KnownPushes(c.last_recv_stream_id), Promised)
    /\ c.last_recv_stream_id <= s.last_sent_stream_id
    /\ \/ s.last_sent_stream_id <= c.last_recv_stream_id
       \/ \E f \in Members(w) : f.type = "PUSH_PROMISE" /\ s.last_sent_stream_id <= f.promised

\* ... and sends the HEADERS of a body before the body, and nothing after the
\* end.
Complete(f) == (f.type = "HEADERS" /\ f.size = 0) \/ (f.type = "DATA" /\ f.end)

Answers(c, s, w) ==
    /\ \A k \in StreamIds :
         /\ s.streams[k].state = "OPENING" => Odd(k)
         /\ s.streams[k].item # NoItem =>
              Begun(s, k) /\ (DataAllowed(c, k) \/ Has(w, "HEADERS", k))
    /\ Guarded(w, Readable(c), Headed)
    /\ \A f \in Members(w) : f.type = "RST_STREAM" \/ Complete(f) => ~Active(s, f.id)

\* The client sends no body, and has ended the requests it has sent.
Listens(c) ==
    \A k \in StreamIds :
        /\ c.streams[k].state # "INITIAL" /\ (c.streams[k].state = "OPENING" => Odd(k))
        /\ Active(c, k) => c.streams[k].shut = {"WR"}
        /\ c.streams[k].item = NoItem

\* A request that is open on the server's side, or will be, is open on the
\* client's side or its reset is on its way.
Followed(c, s, v) ==
    \A k \in StreamIds : Odd(k) /\ (Active(s, k) \/ Has(v, "HEADERS", k)) =>
        Active(c, k) \/ Has(v, "RST_STREAM", k)

\* The GOAWAY frames that are queued or under way: a client that ends the
\* session says so once, and takes back nothing it has said before.
Goodbyes(c, v) == {f \in Members(c.ob_reg) \cup Members(v) : f.type = "GOAWAY"}

PartingOK(c, s, v) ==
    \A f \in Goodbyes(c, v) :
        /\ f.last <= s.remote_last_stream_id
        /\ \A g \in Goodbyes(c, v) : g.last = f.last

LEMMA PartingFewer ==
    ASSUME NEW c, NEW d, NEW s, NEW t, NEW v, NEW q, PartingOK(c, s, v),
           t.remote_last_stream_id = s.remote_last_stream_id,
           Goodbyes(d, q) \subseteq Goodbyes(c, v)
    PROVE  PartingOK(d, t, q)
BY DEF PartingOK

Polite(c, s, v, w) ==
    /\ s.goaway_flags = {} /\ s.remote_last_stream_id = Unlimited
    /\ Asked(c) /\ Underway(c, s, v) /\ Spoken(s, w) /\ Announced(c, s, w)
    /\ Answers(c, s, w) /\ Listens(c) /\ Followed(c, s, v)
    /\ s.remote_window_size >= 0 /\ c.local_window_size = InitialWindow

Core(c, s, v, w) ==
    /\ ServerOK(s, w) /\ GoawaysOK(c) /\ HeardOK(s, v) /\ RoomOK(s, v)
    /\ c.goaway_flags = {} => Polite(c, s, v, w)
    /\ c.goaway_flags # {} => PartingOK(c, s, v)

Typed(c, s, v, w) ==
    /\ c \in SessionType(FALSE) /\ s \in SessionType(TRUE)
    /\ v \in Seq(Frames(FALSE)) /\ w \in Seq(Frames(TRUE))

LEMMA TypedFields ==
    ASSUME NEW c, NEW s, NEW v, NEW w, Typed(c, s, v, w)
    PROVE  /\ v \in Seq(AllFrames) /\ w \in Seq(AllFrames)
           /\ Members(v) \subseteq Frames(FALSE) /\ Members(v) \subseteq AllFrames
           /\ Members(w) \subseteq Frames(TRUE) /\ Members(w) \subseteq AllFrames
           /\ Members(c.ob_reg) \subseteq Regular(FALSE)
           /\ Members(c.ob_reg) \subseteq Frames(FALSE) /\ Members(c.ob_reg) \subseteq AllFrames
           /\ Members(s.ob_reg) \subseteq Regular(TRUE)
           /\ Members(s.ob_reg) \subseteq Frames(TRUE) /\ Members(s.ob_reg) \subseteq AllFrames
           /\ Members(c.ob_syn) \subseteq Resets /\ Members(s.ob_syn) \subseteq Resets
           /\ ~c.server /\ s.server
           /\ c.next_stream_id \in Nat /\ c.last_sent_stream_id \in Nat
           /\ c.last_recv_stream_id \in Nat
           /\ s.next_stream_id \in Nat /\ s.last_sent_stream_id \in Nat
           /\ s.last_recv_stream_id \in Nat
<1>1. Frames(FALSE) \subseteq AllFrames /\ Frames(TRUE) \subseteq AllFrames
      /\ Regular(FALSE) \subseteq Frames(FALSE) /\ Regular(TRUE) \subseteq Frames(TRUE)
  BY DEF AllFrames, Frames
<1>2. v \in Seq(Frames(FALSE)) /\ w \in Seq(Frames(TRUE))
      /\ c.ob_reg \in Seq(Regular(FALSE)) /\ s.ob_reg \in Seq(Regular(TRUE))
      /\ c.ob_syn \in Seq(Resets) /\ s.ob_syn \in Seq(Resets)
  BY FieldTypes DEF Typed
<1>3. /\ Members(v) \subseteq Frames(FALSE) /\ Members(w) \subseteq Frames(TRUE)
      /\ Members(c.ob_reg) \subseteq Regular(FALSE) /\ Members(s.ob_reg) \subseteq Regular(TRUE)
      /\ Members(c.ob_syn) \subseteq Resets /\ Members(s.ob_syn) \subseteq Resets
  BY <1>2, MembersChange
<1>4. v \in Seq(AllFrames) /\ w \in Seq(AllFrames)
  <2>1. \A T : T \subseteq AllFrames => Seq(T) \subseteq Seq(AllFrames)
    OBVIOUS
  <2> QED
    BY <1>1, <1>2, <2>1
<1>5. /\ c.server = FALSE /\ s.server = TRUE
      /\ c.next_stream_id \in Nat /\ c.last_sent_stream_id \in Nat
      /\ c.last_recv_stream_id \in Nat
      /\ s.next_stream_id \in Nat /\ s.last_sent_stream_id \in Nat
      /\ s.last_recv_stream_id \in Nat
  <2>1. FALSE \in BOOLEAN /\ TRUE \in BOOLEAN
    OBVIOUS
  <2> QED
    BY <2>1, FieldTypes DEF Typed
<1> QED
  BY <1>1, <1>3, <1>4, <1>5

\* The client takes a step that begins nothing.
LEMMA ClientMild ==
    ASSUME NEW c, NEW s, NEW v, NEW w, Typed(c, s, v, w), Core(c, s, v, w),
           NEW d, NEW R, Mild(c, d, R, {}),
           c.goaway_flags = {} => \A k \in R : IF Odd(k) THEN k < c.next_stream_id
                                               ELSE k <= s.last_sent_stream_id,
           c.goaway_flags = {} => \A k \in StreamIds :
              Odd(k) /\ Active(c, k) /\ ~Active(d, k) =>
                 \/ Has(v, "RST_STREAM", k)
                 \/ ~Active(s, k) /\ ~Has(v, "HEADERS", k)
    PROVE  Core(d, s, v, w)
<1>1. /\ d.goaway_flags = c.goaway_flags
      /\ d.next_stream_id = c.next_stream_id /\ d.last_sent_stream_id = c.last_sent_stream_id
      /\ d.last_recv_stream_id = c.last_recv_stream_id
      /\ d.last_proc_stream_id = c.last_proc_stream_id
      /\ d.local_last_stream_id = c.local_last_stream_id
      /\ d.local_window_size = c.local_window_size
      /\ \A f \in Members(d.ob_syn) : f \in Members(c.ob_syn) \/ f.id \in R
      /\ ~c.server
  BY TypedFields DEF Mild
<1>2. /\ \A f \in Members(d.ob_reg) : f.type = "WINDOW_UPDATE" \/ f \in Members(c.ob_reg)
      /\ \A f \in Members(c.ob_reg) : f.type = "HEADERS" => f \in Members(d.ob_reg)
      /\ Apart(c.ob_reg, Descends) => Apart(d.ob_reg, Descends)
  BY <1>1 DEF Mild, SameFrames
<1>3. \A k \in StreamIds : SameStream(c, d, {}, k)
  BY DEF Mild
<1>4. GoawaysOK(d)
  BY <1>1, <1>2 DEF Core, GoawaysOK
<1>5. ASSUME c.goaway_flags = {} PROVE Polite(d, s, v, w)
  <2>1. Polite(c, s, v, w)
    BY <1>5 DEF Core
  <2>2. Asked(d)
    <3>1. Asked(c)
      BY <2>1 DEF Polite
    <3>2. \A f \in Members(d.ob_reg) : /\ f.type = "HEADERS" => c.last_sent_stream_id < f.id
                                       /\ f.type # "GOAWAY"
      BY <1>2, <3>1 DEF Asked
    <3>3. \A k \in StreamIds : ~Idle(d, k) => ~Idle(c, k)
      BY <1>3 DEF SameStream, Active, Idle
    <3>4. \A k \in StreamIds : Odd(k) /\ k < d.next_stream_id =>
            \/ k <= d.last_sent_stream_id
            \/ \E f \in Members(d.ob_reg) : f.type = "HEADERS" /\ k <= f.id
      BY <1>1, <1>2, <3>1 DEF Asked
    <3> QED
      BY <1>1, <1>2, <3>1, <3>2, <3>3, <3>4 DEF Asked
  <2>3. Underway(d, s, v)
    BY <1>1, <1>5, <2>1 DEF Polite, Underway
  <2>4. Announced(d, s, w)
    BY <1>1, <2>1 DEF Polite, Announced
  <2>5. \A k \in StreamIds : DataAllowed(c, k) => DataAllowed(d, k)
    BY DataAllowedStays
  <2>6. Answers(d, s, w)
    <3>1. Answers(c, s, w)
      BY <2>1 DEF Polite
    <3>2. \A f \in Members(w) : f \in Readable(c) => f \in Readable(d)
      <4>1. \A f \in AllFrames : f.type = "DATA" => f.id \in StreamIds
        BY FrameFields
      <4> QED
        BY <2>5, <4>1 DEF Readable
    <3>3. Guarded(w, Readable(d), Headed)
      BY <3>1, <3>2, GuardedMore DEF Answers
    <3> QED
      BY <2>5, <3>1, <3>3 DEF Answers
  <2>7. Listens(d)
    BY <1>3, <2>1 DEF Polite, Listens, SameStream, Active
  <2>8. Followed(d, s, v)
    BY <1>5, <2>1 DEF Polite, Followed
  <2> QED
    BY <1>1, <2>1, <2>2, <2>3, <2>4, <2>6, <2>7, <2>8 DEF Polite
<1>6. ASSUME c.goaway_flags # {} PROVE PartingOK(d, s, v)
  <2>1. PartingOK(c, s, v)
    BY <1>6 DEF Core
  <2>2. Goodbyes(d, v) \subseteq Goodbyes(c, v)
    BY <1>2 DEF Goodbyes
  <2> QED
    BY <2>1, <2>2, PartingFewer
<1> QED
  BY <1>1, <1>4, <1>5, <1>6 DEF Core

\* The server takes a step that begins nothing.
LEMMA ServerMild ==
    ASSUME NEW c, NEW s, NEW v, NEW w, Typed(c, s, v, w), Core(c, s, v, w),
           NEW t, NEW R, NEW I, Mild(s, t, R, I), Dry(s, t),
           c.goaway_flags = {} => \A k \in R : Begun(s, k),
           c.goaway_flags = {} => \A k \in StreamIds : k \in I =>
              Begun(s, k) /\ (DataAllowed(c, k) \/ Has(w, "HEADERS", k))
    PROVE  Core(c, t, v, w)
<1>1. /\ t.goaway_flags = s.goaway_flags
      /\ t.remote_last_stream_id = s.remote_last_stream_id
      /\ t.last_sent_stream_id = s.last_sent_stream_id
      /\ t.last_recv_stream_id = s.last_recv_stream_id
      /\ s.remote_window_size >= 0 => t.remote_window_size >= 0
      /\ \A f \in Members(t.ob_syn) : f \in Members(s.ob_syn) \/ f.id \in R
      /\ \A k : Begun(t, k) <=> Begun(s, k)
  BY DEF Mild, Begun
<1>2. NoRecv(s) => /\ NoRecv(t)
                   /\ \A f \in Members(t.ob_reg) : f \in Members(s.ob_reg)
  BY DEF Mild, Dry, SameFrames
<1>3. \A k \in StreamIds : SameStream(s, t, I, k)
  BY DEF Mild
<1>4. /\ \A k \in StreamIds : Active(t, k) => Active(s, k)
      /\ \A k \in StreamIds : Active(t, k) => t.streams[k].shut = s.streams[k].shut
  BY <1>3 DEF SameStream, Active
<1>5. ServerOK(t, w)
  BY <1>1, <1>2, <1>4 DEF Core, ServerOK
<1>6. HeardOK(t, v) /\ RoomOK(t, v)
  <2>1. HeardOK(t, v)
    BY <1>1 DEF Core, HeardOK
  <2>2. RoomOK(t, v)
    BY <1>4, RoomShrinks DEF Core
  <2> QED
    BY <2>1, <2>2
<1>7. ASSUME c.goaway_flags = {} PROVE Polite(c, t, v, w)
  <2>1. Polite(c, s, v, w) /\ NoRecv(s)
    BY <1>7 DEF Core, ServerOK
  <2>2. Underway(c, t, v) /\ Announced(c, t, w)
    BY <1>1, <2>1 DEF Polite, Underway, Announced
  <2>3. Spoken(t, w)
    BY <1>1, <1>2, <1>7, <2>1 DEF Polite, Spoken
  <2>4. Answers(c, t, w)
    <3>1. Answers(c, s, w)
      BY <2>1 DEF Polite
    <3>2. \A k \in StreamIds : t.streams[k].state = "OPENING" => Odd(k)
      BY <1>3, <3>1 DEF Answers, SameStream
    <3>3. \A k \in StreamIds : t.streams[k].item # NoItem =>
             Begun(t, k) /\ (DataAllowed(c, k) \/ Has(w, "HEADERS", k))
      BY <1>1, <1>3, <1>7, <3>1 DEF Answers, SameStream
    <3>4. \A f \in Members(w) : f.type = "RST_STREAM" \/ Complete(f) => ~Active(t, f.id)
      <4>1. \A f \in Members(w) : f.type = "RST_STREAM" \/ Complete(f) => f.id \in StreamIds
        BY TypedFields, FrameFields DEF Complete
      <4> QED
        BY <1>4, <3>1, <4>1 DEF Answers
    <3> QED
      BY <3>1, <3>2, <3>3, <3>4 DEF Answers
  <2>5. Followed(c, t, v)
    BY <1>4, <2>1 DEF Polite, Followed
  <2> QED
    BY <1>1, <2>1, <2>2, <2>3, <2>4, <2>5 DEF Polite
<1>8. ASSUME c.goaway_flags # {} PROVE PartingOK(c, t, v)
  <2>1. PartingOK(c, s, v)
    BY <1>8 DEF Core
  <2> QED
    BY <1>1, <2>1, PartingFewer
<1> QED
  BY <1>5, <1>6, <1>7, <1>8 DEF Core
-----------------------------------------------------------------------------
(***************************************************************************)
(* The wire changes, and the sessions do not.                              *)
(***************************************************************************)
\* What becomes of the frames under way when one is sent, or the first taken.
LEMMA Sent ==
    ASSUME NEW T, NEW q \in Seq(T), NEW f \in T
    PROVE  /\ Members(Append(q, f)) = Members(q) \cup {f}
           /\ \A type, k : Has(q, type, k) => Has(Append(q, f), type, k)
           /\ \A type, k : Has(Append(q, f), type, k) => Has(q, type, k) \/ (f.type = type /\ f.id = k)
<1>1. Members(Append(q, f)) = Members(q) \cup {f}
  BY MembersChange
<1> QED
  BY <1>1 DEF Has

LEMMA TakenFirst ==
    ASSUME NEW T, NEW q \in Seq(T), q # <<>>
    PROVE  /\ Head(q) \in T /\ Tail(q) \in Seq(T)
           /\ Members(q) = Members(Tail(q)) \cup {Head(q)}
           /\ \A type, k : Has(Tail(q), type, k) => Has(q, type, k)
           /\ \A type, k : Has(q, type, k) =>
                 Has(Tail(q), type, k) \/ (Head(q).type = type /\ Head(q).id = k)
<1>1. Members(q) = Members(Tail(q)) \cup {Head(q)}
  BY MembersChange
<1>2. Head(q) \in T /\ Tail(q) \in Seq(T)
  BY Rest
<1> QED
  BY <1>1, <1>2 DEF Has

\* The client sends a reset or an update of a stream it has requested or seen
\* promised, or a frame about settings.
LEMMA ClientFrame ==
    ASSUME NEW c, NEW s, NEW v, NEW w, Typed(c, s, v, w), Core(c, s, v, w),
           NEW f \in Frames(FALSE), f.type \in {"RST_STREAM", "WINDOW_UPDATE", "SETTINGS", "ACK"},
           f.type \in {"RST_STREAM", "WINDOW_UPDATE"} =>
              /\ c.goaway_flags = {}
              /\ IF Odd(f.id) THEN f.id <= c.last_sent_stream_id ELSE f.id <= s.last_sent_stream_id
    PROVE  Core(c, s, Append(v, f), w)
<1> DEFINE q == Append(v, f)
<1>1. /\ v \in Seq(AllFrames) /\ Members(v) \subseteq AllFrames /\ f \in AllFrames
      /\ s.last_recv_stream_id \in Nat /\ c.last_sent_stream_id \in Nat
  BY TypedFields DEF AllFrames
<1>2. /\ Members(q) = Members(v) \cup {f}
      /\ \A type, k : Has(v, type, k) => Has(q, type, k)
      /\ \A k : Has(q, "HEADERS", k) => Has(v, "HEADERS", k)
  <2> HIDE DEF q
  <2>1. q = Append(v, f) /\ f.type # "HEADERS"
    BY DEF q
  <2> QED
    BY <1>1, <2>1, Sent, Zenon
<1>3. f.type \in {"RST_STREAM", "WINDOW_UPDATE"} => f.id \in Nat
  <2>1. f.type \in {"RST_STREAM", "WINDOW_UPDATE"} => f.id \in Levels
    BY <1>1, FrameFields DEF Levels
  <2>2. Levels \subseteq Nat
    BY IdsFinite DEF Levels
  <2> QED
    BY <2>1, <2>2
<1>4. HeardOK(s, v) /\ RoomOK(s, v)
  BY DEF Core
<1>5. HeardOK(s, q)
  <2>1. \A g \in Members(q) :
          /\ g.type # "DATA"
          /\ g.type = "HEADERS" => s.last_recv_stream_id < g.id
          /\ g.type \in {"RST_STREAM", "WINDOW_UPDATE"} /\ ~Odd(g.id) =>
               g.id <= s.last_sent_stream_id
          /\ g.type = "GOAWAY" => LastOK(g.last)
    BY <1>2, <1>4 DEF HeardOK
  <2>2. Guarded(q, KnownRequests(s.last_recv_stream_id), Introduces)
    <3>1. \/ f \in KnownRequests(s.last_recv_stream_id)
          \/ \E g \in Members(v) : <<g, f>> \in Introduces
      <4>1. CASE f.type \in {"RST_STREAM", "WINDOW_UPDATE"} /\ Odd(f.id)
        <5>1. Underway(c, s, v) /\ f.id <= c.last_sent_stream_id
          BY <4>1 DEF Core, Polite
        <5>2. CASE c.last_sent_stream_id <= s.last_recv_stream_id
          BY <1>1, <1>3, <4>1, <5>1, <5>2 DEF KnownRequests
        <5>3. CASE \E g \in Members(v) : g.type = "HEADERS" /\ c.last_sent_stream_id <= g.id
          <6>1. PICK g \in Members(v) : g.type = "HEADERS" /\ c.last_sent_stream_id <= g.id
            BY <5>3
          <6>2. g \in AllFrames /\ g.id \in Nat
            BY <1>1, <6>1, FrameFields, IdsFinite
          <6>3. f.id <= g.id
            BY <1>1, <1>3, <4>1, <5>1, <6>1, <6>2
          <6> QED
            BY <1>1, <4>1, <6>1, <6>2, <6>3, RelationsIff
        <5> QED
          BY <5>1, <5>2, <5>3 DEF Underway
      <4>2. CASE ~(f.type \in {"RST_STREAM", "WINDOW_UPDATE"} /\ Odd(f.id))
        BY <1>1, <4>2 DEF KnownRequests
      <4> QED
        BY <4>1, <4>2
    <3>2. Guarded(v, KnownRequests(s.last_recv_stream_id), Introduces)
      BY <1>4 DEF HeardOK
    <3> QED
      BY <1>1, <3>1, <3>2, GuardedAppend
  <2>3. Apart(q, Revives)
    <3>1. \A g \in Members(v) : <<g, f>> \notin Revives
      BY <1>1, RevivesIff
    <3>2. Apart(v, Revives)
      BY <1>4 DEF HeardOK
    <3> QED
      BY <1>1, <3>1, <3>2, ApartAppend
  <2> QED
    BY <2>1, <2>2, <2>3 DEF HeardOK
<1>6. RoomOK(s, q)
  BY <1>1, <1>4, RoomAppend
<1>7. ASSUME c.goaway_flags = {} PROVE Polite(c, s, q, w)
  <2>1. Polite(c, s, v, w)
    BY <1>7 DEF Core
  <2>2. Underway(c, s, q)
    BY <1>2, <2>1 DEF Polite, Underway
  <2>3. Followed(c, s, q)
    BY <1>2, <2>1 DEF Polite, Followed
  <2> QED
    BY <2>1, <2>2, <2>3 DEF Polite
<1>8. ASSUME c.goaway_flags # {} PROVE PartingOK(c, s, q)
  <2>1. PartingOK(c, s, v)
    BY <1>8 DEF Core
  <2>2. Goodbyes(c, q) \subseteq Goodbyes(c, v)
    BY <1>2 DEF Goodbyes
  <2> QED
    BY <2>1, <2>2, PartingFewer
<1> QED
  BY <1>5, <1>6, <1>7, <1>8 DEF Core

\* A client that is ending the session sends its GOAWAY.
LEMMA ClientGoaway ==
    ASSUME NEW c, NEW s, NEW v, NEW w, Typed(c, s, v, w), Core(c, s, v, w),
           c.goaway_flags # {}, NEW f \in Goaways, LastOK(f.last),
           PartingOK(c, s, Append(v, f))
    PROVE  Core(c, s, Append(v, f), w)
<1>1. /\ v \in Seq(AllFrames) /\ Members(v) \subseteq AllFrames /\ f \in AllFrames
      /\ f.type = "GOAWAY"
  BY TypedFields DEF AllFrames, Frames, Regular, Goaways
<1>2. Members(Append(v, f)) = Members(v) \cup {f}
  BY <1>1, Sent
<1>3. HeardOK(s, v) /\ RoomOK(s, v)
  BY DEF Core
<1>4. f \in KnownRequests(s.last_recv_stream_id) /\ \A g \in Members(v) : <<g, f>> \notin Revives
  BY <1>1, RevivesIff DEF KnownRequests
<1>5. /\ Guarded(Append(v, f), KnownRequests(s.last_recv_stream_id), Introduces)
      /\ Apart(Append(v, f), Revives)
  BY <1>1, <1>3, <1>4, GuardedAppend, ApartAppend DEF HeardOK
<1>6. HeardOK(s, Append(v, f))
  BY <1>1, <1>2, <1>3, <1>5 DEF HeardOK
<1>7. RoomOK(s, Append(v, f))
  BY <1>1, <1>3, RoomAppend
<1> QED
  BY <1>6, <1>7 DEF Core

\* The server takes a frame that is no request; a reset it has obeyed.
LEMMA ServerTakes ==
    ASSUME NEW c, NEW s, NEW v, NEW w, Typed(c, s, v, w), Core(c, s, v, w),
           v # <<>>, Head(v).type # "HEADERS",
           Head(v).type = "RST_STREAM" => ~Active(s, Head(v).id)
    PROVE  Core(c, s, Tail(v), w)
<1> DEFINE q == Tail(v)
<1> DEFINE h == Head(v)
<1>1. /\ v \in Seq(AllFrames) /\ Members(v) \subseteq AllFrames
      /\ s.last_recv_stream_id \in Nat
  BY TypedFields
<1>2. /\ h \in AllFrames /\ q \in Seq(AllFrames)
      /\ Members(v) = Members(q) \cup {h}
      /\ \A type, k : Has(q, type, k) => Has(v, type, k)
      /\ \A type, k : Has(v, type, k) => Has(q, type, k) \/ (h.type = type /\ h.id = k)
  <2> HIDE DEF q, h
  <2>1. q = Tail(v) /\ h = Head(v)
    BY DEF q, h
  <2> QED
    BY <1>1, <2>1, TakenFirst, Zenon
<1>3. HeardOK(s, v) /\ RoomOK(s, v)
  BY DEF Core
<1>4. HeardOK(s, q)
  <2>1. \A f \in Members(q) : f \in AllFrames /\ <<h, f>> \notin Introduces
    BY <1>1, <1>2, RelationsIff
  <2>2. Guarded(q, KnownRequests(s.last_recv_stream_id), Introduces)
    BY <1>1, <1>3, <2>1, GuardedTail DEF HeardOK
  <2>3. Apart(q, Revives)
    BY <1>1, <1>3, ApartTail DEF HeardOK
  <2> QED
    BY <1>2, <1>3, <2>2, <2>3 DEF HeardOK
<1>5. RoomOK(s, q)
  <2>1. Apart(v, Revives)
    BY <1>3 DEF HeardOK
  <2> QED
    BY <1>1, <1>3, <2>1, RoomTail
<1>6. ASSUME c.goaway_flags = {} PROVE Polite(c, s, q, w)
  <2>1. Polite(c, s, v, w)
    BY <1>6 DEF Core
  <2>2. Underway(c, s, q)
    BY <1>2, <2>1 DEF Polite, Underway
  <2>3. Followed(c, s, q)
    <3> SUFFICES ASSUME NEW k \in StreamIds, Odd(k), Active(s, k) \/ Has(q, "HEADERS", k),
                        ~Active(c, k)
                 PROVE  Has(q, "RST_STREAM", k)
      BY DEF Followed
    <3>1. Has(v, "RST_STREAM", k)
      BY <1>2, <2>1 DEF Polite, Followed
    <3>2. SUFFICES ASSUME h.type = "RST_STREAM", h.id = k PROVE FALSE
      BY <1>2, <3>1
    <3>3. Has(q, "HEADERS", k)
      BY <3>2
    <3>4. PICK f \in Members(q) : f.type = "HEADERS" /\ f.id = k
      BY <3>3 DEF Has
    <3>5. f \in AllFrames /\ k <= k
      BY <1>1, <1>2, IdsFinite
    <3>6. <<h, f>> \in Revives
      BY <1>2, <3>2, <3>4, <3>5, RevivesIff
    <3>7. <<h, f>> \notin Revives
      BY <1>1, <1>3, <3>4, ApartTail DEF HeardOK
    <3> QED
      BY <3>6, <3>7
  <2> QED
    BY <2>1, <2>2, <2>3 DEF Polite
<1>7. ASSUME c.goaway_flags # {} PROVE PartingOK(c, s, q)
  <2>1. PartingOK(c, s, v)
    BY <1>7 DEF Core
  <2>2. Goodbyes(c, q) \subseteq Goodbyes(c, v)
    BY <1>2 DEF Goodbyes
  <2> QED
    BY <2>1, <2>2, PartingFewer
<1> QED
  BY <1>4, <1>5, <1>6, <1>7 DEF Core

\* The server sends a frame of a stream that has begun, of a body behind its
\* HEADERS, or of a stream it has ended.
LEMMA ServerFrame ==
    ASSUME NEW c, NEW s, NEW v, NEW w, Typed(c, s, v, w), Core(c, s, v, w),
           NEW f \in Frames(TRUE),
           f.type \in {"HEADERS", "RST_STREAM", "DATA", "SETTINGS", "ACK"},
           c.goaway_flags = {} =>
              /\ f.type \in {"HEADERS", "RST_STREAM", "DATA"} => Begun(s, f.id)
              /\ f.type = "DATA" => DataAllowed(c, f.id) \/ Has(w, "HEADERS", f.id)
              /\ f.type = "RST_STREAM" \/ Complete(f) => ~Active(s, f.id)
    PROVE  Core(c, s, v, Append(w, f))
<1> DEFINE q == Append(w, f)
<1>1. /\ w \in Seq(AllFrames) /\ Members(w) \subseteq AllFrames /\ f \in AllFrames
      /\ c.last_recv_stream_id \in Nat /\ s.last_sent_stream_id \in Nat
  BY TypedFields DEF AllFrames
<1>2. /\ Members(q) = Members(w) \cup {f}
      /\ \A type, k : Has(w, type, k) => Has(q, type, k)
  <2> HIDE DEF q
  <2>1. q = Append(w, f)
    BY DEF q
  <2> QED
    BY <1>1, <2>1, Sent, Zenon
<1>3. ServerOK(s, q)
  BY <1>2 DEF Core, ServerOK
<1>4. ASSUME c.goaway_flags = {} PROVE Polite(c, s, v, q)
  <2>1. Polite(c, s, v, w)
    BY <1>4 DEF Core
  <2>2. Spoken(s, q)
    BY <1>2, <1>4, <2>1 DEF Polite, Spoken
  <2>3. Announced(c, s, q)
    <3>1. Announced(c, s, w)
      BY <2>1 DEF Polite
    <3>2. \A g \in Members(w) : <<g, f>> \notin PushesDescend
      BY <1>1, RelationsIff
    <3>3. \/ f \in KnownPushes(c.last_recv_stream_id)
          \/ \E g \in Members(w) : <<g, f>> \in Promised
      <4>1. CASE f.type \in {"HEADERS", "DATA", "RST_STREAM"} /\ ~Odd(f.id)
        <5>1. f.id \in Nat /\ f.id <= s.last_sent_stream_id
          BY <1>1, <1>4, <4>1, FrameFields, IdsFinite DEF Begun
        <5>2. CASE s.last_sent_stream_id <= c.last_recv_stream_id
          BY <1>1, <4>1, <5>1, <5>2 DEF KnownPushes
        <5>3. CASE \E g \in Members(w) :
                      g.type = "PUSH_PROMISE" /\ s.last_sent_stream_id <= g.promised
          <6>1. PICK g \in Members(w) :
                      g.type = "PUSH_PROMISE" /\ s.last_sent_stream_id <= g.promised
            BY <5>3
          <6>2. g \in AllFrames /\ g.promised \in Nat
            BY <1>1, <6>1, FrameFields, IdsFinite
          <6>3. f.id <= g.promised
            BY <1>1, <5>1, <6>1, <6>2
          <6> QED
            BY <1>1, <4>1, <6>1, <6>2, <6>3, RelationsIff
        <5> QED
          BY <3>1, <5>2, <5>3 DEF Announced
      <4>2. CASE ~(f.type \in {"HEADERS", "DATA", "RST_STREAM"} /\ ~Odd(f.id))
        BY <1>1, <4>2 DEF KnownPushes
      <4> QED
        BY <4>1, <4>2
    <3>4. Apart(q, PushesDescend)
      BY <1>1, <3>1, <3>2, ApartAppend DEF Announced
    <3>5. Guarded(q, KnownPushes(c.last_recv_stream_id), Promised)
      BY <1>1, <3>1, <3>3, GuardedAppend DEF Announced
    <3> QED
      BY <1>2, <3>1, <3>4, <3>5 DEF Announced
  <2>4. Answers(c, s, q)
    <3>1. Answers(c, s, w)
      BY <2>1 DEF Polite
    <3>2. f \in Readable(c) \/ \E g \in Members(w) : <<g, f>> \in Headed
      <4>1. CASE f.type = "DATA" /\ Has(w, "HEADERS", f.id)
        <5>1. PICK g \in Members(w) : g.type = "HEADERS" /\ g.id = f.id
          BY <4>1 DEF Has
        <5> QED
          BY <1>1, <4>1, <5>1, RelationsIff
      <4>2. CASE f.type = "DATA" => DataAllowed(c, f.id)
        BY <1>1, <4>2 DEF Readable
      <4> QED
        BY <1>4, <4>1, <4>2
    <3>3. Guarded(q, Readable(c), Headed)
      BY <1>1, <3>1, <3>2, GuardedAppend DEF Answers
    <3>4. \A g \in Members(q) : g.type = "RST_STREAM" \/ Complete(g) => ~Active(s, g.id)
      BY <1>2, <1>4, <3>1 DEF Answers
    <3> QED
      BY <1>2, <3>1, <3>3, <3>4 DEF Answers
  <2> QED
    BY <2>1, <2>2, <2>3, <2>4 DEF Polite
<1> QED
  BY <1>3, <1>4 DEF Core

\* The client takes a frame that is no promise; HEADERS it has accepted.
LEMMA ClientTakes ==
    ASSUME NEW c, NEW s, NEW v, NEW w, Typed(c, s, v, w), Core(c, s, v, w), w # <<>>,
           c.goaway_flags = {} =>
              /\ Head(w).type # "PUSH_PROMISE"
              /\ Head(w).type = "HEADERS" => DataAllowed(c, Head(w).id)
    PROVE  Core(c, s, v, Tail(w))
<1> DEFINE q == Tail(w)
<1> DEFINE h == Head(w)
<1>1. w \in Seq(AllFrames) /\ Members(w) \subseteq AllFrames
  BY TypedFields
<1>2. /\ h \in AllFrames /\ q \in Seq(AllFrames)
      /\ Members(w) = Members(q) \cup {h}
      /\ \A type, k : Has(w, type, k) => Has(q, type, k) \/ (h.type = type /\ h.id = k)
  <2> HIDE DEF q, h
  <2>1. q = Tail(w) /\ h = Head(w)
    BY DEF q, h
  <2> QED
    BY <1>1, <2>1, TakenFirst, Zenon
<1>3. ServerOK(s, q)
  BY <1>2 DEF Core, ServerOK
<1>4. ASSUME c.goaway_flags = {} PROVE Polite(c, s, v, q)
  <2>1. Polite(c, s, v, w)
    BY <1>4 DEF Core
  <2>2. Spoken(s, q)
    BY <1>2, <2>1 DEF Polite, Spoken
  <2>3. Announced(c, s, q)
    <3>1. Announced(c, s, w)
      BY <2>1 DEF Polite
    <3>2. Apart(q, PushesDescend)
      BY <1>1, <3>1, ApartTail DEF Announced
    <3>3. \A f \in Members(q) : f \in AllFrames /\ <<h, f>> \notin Promised
      BY <1>1, <1>2, <1>4, RelationsIff
    <3>4. Guarded(q, KnownPushes(c.last_recv_stream_id), Promised)
      BY <1>1, <3>1, <3>3, GuardedTail DEF Announced
    <3> QED
      BY <1>2, <1>4, <3>1, <3>2, <3>4 DEF Announced
  <2>4. Answers(c, s, q)
    <3>1. Answers(c, s, w)
      BY <2>1 DEF Polite
    <3>2. \A f \in Members(q) : f \in AllFrames /\ (<<h, f>> \in Headed => f \in Readable(c))
      BY <1>1, <1>2, <1>4, RelationsIff DEF Readable
    <3>3. Guarded(q, Readable(c), Headed)
      BY <1>1, <3>1, <3>2, GuardedTail DEF Answers
    <3> QED
      BY <1>2, <1>4, <3>1, <3>3 DEF Answers
  <2> QED
    BY <2>1, <2>2, <2>3, <2>4 DEF Polite
<1> QED
  BY <1>3, <1>4 DEF Core
-----------------------------------------------------------------------------
(***************************************************************************)
(* Steps that begin a request or a promise.                                *)
(***************************************************************************)
\* What is known of both sides already.
Paired(c, s, v, w) ==
    /\ Typed(c, s, v, w)
    /\ SessionInv(FALSE, c) /\ SessionInv(TRUE, s)
    /\ IdsOK(c, s, v, w)

\* The ids the client gives out are odd, those of the server even.
LEMMA OddIds ==
    ASSUME NEW id \in Nat
    PROVE  /\ Odd(id) <=> Mine(FALSE, id)
           /\ ~Odd(id) <=> Mine(TRUE, id)
           /\ Odd(id) <=> ~Mine(TRUE, id)
           /\ Odd(id) => id > 0
  BY DEF Odd, Mine

\* A new request is queued behind those given out.
LEMMA RequestQueued ==
    ASSUME NEW c, NEW s, NEW v, NEW w, Paired(c, s, v, w), Core(c, s, v, w),
           c.next_stream_id \in StreamIds
    PROVE  Core(submit_request(c), s, v, w)
<1> DEFINE n == c.next_stream_id
<1> DEFINE f == Request(n)
<1> DEFINE d == submit_request(c)
<1>1. /\ c \in SessionType(FALSE) /\ FALSE \in BOOLEAN /\ Typed(c, s, v, w)
      /\ SessionInv(FALSE, c)
  BY DEF Paired, Typed
<1>2. /\ n \in Nat /\ Odd(n)
      /\ c.ob_reg \in Seq(Regular(FALSE)) /\ Members(c.ob_reg) \subseteq AllFrames
      /\ c.last_sent_stream_id \in Nat
  BY <1>1, FieldTypes, TypedFields, OddIds, IdsFinite DEF SessionInv, Fresh
<1>3. f \in Requests /\ f \in Regular(FALSE) /\ f \in AllFrames
      /\ f.type = "HEADERS" /\ f.id = n
  BY <1>2 DEF Request, Requests, Regular, AllFrames, Frames, Odd
<1>4. /\ d.server = c.server /\ d.goaway_flags = c.goaway_flags
      /\ d.next_stream_id = n + 2
      /\ d.last_sent_stream_id = c.last_sent_stream_id
      /\ d.last_recv_stream_id = c.last_recv_stream_id
      /\ d.last_proc_stream_id = c.last_proc_stream_id
      /\ d.local_last_stream_id = c.local_last_stream_id
      /\ d.local_window_size = c.local_window_size
      /\ d.streams = c.streams /\ d.ob_syn = c.ob_syn
      /\ d.ob_reg = Append(c.ob_reg, f)
  BY <1>1, Zenon DEF submit_request, Enqueue, SessionType
<1> HIDE DEF d, f, n
<1>5. Members(d.ob_reg) = Members(c.ob_reg) \cup {f}
  <2>1. PICK T : T = Regular(FALSE)
    OBVIOUS
  <2>3. c.ob_reg \in Seq(T) /\ f \in T
    BY <1>2, <1>3, <2>1, Zenon
  <2>2. Members(Append(c.ob_reg, f)) = Members(c.ob_reg) \cup {f}
    BY <2>3, MembersChange
  <2> QED
    BY <1>4, <2>2
<1>6. GoawaysOK(d)
  BY <1>3, <1>4, <1>5 DEF Core, GoawaysOK
<1>7. ASSUME c.goaway_flags = {} PROVE Polite(d, s, v, w)
  <2>1. Polite(c, s, v, w)
    BY <1>7 DEF Core
  <2>2. \A k : /\ Active(d, k) <=> Active(c, k)
               /\ DataAllowed(d, k) <=> DataAllowed(c, k)
               /\ Idle(d, k) <=> Idle(c, k)
    BY <1>4 DEF Active, DataAllowed, detect_idle_stream, is_my_stream_id, Idle
  <2>3. Asked(d)
    <3>1. Asked(c)
      BY <2>1 DEF Polite
    <3>2. Apart(d.ob_reg, Descends)
      <4>1. ASSUME NEW g \in Members(c.ob_reg), g.type = "HEADERS" PROVE ~(f.id <= g.id)
        <5>1. PICK i \in 1 .. Len(c.ob_reg) : c.ob_reg[i] = g
          BY <4>1 DEF Members
        <5>2. g.id < n
          BY <1>1, <4>1, <5>1 DEF SessionInv, Fresh, n
        <5>3. g.id \in Nat
          BY <1>2, <4>1, FrameFields, IdsFinite
        <5> QED
          BY <1>2, <1>3, <5>2, <5>3
      <4>2. \A g \in Members(c.ob_reg) : <<g, f>> \notin Descends
        BY <1>2, <1>3, <4>1, DescendsIff
      <4> QED
        BY <1>2, <1>3, <1>4, <3>1, <4>2, ApartAppend DEF Asked
    <3>3. \A g \in Members(d.ob_reg) : /\ g.type = "HEADERS" => d.last_sent_stream_id < g.id
                                       /\ g.type # "GOAWAY"
      BY <1>3, <1>4, <1>5, <3>1 DEF Asked, n
    <3>4. d.last_sent_stream_id < d.next_stream_id
      BY <1>2, <1>4, <3>1 DEF Asked, n
    <3>5. \A k \in StreamIds : Odd(k) /\ k < d.next_stream_id =>
             \/ k <= d.last_sent_stream_id
             \/ \E g \in Members(d.ob_reg) : g.type = "HEADERS" /\ k <= g.id
      <4> SUFFICES ASSUME NEW k \in StreamIds, Odd(k), k < n + 2
                   PROVE  \/ k <= c.last_sent_stream_id
                          \/ \E g \in Members(d.ob_reg) : g.type = "HEADERS" /\ k <= g.id
        BY <1>4
      <4>1. k < n \/ k = n
        BY <1>2, IdsFinite DEF Odd
      <4>2. CASE k < n
        BY <1>5, <3>1, <4>2 DEF Asked, n
      <4>3. CASE k = n
        BY <1>2, <1>3, <1>5, <4>3
      <4> QED
        BY <4>1, <4>2, <4>3
    <3> QED
      BY <1>4, <2>2, <3>1, <3>2, <3>3, <3>4, <3>5 DEF Asked
  <2>4. Underway(d, s, v)
    <3>1. \A g \in Members(c.ob_syn) : g.id \in Nat
      BY <1>1, TypedFields, IdsFinite DEF Resets
    <3> QED
      BY <1>2, <1>4, <2>1, <3>1 DEF Polite, Underway, n
  <2>5. Announced(d, s, w)
    BY <1>4, <2>1 DEF Polite, Announced
  <2>6. Answers(d, s, w)
    <3>1. Readable(d) = Readable(c)
      BY <2>2 DEF Readable
    <3> QED
      BY <2>1, <2>2, <3>1 DEF Polite, Answers
  <2>7. Listens(d) /\ Followed(d, s, v)
    BY <1>4, <2>1, <2>2 DEF Polite, Listens, Followed
  <2> QED
    BY <1>4, <2>1, <2>3, <2>4, <2>5, <2>6, <2>7 DEF Polite
<1>8. d.goaway_flags = {} => Polite(d, s, v, w)
  BY <1>4, <1>7
<1>9. ASSUME d.goaway_flags # {} PROVE PartingOK(d, s, v)
  <2>1. PartingOK(c, s, v)
    BY <1>4, <1>9 DEF Core
  <2>2. Goodbyes(d, v) \subseteq Goodbyes(c, v)
    BY <1>3, <1>5 DEF Goodbyes
  <2> QED
    BY <2>1, <2>2, PartingFewer
<1>10. Core(d, s, v, w)
  BY <1>6, <1>8, <1>9 DEF Core
<1> QED
  BY <1>10 DEF d

\* What opening a stream leaves of the other fields.
Opened(s, t, id, state) ==
    /\ Steady(s, t) /\ t.ob_reg = s.ob_reg /\ t.ob_syn = s.ob_syn
    /\ t.remote_window_size = s.remote_window_size
    /\ t.recv_window_size = s.recv_window_size
    /\ t.num_outgoing_streams = s.num_outgoing_streams
         + (IF state # "RESERVED" /\ is_my_stream_id(s, id) THEN 1 ELSE 0)
    /\ \A k \in StreamIds : k # id => t.streams[k] = s.streams[k]
    /\ t.streams[id].state = state
    /\ t.streams[id].shut = (IF state # "RESERVED" THEN {}
                             ELSE IF is_my_stream_id(s, id) THEN {"RD"} ELSE {"WR"})
    /\ t.streams[id].item = NoItem /\ t.streams[id].recv_window_size = 0

LEMMA OpenedFields ==
    ASSUME NEW srv \in BOOLEAN, NEW s \in SessionType(srv), NEW id \in StreamIds, NEW state
    PROVE  Opened(s, open_stream(s, id, state), id, state)
<1> DEFINE mine == is_my_stream_id(s, id)
<1> DEFINE reserved == state = "RESERVED"
<1> DEFINE one(b) == IF b THEN 1 ELSE 0
<1> DEFINE a == [NoStream EXCEPT
                   !.state = state,
                   !.push = reserved,
                   !.shut = IF ~reserved THEN {} ELSE IF mine THEN {"RD"} ELSE {"WR"},
                   !.remote_window_size = s.remote_initial_window,
                   !.local_window_size = s.local_initial_window]
<1> DEFINE i == s.num_incoming_reserved_streams + one(reserved /\ ~mine)
<1> DEFINE j == s.num_outgoing_streams + one(~reserved /\ mine)
<1> DEFINE l == s.num_incoming_streams + one(~reserved /\ ~mine)
<1> DEFINE t == [s EXCEPT !.streams[id] = a, !.num_incoming_reserved_streams = i,
                          !.num_outgoing_streams = j, !.num_incoming_streams = l]
<1>1. open_stream(s, id, state) = t
  BY Zenon DEF open_stream
<1>2. /\ a.state = state /\ a.item = NoItem /\ a.recv_window_size = 0
      /\ a.shut = (IF state # "RESERVED" THEN {} ELSE IF mine THEN {"RD"} ELSE {"WR"})
  BY DEF NoStream
<1>3. j = s.num_outgoing_streams + (IF state # "RESERVED" /\ mine THEN 1 ELSE 0)
  OBVIOUS
<1> HIDE DEF a, i, j, l, mine, reserved
<1>4. /\ Steady(s, t) /\ t.ob_reg = s.ob_reg /\ t.ob_syn = s.ob_syn
      /\ t.remote_window_size = s.remote_window_size
      /\ t.recv_window_size = s.recv_window_size
      /\ t.num_outgoing_streams = j
      /\ t.streams = [s.streams EXCEPT ![id] = a]
  BY DEF SessionType, Steady, SameSettings
<1> HIDE DEF t
<1>5. s.streams \in [StreamIds -> StreamType]
  BY FieldTypes
<1>6. t.streams[id] = a /\ \A k \in StreamIds : k # id => t.streams[k] = s.streams[k]
  BY <1>4, <1>5
<1> QED
  BY <1>1, <1>2, <1>3, <1>4, <1>6 DEF mine, Opened


\* One half of a stream is shut, and the other is open.
HalfClosed(s, t, id, dir) ==
    /\ Steady(s, t) /\ t.ob_reg = s.ob_reg /\ t.ob_syn = s.ob_syn
    /\ t.remote_window_size = s.remote_window_size
    /\ t.recv_window_size = s.recv_window_size
    /\ t.num_outgoing_streams = s.num_outgoing_streams
    /\ \A k \in StreamIds : k # id => t.streams[k] = s.streams[k]
    /\ t.streams[id].state = s.streams[id].state
    /\ t.streams[id].item = s.streams[id].item
    /\ t.streams[id].recv_window_size = s.streams[id].recv_window_size
    /\ t.streams[id].shut = s.streams[id].shut \cup {dir}

LEMMA HalfShut ==
    ASSUME NEW srv \in BOOLEAN, NEW s \in SessionType(srv), NEW id \in StreamIds, NEW dir,
           s.streams[id].shut \cup {dir} # {"RD", "WR"}
    PROVE  HalfClosed(s, shutdown(s, id, dir), id, dir)
<1> DEFINE x == s.streams[id].shut \cup {dir}
<1> DEFINE a == [s.streams[id] EXCEPT !.shut = x]
<1> DEFINE t == [s EXCEPT !.streams[id] = a]
<1>1. s.streams \in [StreamIds -> StreamType] /\ s.streams[id] \in StreamType
  BY FieldTypes, StreamTypes
<1>2. /\ a.state = s.streams[id].state /\ a.item = s.streams[id].item
      /\ a.recv_window_size = s.streams[id].recv_window_size
      /\ a.shut = x
  <2> HIDE DEF x
  <2> QED
    BY <1>1 DEF StreamType
<1>3. t = [s EXCEPT !.streams[id].shut = x]
  <2> HIDE DEF x
  <2> QED
    BY DEF SessionType
<1> HIDE DEF a
<1>4. /\ Steady(s, t) /\ t.ob_reg = s.ob_reg /\ t.ob_syn = s.ob_syn
      /\ t.remote_window_size = s.remote_window_size
      /\ t.recv_window_size = s.recv_window_size
      /\ t.num_outgoing_streams = s.num_outgoing_streams
      /\ t.streams = [s.streams EXCEPT ![id] = a]
  BY DEF SessionType, Steady, SameSettings
<1> HIDE DEF t
<1>5. t.streams[id] = a /\ \A k \in StreamIds : k # id => t.streams[k] = s.streams[k]
  BY <1>1, <1>4
<1>6. shutdown(s, id, dir) = close_stream_if_shut_rdwr(t, id)
  BY <1>3 DEF shutdown
<1>7. shutdown(s, id, dir) = t
  BY <1>2, <1>5, <1>6 DEF close_stream_if_shut_rdwr
<1> QED
  BY <1>2, <1>4, <1>5, <1>7 DEF HalfClosed

\* The request is sent: its stream is open, and the client's half of it shut.
RequestDone(u, d, f) ==
    /\ d.server = u.server /\ d.goaway_flags = u.goaway_flags
    /\ d.next_stream_id = u.next_stream_id
    /\ d.last_sent_stream_id = f.id
    /\ d.last_recv_stream_id = u.last_recv_stream_id
    /\ d.last_proc_stream_id = u.last_proc_stream_id
    /\ d.local_last_stream_id = u.local_last_stream_id
    /\ d.local_window_size = u.local_window_size
    /\ SameSettings(u, d)
    /\ d.ob_reg = u.ob_reg /\ d.ob_syn = u.ob_syn
    /\ d.num_outgoing_streams = u.num_outgoing_streams
    /\ \A k \in StreamIds : k # f.id => d.streams[k] = u.streams[k]
    /\ d.streams[f.id].state = "OPENING" /\ d.streams[f.id].shut = {"WR"}
    /\ d.streams[f.id].item = u.streams[f.id].item

LEMMA RequestSentFields ==
    ASSUME NEW srv \in BOOLEAN, NEW u \in SessionType(srv), NEW f \in Requests,
           u.streams[f.id].shut = {}, u.streams[f.id].push = FALSE
    PROVE  RequestDone(u, headers_sent(u, f), f)
<1> DEFINE id == f.id
<1> DEFINE b == u.streams[id]
<1> DEFINE a == [b EXCEPT !.state = "OPENING", !.push = FALSE]
<1> DEFINE t == [u EXCEPT !.streams[id] = a, !.num_outgoing_streams = u.num_outgoing_streams,
                          !.last_sent_stream_id = id]
<1>1. id \in StreamIds /\ id \in Nat /\ f.size = 0 /\ f.cat = "REQUEST"
  BY IdsFinite DEF Requests
<1>2. u.streams \in [StreamIds -> StreamType] /\ b \in StreamType /\ FALSE \in BOOLEAN
  BY <1>1, FieldTypes, StreamTypes
<1>3. a \in StreamType /\ a.state = "OPENING" /\ a.shut = b.shut /\ a.item = b.item
  BY <1>2 DEF StreamType
<1>4. t = [u EXCEPT !.streams[id].state = "OPENING", !.streams[id].push = FALSE,
                    !.num_outgoing_streams = u.num_outgoing_streams,
                    !.last_sent_stream_id = id]
  BY <1>1, <1>2, FieldTypes, ZenonT(40) DEF SessionType
<1> HIDE DEF a
<1>5. /\ t.streams = [u.streams EXCEPT ![id] = a]
      /\ t.server = u.server /\ t.goaway_flags = u.goaway_flags
      /\ t.next_stream_id = u.next_stream_id
      /\ t.last_sent_stream_id = id
      /\ t.last_recv_stream_id = u.last_recv_stream_id
      /\ t.last_proc_stream_id = u.last_proc_stream_id
      /\ t.local_last_stream_id = u.local_last_stream_id
      /\ t.local_window_size = u.local_window_size
      /\ SameSettings(u, t)
      /\ t.ob_reg = u.ob_reg /\ t.ob_syn = u.ob_syn
      /\ t.num_outgoing_streams = u.num_outgoing_streams
  BY DEF SessionType, SameSettings
<1>6. t \in SessionType(srv)
  BY <1>1, <1>2, <1>3 DEF SessionType
<1> HIDE DEF t
<1>7. t.streams[id] = a /\ \A k \in StreamIds : k # id => t.streams[k] = u.streams[k]
  BY <1>1, <1>2, <1>5
<1>8. headers_sent(u, f) = shutdown(t, id, "WR")
  BY <1>1, <1>4 DEF headers_sent
<1> DEFINE d == shutdown(t, id, "WR")
<1>9. /\ t.streams[id].shut \cup {"WR"} = {"WR"}
      /\ t.streams[id].shut \cup {"WR"} # {"RD", "WR"}
  <2>1. t.streams[id].shut = {}
    BY <1>3, <1>7
  <2> QED
    BY <2>1
<1>10. /\ Steady(t, d) /\ d.ob_reg = t.ob_reg /\ d.ob_syn = t.ob_syn
       /\ d.num_outgoing_streams = t.num_outgoing_streams
       /\ \A k \in StreamIds : k # id => d.streams[k] = t.streams[k]
       /\ d.streams[id].state = t.streams[id].state
       /\ d.streams[id].item = t.streams[id].item
       /\ d.streams[id].shut = {"WR"}
  <2> HIDE DEF id
  <2>1. id \in StreamIds
    BY <1>1
  <2>2. /\ Steady(t, d) /\ d.ob_reg = t.ob_reg /\ d.ob_syn = t.ob_syn
        /\ d.num_outgoing_streams = t.num_outgoing_streams
        /\ \A k \in StreamIds : k # id => d.streams[k] = t.streams[k]
        /\ d.streams[id].state = t.streams[id].state
        /\ d.streams[id].item = t.streams[id].item
        /\ d.streams[id].shut = t.streams[id].shut \cup {"WR"}
    BY <1>6, <1>9, <2>1, HalfShut DEF HalfClosed
  <2> QED
    BY <1>9, <2>2
<1> HIDE DEF d
<1>11. /\ d.server = u.server /\ d.goaway_flags = u.goaway_flags
       /\ d.next_stream_id = u.next_stream_id
       /\ d.last_sent_stream_id = id
       /\ d.last_recv_stream_id = u.last_recv_stream_id
       /\ d.last_proc_stream_id = u.last_proc_stream_id
       /\ d.local_last_stream_id = u.local_last_stream_id
       /\ d.local_window_size = u.local_window_size
       /\ SameSettings(u, d)
  BY <1>5, <1>10 DEF Steady, SameSettings
<1>12. /\ d.ob_reg = u.ob_reg /\ d.ob_syn = u.ob_syn
       /\ d.num_outgoing_streams = u.num_outgoing_streams
       /\ \A k \in StreamIds : k # id => d.streams[k] = u.streams[k]
       /\ d.streams[id].state = "OPENING" /\ d.streams[id].shut = {"WR"}
       /\ d.streams[id].item = u.streams[id].item
  BY <1>3, <1>5, <1>7, <1>10
<1> QED
  BY <1>8, <1>11, <1>12 DEF d, RequestDone

\* The number of odd ids ahead of the next frame is that of requests the client
\* counts, if their resets are taken off.
LEMMA AheadCounted ==
    ASSUME NEW c, NEW s, NEW v, NEW w, Paired(c, s, v, w), Followed(c, s, v)
    PROVE  Cardinality(AheadOfNext(s, v)) <= c.num_outgoing_streams
<1> DEFINE X == {k \in StreamIds : Outgoing(c, k)}
<1>1. /\ SessionInv(FALSE, c) /\ c \in SessionType(FALSE) /\ FALSE \in BOOLEAN
  BY DEF Paired, Typed
<1>2. Cardinality(X) = c.num_outgoing_streams
  BY <1>1 DEF SessionInv, Sound, CountersMatch
<1>3. AheadOfNext(s, v) \subseteq X
  <2> SUFFICES ASSUME NEW k \in AheadOfNext(s, v) PROVE Outgoing(c, k) /\ k \in StreamIds
    BY DEF X
  <2>1. k \in StreamIds /\ k \in Nat /\ Odd(k) /\ Active(c, k)
    BY IdsFinite DEF AheadOfNext, Followed
  <2>2. Mine(FALSE, k) /\ is_my_stream_id(c, k)
    BY <1>1, <2>1, OddIds, MineIs
  <2>3. PushOK(FALSE, c)
    BY <1>1 DEF SessionInv, Sound
  <2>4. ~c.streams[k].push
    BY <2>1, <2>2, <2>3 DEF PushOK
  <2> QED
    BY <2>1, <2>2, <2>4 DEF Outgoing
<1>4. X \in SUBSET StreamIds
  OBVIOUS
<1> HIDE DEF X
<1> QED
  BY <1>2, <1>3, <1>4, FewerIds

\* What the sending of a request leaves of the client.
RequestLeft(c, d, f) ==
    /\ d.server = c.server /\ d.goaway_flags = c.goaway_flags
    /\ d.next_stream_id = c.next_stream_id
    /\ d.last_sent_stream_id = f.id
    /\ d.last_recv_stream_id = c.last_recv_stream_id
    /\ d.last_proc_stream_id = c.last_proc_stream_id
    /\ d.local_last_stream_id = c.local_last_stream_id
    /\ d.local_window_size = c.local_window_size
    /\ SameSettings(c, d)
    /\ d.ob_reg = Tail(c.ob_reg) /\ d.ob_syn = c.ob_syn
    /\ d.num_outgoing_streams = c.num_outgoing_streams + 1
    /\ \A k \in StreamIds : k # f.id => d.streams[k] = c.streams[k]
    /\ d.streams[f.id].state = "OPENING" /\ d.streams[f.id].shut = {"WR"}
    /\ d.streams[f.id].item = NoItem

LEMMA RequestLeaves ==
    ASSUME NEW srv \in BOOLEAN, ~srv, NEW c, SessionInv(srv, c), c.ob_reg # <<>>,
           NEW f \in Requests, f = Head(c.ob_reg),
           NEW t, t = [c EXCEPT !.ob_reg = Tail(c.ob_reg)]
    PROVE  /\ RequestLeft(c, headers_sent(open_stream(t, f.id, "INITIAL"), f), f)
           /\ f.id \in StreamIds /\ Odd(f.id) /\ c.streams[f.id].state = "IDLE"
           /\ f.id < c.next_stream_id
<1> DEFINE id == f.id
<1> DEFINE u == open_stream(t, id, "INITIAL")
<1>1. c \in SessionType(srv)
  BY DEF SessionInv, Sound
<1>2. id \in StreamIds /\ id \in Nat /\ f.type = "HEADERS" /\ Odd(id) /\ Mine(srv, id)
  BY IdsFinite DEF Requests, Odd, Mine
<1>3. /\ SessionInv(srv, t) /\ t \in SessionType(srv)
      /\ id < t.next_stream_id /\ t.streams[id].state = "IDLE"
      /\ \A i \in 1 .. Len(t.ob_reg) : t.ob_reg[i].type = "HEADERS" => t.ob_reg[i].id # id
  BY <1>2, RegularTaken DEF Moves, SessionInv, Sound
<1>4. /\ Steady(c, t) /\ t.ob_reg = Tail(c.ob_reg) /\ t.ob_syn = c.ob_syn
      /\ t.num_outgoing_streams = c.num_outgoing_streams /\ t.streams = c.streams
  BY <1>1 DEF SessionType, Steady, SameSettings
<1>5. /\ SessionInv(srv, u) /\ u \in SessionType(srv) /\ u.streams[id].push = FALSE
  BY <1>2, <1>3, RequestPrepared DEF Moves, SessionInv, Sound
<1>6. is_my_stream_id(t, id) /\ "INITIAL" # "RESERVED"
  BY <1>2, <1>3, MineIs
<1>7. /\ Steady(t, u) /\ u.ob_reg = t.ob_reg /\ u.ob_syn = t.ob_syn
      /\ u.num_outgoing_streams = t.num_outgoing_streams + 1
      /\ \A k \in StreamIds : k # id => u.streams[k] = t.streams[k]
      /\ u.streams[id].shut = {} /\ u.streams[id].item = NoItem
  <2>1. Opened(t, u, id, "INITIAL")
    BY <1>2, <1>3, OpenedFields
  <2> HIDE DEF u, id
  <2> QED
    BY <1>6, <2>1 DEF Opened
<1> DEFINE d == headers_sent(u, f)
<1> HIDE DEF u
<1>8. /\ d.server = u.server /\ d.goaway_flags = u.goaway_flags
      /\ d.next_stream_id = u.next_stream_id
      /\ d.last_sent_stream_id = id
      /\ d.last_recv_stream_id = u.last_recv_stream_id
      /\ d.last_proc_stream_id = u.last_proc_stream_id
      /\ d.local_last_stream_id = u.local_last_stream_id
      /\ d.local_window_size = u.local_window_size
      /\ SameSettings(u, d)
      /\ d.ob_reg = u.ob_reg /\ d.ob_syn = u.ob_syn
      /\ d.num_outgoing_streams = u.num_outgoing_streams
      /\ \A k \in StreamIds : k # id => d.streams[k] = u.streams[k]
      /\ d.streams[id].state = "OPENING" /\ d.streams[id].shut = {"WR"}
      /\ d.streams[id].item = u.streams[id].item
  <2>1. RequestDone(u, d, f)
    BY <1>5, <1>7, RequestSentFields
  <2> HIDE DEF d
  <2> QED
    BY <2>1 DEF RequestDone
<1> HIDE DEF d
<1>9. /\ d.server = c.server /\ d.goaway_flags = c.goaway_flags
      /\ d.next_stream_id = c.next_stream_id
      /\ d.last_recv_stream_id = c.last_recv_stream_id
      /\ d.last_proc_stream_id = c.last_proc_stream_id
      /\ d.local_last_stream_id = c.local_last_stream_id
      /\ d.local_window_size = c.local_window_size
      /\ SameSettings(c, d)
  BY <1>4, <1>7, <1>8 DEF Steady, SameSettings
<1>10. RequestLeft(c, d, f)
  BY <1>4, <1>7, <1>8, <1>9 DEF RequestLeft
<1>11. c.streams[id].state = "IDLE" /\ id < c.next_stream_id
  BY <1>3, <1>4 DEF Steady
<1> QED
  BY <1>2, <1>10, <1>11 DEF d, u

\* The client sends the next request: the server has room for it.
LEMMA RequestGoes ==
    ASSUME NEW c, NEW s, NEW v, NEW w, Paired(c, s, v, w), Core(c, s, v, w),
           c.goaway_flags = {}, c.ob_reg # <<>>, NEW f \in Requests, f = Head(c.ob_reg),
           NEW d, RequestLeft(c, d, f), Odd(f.id), c.streams[f.id].state = "IDLE",
           f.id < c.next_stream_id, d.num_outgoing_streams <= ServerMax
    PROVE  Core(d, s, Append(v, f), w)
<1> DEFINE id == f.id
<1> DEFINE q == Append(v, f)
<1>1. /\ Typed(c, s, v, w) /\ Polite(c, s, v, w) /\ SessionInv(FALSE, c)
      /\ Asked(c) /\ Underway(c, s, v) /\ Announced(c, s, w) /\ Answers(c, s, w)
      /\ Listens(c) /\ Followed(c, s, v)
      /\ ServerOK(s, w) /\ GoawaysOK(c) /\ HeardOK(s, v) /\ RoomOK(s, v)
  BY DEF Paired, Core, Polite
<1>2. /\ id \in StreamIds /\ id \in Nat /\ f.type = "HEADERS" /\ f \in AllFrames
      /\ v \in Seq(AllFrames) /\ Members(v) \subseteq AllFrames
      /\ c.ob_reg \in Seq(Regular(FALSE)) /\ Members(c.ob_reg) \subseteq AllFrames
      /\ c.last_sent_stream_id \in Nat /\ s.last_recv_stream_id \in Nat
      /\ c.next_stream_id \in Nat
  <2>1. c \in SessionType(FALSE) /\ FALSE \in BOOLEAN
    BY <1>1 DEF Typed
  <2>2. f \in AllFrames
    BY DEF AllFrames, Frames, Regular
  <2> QED
    BY <1>1, <2>1, <2>2, FieldTypes, TypedFields, IdsFinite DEF Requests
<1>3. /\ d.server = c.server /\ d.goaway_flags = c.goaway_flags
      /\ d.next_stream_id = c.next_stream_id
      /\ d.last_sent_stream_id = id
      /\ d.last_recv_stream_id = c.last_recv_stream_id
      /\ d.last_proc_stream_id = c.last_proc_stream_id
      /\ d.local_last_stream_id = c.local_last_stream_id
      /\ d.local_window_size = c.local_window_size
      /\ d.ob_reg = Tail(c.ob_reg) /\ d.ob_syn = c.ob_syn
      /\ d.num_outgoing_streams = c.num_outgoing_streams + 1
  BY DEF RequestLeft
<1>4. /\ \A k \in StreamIds : k # id => d.streams[k] = c.streams[k]
      /\ d.streams[id].state = "OPENING" /\ d.streams[id].shut = {"WR"}
      /\ d.streams[id].item = NoItem
  BY DEF RequestLeft
<1> HIDE DEF id
<1>5. /\ Members(q) = Members(v) \cup {f}
      /\ \A type, k : Has(v, type, k) => Has(q, type, k)
      /\ \A type, k : Has(q, type, k) => Has(v, type, k) \/ (type = "HEADERS" /\ k = id)
  <2>1. /\ Members(Append(v, f)) = Members(v) \cup {f}
        /\ \A type, k : Has(v, type, k) => Has(Append(v, f), type, k)
        /\ \A type, k : Has(Append(v, f), type, k) => Has(v, type, k) \/ (f.type = type /\ f.id = k)
    BY <1>2, Sent
  <2>2. \A type, k : (f.type = type /\ f.id = k) => (type = "HEADERS" /\ k = id)
    BY <1>2 DEF id
  <2> QED
    BY <2>1, <2>2, Zenon DEF q
<1>6. /\ Members(c.ob_reg) = Members(d.ob_reg) \cup {f}
      /\ Apart(d.ob_reg, Descends)
      /\ \A g \in Members(d.ob_reg) : g.type = "HEADERS" => id < g.id
  <2>1. PICK T : T = Regular(FALSE)
    OBVIOUS
  <2>2. c.ob_reg \in Seq(T)
    BY <1>2, <2>1
  <2>3. Members(c.ob_reg) = Members(Tail(c.ob_reg)) \cup {f}
    BY <2>2, TakenFirst
  <2>4. /\ Apart(Tail(c.ob_reg), Descends)
        /\ \A g \in Members(Tail(c.ob_reg)) : <<f, g>> \notin Descends
    BY <1>1, <2>2, ApartTail DEF Asked
  <2>5. ASSUME NEW g \in Members(Tail(c.ob_reg)), g.type = "HEADERS" PROVE id < g.id
    <3>1. g \in AllFrames
      BY <1>2, <2>3
    <3>2. g.id \in Nat
      BY <2>5, <3>1, FrameFields, IdsFinite
    <3>3. ~(g.id <= id)
      BY <1>2, <2>4, <2>5, <3>1, DescendsIff DEF id
    <3> QED
      BY <1>2, <3>2, <3>3
  <2> QED
    BY <1>3, <2>3, <2>4, <2>5
<1>7. c.last_sent_stream_id < id /\ s.last_recv_stream_id < id
  <2>1. c.last_sent_stream_id < id
    BY <1>1, <1>2, <1>6 DEF Asked, id
  <2> QED
    BY <1>1, <1>2, <2>1 DEF Underway
<1>8. HeardOK(s, q)
  <2>1. Guarded(q, KnownRequests(s.last_recv_stream_id), Introduces)
    <3>1. f \in KnownRequests(s.last_recv_stream_id)
      BY <1>2 DEF KnownRequests
    <3> QED
      BY <1>1, <1>2, <3>1, GuardedAppend DEF HeardOK
  <2>2. Apart(q, Revives)
    <3>1. ASSUME NEW g \in Members(v) PROVE <<g, f>> \notin Revives
      <4>1. g \in AllFrames
        BY <1>2
      <4>2. SUFFICES ASSUME g.type \in {"HEADERS", "RST_STREAM"}, Odd(g.id), id <= g.id
                     PROVE  FALSE
        BY <1>2, <4>1, RevivesIff DEF id
      <4>3. g.id <= c.last_sent_stream_id
        BY <1>1, <4>2 DEF Underway
      <4>4. g.id \in Nat
        BY <4>1, <4>2, FrameFields, IdsFinite
      <4> QED
        BY <1>2, <1>7, <4>2, <4>3, <4>4
    <3> QED
      BY <1>1, <1>2, <3>1, ApartAppend DEF HeardOK
  <2>3. \A g \in Members(q) :
          /\ g.type # "DATA"
          /\ g.type = "HEADERS" => s.last_recv_stream_id < g.id
          /\ g.type \in {"RST_STREAM", "WINDOW_UPDATE"} /\ ~Odd(g.id) =>
               g.id <= s.last_sent_stream_id
          /\ g.type = "GOAWAY" => LastOK(g.last)
    BY <1>1, <1>2, <1>5, <1>7 DEF HeardOK, id
  <2> QED
    BY <2>1, <2>2, <2>3 DEF HeardOK
<1>9. RoomOK(s, q)
  <2>1. Cardinality(AheadOfNext(s, v)) <= c.num_outgoing_streams
    BY <1>1, AheadCounted
  <2>2. Cardinality(AheadOfNext(s, v)) \in Nat
    <3>1. AheadOfNext(s, v) \in SUBSET StreamIds
      BY DEF AheadOfNext
    <3> QED
      BY <3>1, NumberOf
  <2>3. c.num_outgoing_streams \in Int
    <3>1. c \in SessionType(FALSE) /\ FALSE \in BOOLEAN
      BY <1>1 DEF Typed
    <3> QED
      BY <3>1, FieldTypes
  <2>4. Cardinality(AheadOfNext(s, v)) < ServerMax
    BY <1>3, <2>1, <2>2, <2>3, LimitAssumption
  <2> QED
    BY <1>1, <1>2, <2>4, RoomAppend
<1>10. GoawaysOK(d)
  BY <1>1, <1>3, <1>6 DEF GoawaysOK
<1>11. Asked(d)
  <2>1. \A g \in Members(d.ob_reg) : /\ g.type = "HEADERS" => id < g.id
                                     /\ g.type # "GOAWAY"
    BY <1>1, <1>6 DEF Asked
  <2>2. ASSUME NEW k \in StreamIds, Odd(k), k < d.next_stream_id
        PROVE  k <= id \/ \E g \in Members(d.ob_reg) : g.type = "HEADERS" /\ k <= g.id
    <3>1. k \in Nat
      BY IdsFinite
    <3>2. k <= c.last_sent_stream_id
          \/ \E g \in Members(c.ob_reg) : g.type = "HEADERS" /\ k <= g.id
      BY <1>1, <1>3, <2>2 DEF Asked
    <3> QED
      BY <1>2, <1>6, <1>7, <3>1, <3>2 DEF id
  <2>3. ASSUME NEW k \in StreamIds, Odd(k), ~Idle(d, k) PROVE k <= id
    <3>1. k \in Nat
      BY IdsFinite
    <3>2. CASE k # id
      <4>1. k <= c.last_sent_stream_id
        BY <1>1, <1>4, <2>3, <3>2 DEF Asked, Idle
      <4> QED
        BY <1>2, <1>7, <3>1, <4>1
    <3> QED
      BY <1>2, <3>2
  <2> QED
    BY <1>2, <1>3, <1>6, <2>1, <2>2, <2>3 DEF Asked, id
<1>12. Underway(d, s, q)
  <2>1. \A g \in Members(v) : g.type \in {"HEADERS", "RST_STREAM"} => g.id \in Nat
    BY <1>2, FrameFields, IdsFinite
  <2>2. \A g \in Members(q) :
         /\ g.type # "GOAWAY"
         /\ g.type \in {"HEADERS", "RST_STREAM"} /\ Odd(g.id) => g.id <= id
    BY <1>1, <1>2, <1>5, <1>7, <2>1 DEF Underway, id
  <2>3. f \in Members(q) /\ f.type = "HEADERS" /\ id <= f.id
    BY <1>2, <1>5 DEF id
  <2> QED
    BY <1>1, <1>2, <1>3, <1>7, <2>2, <2>3 DEF Underway
<1>13. \A k \in StreamIds : DataAllowed(c, k) => DataAllowed(d, k)
  <2> SUFFICES ASSUME NEW k \in StreamIds, DataAllowed(c, k) PROVE DataAllowed(d, k)
    OBVIOUS
  <2>0. /\ c.last_recv_stream_id \in Nat /\ k \in Nat /\ FALSE \in BOOLEAN
        /\ c \in SessionType(FALSE)
    BY <1>1, TypedFields, IdsFinite DEF Typed
  <2>1. k # id
    <3>1. SUFFICES ASSUME k = id PROVE FALSE
      OBVIOUS
    <3>2. is_my_stream_id(c, id)
      BY <1>2, <2>0, MineIs, OddIds DEF id
    <3> QED
      BY <1>2, <1>7, <3>1, <3>2 DEF DataAllowed, detect_idle_stream
  <2>2. is_my_stream_id(d, k) <=> is_my_stream_id(c, k)
    BY <1>3 DEF is_my_stream_id
  <2>3. ~detect_idle_stream(d, k)
    BY <1>2, <1>3, <1>7, <2>0, <2>2 DEF DataAllowed, detect_idle_stream
  <2> QED
    BY <1>4, <2>1, <2>3 DEF DataAllowed, Active
<1>14. Announced(d, s, w)
  BY <1>1, <1>3 DEF Announced
<1>15. Answers(d, s, w)
  <2>1. \A g \in Members(w) : g \in AllFrames /\ (g.type = "DATA" => g.id \in StreamIds)
    BY <1>1, TypedFields, FrameFields
  <2>2. \A g \in Members(w) : g \in Readable(c) => g \in Readable(d)
    BY <1>13, <2>1 DEF Readable
  <2>3. Guarded(w, Readable(d), Headed)
    BY <1>1, <2>2, GuardedMore DEF Answers
  <2> QED
    BY <1>1, <1>13, <2>3 DEF Answers
<1>16. Listens(d)
  <2>1. \A k \in StreamIds : k # id =>
          /\ d.streams[k].state # "INITIAL" /\ (d.streams[k].state = "OPENING" => Odd(k))
          /\ Active(d, k) => d.streams[k].shut = {"WR"}
          /\ d.streams[k].item = NoItem
    BY <1>1, <1>4 DEF Listens, Active
  <2>2. Odd(id)
    BY DEF id
  <2> QED
    BY <1>4, <2>1, <2>2 DEF Listens
<1>17. Followed(d, s, q)
  <2> SUFFICES ASSUME NEW k \in StreamIds, Odd(k), Active(s, k) \/ Has(q, "HEADERS", k),
                      ~Active(d, k)
               PROVE  Has(q, "RST_STREAM", k)
    BY DEF Followed
  <2>1. k # id
    BY <1>4 DEF Active
  <2>2. ~Active(c, k)
    BY <1>4, <2>1 DEF Active
  <2>3. Active(s, k) \/ Has(v, "HEADERS", k)
    BY <1>5, <2>1
  <2> QED
    BY <1>1, <1>5, <2>2, <2>3 DEF Followed
<1>18. Polite(d, s, q, w)
  BY <1>1, <1>3, <1>11, <1>12, <1>14, <1>15, <1>16, <1>17 DEF Polite
<1> QED
  BY <1>1, <1>3, <1>8, <1>9, <1>10, <1>18 DEF Core

\* The server queues a response or a promise, which may begin a stream that
\* nothing has been said of.
LEMMA ServerQueues ==
    ASSUME NEW c, NEW s, NEW v, NEW w, Typed(c, s, v, w), Core(c, s, v, w), NEW t,
           t.goaway_flags = s.goaway_flags,
           t.remote_last_stream_id = s.remote_last_stream_id,
           t.last_recv_stream_id = s.last_recv_stream_id,
           t.last_sent_stream_id = s.last_sent_stream_id,
           t.recv_window_size = s.recv_window_size,
           t.remote_window_size = s.remote_window_size,
           t.ob_syn = s.ob_syn,
           \A f \in Members(t.ob_reg) :
              \/ f \in Members(s.ob_reg)
              \/ /\ f.type \in {"HEADERS", "PUSH_PROMISE"}
                 /\ f.type = "PUSH_PROMISE" => Odd(f.id)
                 /\ c.goaway_flags = {} => Begun(s, f.id),
           \A k \in StreamIds :
              \/ t.streams[k] = s.streams[k]
              \/ /\ ~Odd(k) /\ ~Begun(s, k)
                 /\ t.streams[k].state = "RESERVED" /\ t.streams[k].shut = {"RD"}
                 /\ t.streams[k].item = NoItem /\ t.streams[k].recv_window_size = 0
    PROVE  Core(c, t, v, w)
<1>1. ServerOK(s, w) /\ GoawaysOK(c) /\ HeardOK(s, v) /\ RoomOK(s, v)
  BY DEF Core
<1>2. ServerOK(t, w)
  <2>1. \A f \in Members(t.ob_reg) : f.type \notin {"GOAWAY", "WINDOW_UPDATE"}
    BY <1>1 DEF ServerOK
  <2>2. NoRecv(t)
    BY <1>1 DEF ServerOK, NoRecv
  <2>3. \A k \in StreamIds : Active(t, k) => "RD" \in t.streams[k].shut
    BY <1>1 DEF ServerOK, Active
  <2> QED
    BY <1>1, <2>1, <2>2, <2>3 DEF ServerOK
<1>3. HeardOK(t, v)
  BY <1>1 DEF HeardOK
<1>4. \A k \in StreamIds : Odd(k) /\ Active(t, k) => Active(s, k)
  BY DEF Active
<1>5. RoomOK(t, v)
  BY <1>1, <1>4, RoomShrinks
<1>6. ASSUME c.goaway_flags = {} PROVE Polite(c, t, v, w)
  <2>1. /\ s.goaway_flags = {} /\ s.remote_last_stream_id = Unlimited
        /\ Asked(c) /\ Underway(c, s, v) /\ Spoken(s, w)
        /\ Announced(c, s, w) /\ Answers(c, s, w) /\ Listens(c) /\ Followed(c, s, v)
        /\ s.remote_window_size >= 0 /\ c.local_window_size = InitialWindow
    BY <1>6 DEF Core, Polite
  <2>2. \A k : Begun(t, k) <=> Begun(s, k)
    BY DEF Begun
  <2>3. Underway(c, t, v) /\ Announced(c, t, w)
    BY <2>1 DEF Underway, Announced
  <2>4. Spoken(t, w)
    BY <1>6, <2>1, <2>2 DEF Spoken
  <2>5. Followed(c, t, v)
    BY <1>4, <2>1 DEF Followed
  <2>6. Answers(c, t, w)
    <3>1. \A k \in StreamIds :
            /\ t.streams[k].state = "OPENING" => Odd(k)
            /\ t.streams[k].item # NoItem =>
                 Begun(t, k) /\ (DataAllowed(c, k) \/ Has(w, "HEADERS", k))
      BY <2>1, <2>2 DEF Answers
    <3>2. ASSUME NEW f \in Members(w), f.type = "RST_STREAM" \/ Complete(f)
          PROVE  ~Active(t, f.id)
      <4>1. f \in AllFrames /\ f.type \in {"RST_STREAM", "HEADERS", "DATA"}
        BY <3>2, TypedFields DEF Complete
      <4>2. f.id \in StreamIds
        BY <4>1, FrameFields
      <4>3. Begun(s, f.id)
        BY <2>1, <4>1 DEF Spoken
      <4>4. ~Active(s, f.id)
        BY <2>1, <3>2 DEF Answers
      <4> QED
        BY <4>2, <4>3, <4>4 DEF Active
    <3> QED
      BY <2>1, <3>1, <3>2 DEF Answers
  <2> QED
    BY <2>1, <2>3, <2>4, <2>5, <2>6 DEF Polite
<1>7. ASSUME c.goaway_flags # {} PROVE PartingOK(c, t, v)
  <2>1. PartingOK(c, s, v)
    BY <1>7 DEF Core
  <2> QED
    BY <2>1, PartingFewer
<1> QED
  BY <1>1, <1>2, <1>3, <1>5, <1>6, <1>7 DEF Core

LEMMA ResponseQueued ==
    ASSUME NEW c, NEW s, NEW v, NEW w, Paired(c, s, v, w), Core(c, s, v, w),
           NEW id \in StreamIds, NEW n \in Nat,
           \/ s.streams[id].state = "OPENING"
           \/ s.streams[id].state = "RESERVED" /\ id <= s.last_sent_stream_id
    PROVE  Core(c, submit_response(s, id, n), v, w)
<1> DEFINE f == Response(id, n)
<1> DEFINE t == submit_response(s, id, n)
<1>1. /\ Typed(c, s, v, w) /\ SessionInv(TRUE, s) /\ IdsOK(c, s, v, w)
      /\ s \in SessionType(TRUE) /\ TRUE \in BOOLEAN
  BY DEF Paired, Typed
<1>2. /\ s.ob_reg \in Seq(Regular(TRUE)) /\ s.last_recv_stream_id \in Nat /\ id \in Nat
  BY <1>1, FieldTypes, IdsFinite
<1>3. f \in Responses /\ f \in Regular(TRUE) /\ f.type = "HEADERS" /\ f.id = id
  BY DEF Response, Responses, Regular
<1>4. t = [s EXCEPT !.ob_reg = Append(@, f)]
  BY DEF submit_response, Enqueue
<1> HIDE DEF f, t
<1>5. /\ t.goaway_flags = s.goaway_flags
      /\ t.remote_last_stream_id = s.remote_last_stream_id
      /\ t.last_recv_stream_id = s.last_recv_stream_id
      /\ t.last_sent_stream_id = s.last_sent_stream_id
      /\ t.recv_window_size = s.recv_window_size
      /\ t.remote_window_size = s.remote_window_size
      /\ t.ob_syn = s.ob_syn /\ t.streams = s.streams
      /\ t.ob_reg = Append(s.ob_reg, f)
  BY <1>1, <1>4 DEF SessionType
<1>6. Members(t.ob_reg) = Members(s.ob_reg) \cup {f}
  <2>1. PICK T : T = Regular(TRUE)
    OBVIOUS
  <2>2. s.ob_reg \in Seq(T) /\ f \in T
    BY <1>2, <1>3, <2>1, Zenon
  <2> QED
    BY <1>5, <2>2, Sent
<1>7. ASSUME c.goaway_flags = {} PROVE Begun(s, id)
  <2>1. CASE s.streams[id].state = "OPENING"
    <3>1. Odd(id)
      BY <1>7, <2>1 DEF Core, Polite, Answers
    <3>2. ~Mine(TRUE, id)
      BY <1>2, <3>1, OddIds
    <3>3. ~(s.last_recv_stream_id < id)
      BY <1>1, <2>1, <3>2 DEF SessionInv, Fresh
    <3> QED
      BY <1>2, <3>1, <3>3 DEF Begun
  <2>2. CASE s.streams[id].state = "RESERVED" /\ id <= s.last_sent_stream_id
    <3>1. id % 2 = 0
      BY <1>1, <2>2 DEF IdsOK, EvenReserved
    <3> QED
      BY <2>2, <3>1 DEF Begun, Odd
  <2> QED
    BY <2>1, <2>2
<1> QED
  BY <1>1, <1>3, <1>5, <1>6, <1>7, ServerQueues DEF t

\* What the submission of a promise leaves of the server.
PromiseLeft(s, t, id) ==
    LET n == s.next_stream_id IN
    /\ t.goaway_flags = s.goaway_flags
    /\ t.remote_last_stream_id = s.remote_last_stream_id
    /\ t.last_recv_stream_id = s.last_recv_stream_id
    /\ t.last_sent_stream_id = s.last_sent_stream_id
    /\ t.recv_window_size = s.recv_window_size
    /\ t.remote_window_size = s.remote_window_size
    /\ t.ob_syn = s.ob_syn /\ t.ob_reg = Append(s.ob_reg, PushPromise(id, n))
    /\ \A k \in StreamIds : k # n => t.streams[k] = s.streams[k]
    /\ t.streams[n].state = "RESERVED" /\ t.streams[n].shut = {"RD"}
    /\ t.streams[n].item = NoItem /\ t.streams[n].recv_window_size = 0

LEMMA PromiseOpens ==
    ASSUME NEW srv \in BOOLEAN, srv, NEW s, SessionInv(srv, s), NEW id \in StreamIds,
           Active(s, id), s.next_stream_id \in StreamIds
    PROVE  /\ PromiseLeft(s, submit_push_promise(s, id), id)
           /\ ~Odd(s.next_stream_id) /\ s.last_sent_stream_id < s.next_stream_id
           /\ PushPromise(id, s.next_stream_id) \in Promises
           /\ ~Mine(srv, id) => ~(s.last_recv_stream_id < id)
<1> DEFINE n == s.next_stream_id
<1> DEFINE f == PushPromise(id, n)
<1> DEFINE u == [s EXCEPT !.next_stream_id = @ + 2]
<1> DEFINE o == open_stream(u, n, "RESERVED")
<1> DEFINE t == submit_push_promise(s, id)
<1>1. s \in SessionType(srv) /\ Sound(srv, s) /\ Fresh(srv, s)
  BY DEF SessionInv, Sound
<1>2. n \in StreamIds /\ n \in Nat /\ s.next_stream_id \in Nat
  BY IdsFinite
<1>3. Mine(srv, n) /\ s.last_sent_stream_id < n /\ s.streams[n].state = "IDLE"
  <2>1. InOrder(s.ob_reg, s.last_sent_stream_id, s.next_stream_id) /\ Mine(srv, n)
    BY <1>1 DEF Fresh
  <2>2. s.last_sent_stream_id < n
    BY <2>1 DEF InOrder
  <2>3. \A k \in StreamIds : Mine(srv, k) /\ s.next_stream_id <= k => s.streams[k].state = "IDLE"
    BY <1>1 DEF Fresh
  <2>4. s.next_stream_id <= n
    BY <1>2
  <2>5. s.streams[n].state = "IDLE"
    BY <1>2, <2>1, <2>3, <2>4
  <2> QED
    BY <2>1, <2>2, <2>5
<1>4. ~Odd(n) /\ n % 2 = 0
  BY <1>2, <1>3 DEF Mine, Odd
<1>5. ~Mine(srv, id) => ~(s.last_recv_stream_id < id)
  BY <1>1 DEF Fresh, Active
<1>6. f \in Promises
  BY <1>2, <1>4 DEF PushPromise, Promises
<1>7. /\ u \in SessionType(srv) /\ u.server /\ u.ob_reg = s.ob_reg /\ u.ob_syn = s.ob_syn
      /\ u.streams = s.streams /\ u.goaway_flags = s.goaway_flags
      /\ u.remote_last_stream_id = s.remote_last_stream_id
      /\ u.last_recv_stream_id = s.last_recv_stream_id
      /\ u.last_sent_stream_id = s.last_sent_stream_id
      /\ u.recv_window_size = s.recv_window_size
      /\ u.remote_window_size = s.remote_window_size
      /\ u.num_outgoing_streams = s.num_outgoing_streams
      /\ u.num_incoming_streams = s.num_incoming_streams
      /\ u.num_incoming_reserved_streams = s.num_incoming_reserved_streams
  <2>1. s.next_stream_id + 2 \in Nat
    BY <1>2
  <2> QED
    BY <1>1, <2>1 DEF SessionType
<1>8. t = [o EXCEPT !.ob_reg = Append(@, f)]
  BY DEF submit_push_promise, Enqueue
<1>9. Opened(u, o, n, "RESERVED")
  BY <1>2, <1>7, OpenedFields
<1>10. o \in SessionType(srv)
  <2>1. Sound(srv, u)
    BY <1>1, <1>7, SoundSame
  <2>2. Sound(srv, o)
    BY <1>2, <1>3, <1>7, <2>1, OpenReserved
  <2> QED
    BY <2>2 DEF Sound
<1>11. is_my_stream_id(u, n)
  BY <1>2, <1>3, <1>7, MineIs
<1> HIDE DEF f, u, o, t, n
<1>12. /\ t.goaway_flags = o.goaway_flags
       /\ t.remote_last_stream_id = o.remote_last_stream_id
      /\ t.last_recv_stream_id = o.last_recv_stream_id
      /\ t.last_sent_stream_id = o.last_sent_stream_id
      /\ t.recv_window_size = o.recv_window_size
      /\ t.remote_window_size = o.remote_window_size
      /\ t.ob_syn = o.ob_syn /\ t.streams = o.streams
      /\ t.ob_reg = Append(o.ob_reg, f)
  BY <1>8, <1>10 DEF SessionType
<1>13. /\ t.goaway_flags = s.goaway_flags
       /\ t.remote_last_stream_id = s.remote_last_stream_id
       /\ t.last_recv_stream_id = s.last_recv_stream_id
       /\ t.last_sent_stream_id = s.last_sent_stream_id
       /\ t.recv_window_size = s.recv_window_size
       /\ t.remote_window_size = s.remote_window_size
       /\ t.ob_syn = s.ob_syn /\ t.ob_reg = Append(s.ob_reg, f)
       /\ \A k \in StreamIds : k # n => t.streams[k] = s.streams[k]
       /\ t.streams[n].state = "RESERVED" /\ t.streams[n].shut = {"RD"}
       /\ t.streams[n].item = NoItem /\ t.streams[n].recv_window_size = 0
  BY <1>7, <1>9, <1>11, <1>12 DEF Opened, Steady
<1>14. PromiseLeft(s, t, id)
  BY <1>13 DEF PromiseLeft, f, n
<1> QED
  BY <1>3, <1>4, <1>5, <1>6, <1>14 DEF t, f, n

LEMMA PromiseQueued ==
    ASSUME NEW srv \in BOOLEAN, srv, NEW c, NEW s, NEW v, NEW w,
           Typed(c, s, v, w), SessionInv(srv, s), Core(c, s, v, w),
           NEW id \in StreamIds, s.streams[id].state = "OPENING", Odd(id),
           s.next_stream_id \in StreamIds
    PROVE  Core(c, submit_push_promise(s, id), v, w)
<1> DEFINE n == s.next_stream_id
<1> DEFINE f == PushPromise(id, n)
<1> DEFINE t == submit_push_promise(s, id)
<1>1. /\ PromiseLeft(s, t, id) /\ ~Odd(n) /\ s.last_sent_stream_id < n /\ f \in Promises
      /\ ~Mine(srv, id) => ~(s.last_recv_stream_id < id)
  BY PromiseOpens DEF Active
<1>2. /\ s.last_recv_stream_id \in Nat /\ id \in Nat /\ n \in Nat
      /\ s.last_sent_stream_id \in Nat
  BY TypedFields, IdsFinite
<1>3. s.ob_reg \in Seq(Regular(srv))
  BY FieldTypes DEF SessionInv, Sound
<1>4. f \in Regular(srv) /\ f.type = "PUSH_PROMISE" /\ f.id = id
  BY <1>1 DEF PushPromise, Regular
<1> HIDE DEF t, f
<1>5. Members(t.ob_reg) = Members(s.ob_reg) \cup {f}
  <2>1. t.ob_reg = Append(s.ob_reg, f)
    BY <1>1 DEF PromiseLeft, f
  <2>2. PICK T : T = Regular(srv)
    OBVIOUS
  <2>3. s.ob_reg \in Seq(T) /\ f \in T
    BY <1>3, <1>4, <2>2, Zenon
  <2> QED
    BY <2>1, <2>3, Sent
<1>6. ~Mine(srv, id)
  BY <1>2 DEF Mine, Odd
<1>7. Begun(s, id) /\ ~Begun(s, n)
  BY <1>1, <1>2, <1>6 DEF Begun
<1> HIDE DEF n
<1>8. /\ t.goaway_flags = s.goaway_flags
      /\ t.remote_last_stream_id = s.remote_last_stream_id
      /\ t.last_recv_stream_id = s.last_recv_stream_id
      /\ t.last_sent_stream_id = s.last_sent_stream_id
      /\ t.recv_window_size = s.recv_window_size
      /\ t.remote_window_size = s.remote_window_size
      /\ t.ob_syn = s.ob_syn
      /\ \A k \in StreamIds : k # n => t.streams[k] = s.streams[k]
      /\ t.streams[n].state = "RESERVED" /\ t.streams[n].shut = {"RD"}
      /\ t.streams[n].item = NoItem /\ t.streams[n].recv_window_size = 0
  BY <1>1 DEF PromiseLeft, n
<1>9. \A k \in StreamIds :
         \/ t.streams[k] = s.streams[k]
         \/ /\ ~Odd(k) /\ ~Begun(s, k)
            /\ t.streams[k].state = "RESERVED" /\ t.streams[k].shut = {"RD"}
            /\ t.streams[k].item = NoItem /\ t.streams[k].recv_window_size = 0
  BY <1>1, <1>7, <1>8
<1>10. \A g \in Members(t.ob_reg) :
         \/ g \in Members(s.ob_reg)
         \/ /\ g.type \in {"HEADERS", "PUSH_PROMISE"}
            /\ g.type = "PUSH_PROMISE" => Odd(g.id)
            /\ c.goaway_flags = {} => Begun(s, g.id)
  BY <1>4, <1>5, <1>7
<1>11. Core(c, t, v, w)
  BY <1>8, <1>9, <1>10, ServerQueues
<1> QED
  BY <1>11 DEF t

\* The next promise is sent.
LEMMA PromiseOut ==
    ASSUME NEW c, NEW s, NEW v, NEW w, Typed(c, s, v, w), Core(c, s, v, w),
           \A g \in Members(w) : g.type = "PUSH_PROMISE" => g.promised <= s.last_sent_stream_id,
           NEW f \in Promises, s.last_sent_stream_id < f.promised,
           c.goaway_flags = {} => Odd(f.id) /\ Begun(s, f.id),
           NEW t, t.last_sent_stream_id = f.promised,
           t.goaway_flags = s.goaway_flags,
           t.remote_last_stream_id = s.remote_last_stream_id,
           t.last_recv_stream_id = s.last_recv_stream_id,
           t.recv_window_size = s.recv_window_size,
           t.remote_window_size = s.remote_window_size,
           t.ob_syn = s.ob_syn, t.ob_reg = s.ob_reg, t.streams = s.streams
    PROVE  Core(c, t, v, Append(w, f))
<1> DEFINE q == Append(w, f)
<1>1. ServerOK(s, w) /\ GoawaysOK(c) /\ HeardOK(s, v) /\ RoomOK(s, v)
  BY DEF Core
<1>2. /\ f \in AllFrames /\ f.type = "PUSH_PROMISE" /\ f.id \in StreamIds
      /\ f.promised \in Nat /\ f.promised \in StreamIds
      /\ s.last_sent_stream_id \in Nat /\ c.last_recv_stream_id \in Nat
      /\ w \in Seq(AllFrames) /\ Members(w) \subseteq AllFrames
      /\ v \in Seq(AllFrames) /\ Members(v) \subseteq AllFrames
      /\ Members(s.ob_reg) \subseteq AllFrames
      /\ Members(s.ob_syn) \subseteq Resets /\ Members(c.ob_syn) \subseteq Resets
  <2>1. f \in AllFrames
    BY DEF AllFrames, Frames, Regular
  <2>2. f.type = "PUSH_PROMISE" /\ f.id \in StreamIds /\ f.promised \in StreamIds
    BY DEF Promises
  <2> QED
    BY <2>1, <2>2, TypedFields, IdsFinite
<1>3. /\ Members(q) = Members(w) \cup {f}
      /\ \A type, k : Has(w, type, k) => Has(q, type, k)
  BY <1>2, Sent
<1>4. \A k : Active(t, k) <=> Active(s, k)
  BY DEF Active
<1>5. \A k \in StreamIds : Begun(s, k) => Begun(t, k)
  <2>1. \A k \in StreamIds : k \in Nat
    BY IdsFinite
  <2> QED
    BY <1>2, <2>1 DEF Begun
<1> HIDE DEF q
<1>6. ServerOK(t, q)
  <2>1. NoRecv(t)
    BY <1>1 DEF ServerOK, NoRecv
  <2> QED
    BY <1>1, <1>2, <1>3, <1>4, <2>1 DEF ServerOK
<1>7. HeardOK(t, v)
  <2>0. Levels \subseteq Nat /\ StreamIds \subseteq Nat
    BY IdsFinite DEF Levels
  <2>1. \A g \in Members(v) : g.type \in {"RST_STREAM", "WINDOW_UPDATE"} => g.id \in Nat
    BY <1>2, <2>0, FrameFields
  <2>2. \A g \in Members(v) : g.type \in {"RST_STREAM", "WINDOW_UPDATE"} /\ ~Odd(g.id) =>
          g.id <= t.last_sent_stream_id
    BY <1>1, <1>2, <2>1 DEF HeardOK
  <2> QED
    BY <1>1, <2>2 DEF HeardOK
<1>8. RoomOK(t, v)
  BY <1>1, <1>4, RoomShrinks
<1>9. ASSUME c.goaway_flags = {} PROVE Polite(c, t, v, q)
  <2>1. /\ s.goaway_flags = {} /\ s.remote_last_stream_id = Unlimited
        /\ Asked(c) /\ Underway(c, s, v) /\ Spoken(s, w)
        /\ Announced(c, s, w) /\ Answers(c, s, w) /\ Listens(c) /\ Followed(c, s, v)
        /\ s.remote_window_size >= 0 /\ c.local_window_size = InitialWindow
    BY <1>9 DEF Core, Polite
  <2>2. Underway(c, t, v)
    <3>1. \A g \in Members(c.ob_syn) : g.id \in Nat
      BY <1>2, IdsFinite DEF Resets
    <3>2. \A g \in Members(c.ob_syn) : IF Odd(g.id) THEN g.id < c.next_stream_id
                                                    ELSE g.id <= t.last_sent_stream_id
      BY <1>2, <2>1, <3>1 DEF Underway
    <3> QED
      BY <2>1, <3>2 DEF Underway
  <2>3. Spoken(t, q)
    <3>1. \A g \in Members(s.ob_syn) : g.id \in StreamIds
      BY <1>2 DEF Resets
    <3>2. \A g \in Members(s.ob_reg) \cup Members(w) :
            g.type \in {"HEADERS", "PUSH_PROMISE", "DATA", "RST_STREAM"} => g.id \in StreamIds
      BY <1>2, FrameFields
    <3>3. Odd(f.id) /\ Begun(t, f.id)
      BY <1>2, <1>5, <1>9
    <3>4. \A g \in Members(s.ob_syn) : Begun(t, g.id)
      BY <1>5, <2>1, <3>1 DEF Spoken
    <3>5. \A g \in Members(s.ob_reg) \cup Members(w) :
            /\ g.type \in {"HEADERS", "PUSH_PROMISE", "DATA", "RST_STREAM"} => Begun(t, g.id)
            /\ g.type = "PUSH_PROMISE" => Odd(g.id)
      BY <1>5, <2>1, <3>2 DEF Spoken
    <3> QED
      BY <1>3, <3>3, <3>4, <3>5 DEF Spoken
  <2>4. Announced(c, t, q)
    <3>1. c.last_recv_stream_id <= s.last_sent_stream_id
      BY <2>1 DEF Announced
    <3>2. Apart(q, PushesDescend)
      <4>1. ASSUME NEW g \in Members(w) PROVE <<g, f>> \notin PushesDescend
        <5>1. g \in AllFrames
          BY <1>2
        <5>2. g.type = "PUSH_PROMISE" => g.promised <= s.last_sent_stream_id /\ g.promised \in Nat
          BY <5>1, FrameFields, IdsFinite
        <5> QED
          BY <1>2, <5>1, <5>2, RelationsIff
      <4> QED
        BY <1>2, <2>1, <4>1, ApartAppend DEF Announced, q
    <3>3. Guarded(q, KnownPushes(c.last_recv_stream_id), Promised)
      <4>1. f \in KnownPushes(c.last_recv_stream_id)
        BY <1>2 DEF KnownPushes
      <4> QED
        BY <1>2, <2>1, <4>1, GuardedAppend DEF Announced, q
    <3>4. \A g \in Members(q) : g.type = "PUSH_PROMISE" => c.last_recv_stream_id < g.promised
      BY <1>2, <1>3, <2>1, <3>1 DEF Announced
    <3>5. f \in Members(q) /\ f.type = "PUSH_PROMISE" /\ t.last_sent_stream_id <= f.promised
      BY <1>2, <1>3
    <3> QED
      BY <1>2, <3>1, <3>2, <3>3, <3>4, <3>5 DEF Announced
  <2>5. Answers(c, t, q)
    <3>1. Guarded(q, Readable(c), Headed)
      <4>1. f \in Readable(c)
        BY <1>2 DEF Readable
      <4> QED
        BY <1>2, <2>1, <4>1, GuardedAppend DEF Answers, q
    <3>2. \A g \in Members(q) : g.type = "RST_STREAM" \/ Complete(g) => ~Active(t, g.id)
      BY <1>2, <1>3, <1>4, <2>1 DEF Answers, Complete
    <3>3. \A k \in StreamIds :
            /\ t.streams[k].state = "OPENING" => Odd(k)
            /\ t.streams[k].item # NoItem =>
                 Begun(t, k) /\ (DataAllowed(c, k) \/ Has(q, "HEADERS", k))
      BY <1>3, <1>5, <2>1 DEF Answers
    <3> QED
      BY <3>1, <3>2, <3>3 DEF Answers
  <2>6. Followed(c, t, v)
    BY <1>4, <2>1 DEF Followed
  <2> QED
    BY <2>1, <2>2, <2>3, <2>4, <2>5, <2>6 DEF Polite
<1>10. ASSUME c.goaway_flags # {} PROVE PartingOK(c, t, v)
  <2>1. PartingOK(c, s, v)
    BY <1>10 DEF Core
  <2> QED
    BY <2>1, PartingFewer
<1> QED
  BY <1>1, <1>6, <1>7, <1>8, <1>9, <1>10 DEF Core, q

\* A request has been seen: it opens its stream, or is refused.
RequestSeen(s, t, id) ==
    /\ t.goaway_flags = s.goaway_flags
    /\ t.remote_last_stream_id = s.remote_last_stream_id
    /\ t.last_recv_stream_id = id
    /\ t.last_sent_stream_id = s.last_sent_stream_id
    /\ t.recv_window_size = s.recv_window_size
    /\ t.remote_window_size = s.remote_window_size
    /\ t.ob_reg = s.ob_reg
    /\ \A f \in Members(t.ob_syn) : f \in Members(s.ob_syn) \/ f.id = id
    /\ \A k \in StreamIds : k # id => t.streams[k] = s.streams[k]
    /\ \/ t.streams[id] = s.streams[id]
       \/ /\ t.streams[id].state = "OPENING" /\ "RD" \in t.streams[id].shut
          /\ t.streams[id].item = NoItem /\ t.streams[id].recv_window_size = 0

LEMMA RequestIn ==
    ASSUME NEW c, NEW s, NEW v, NEW w, Typed(c, s, v, w), Core(c, s, v, w),
           v # <<>>, Head(v).type = "HEADERS", NEW t, RequestSeen(s, t, Head(v).id)
    PROVE  Core(c, t, Tail(v), w)
<1> DEFINE h == Head(v)
<1> DEFINE id == h.id
<1> DEFINE q == Tail(v)
<1>1. ServerOK(s, w) /\ GoawaysOK(c) /\ HeardOK(s, v) /\ RoomOK(s, v)
  BY DEF Core
<1>2. /\ h \in AllFrames /\ q \in Seq(AllFrames) /\ Members(v) = Members(q) \cup {h}
      /\ v \in Seq(AllFrames) /\ Members(v) \subseteq AllFrames
      /\ \A type, k : Has(q, type, k) => Has(v, type, k)
      /\ \A type, k : Has(v, type, k) => Has(q, type, k) \/ (h.type = type /\ h.id = k)
  BY TypedFields, TakenFirst
<1>3. /\ h.type = "HEADERS" /\ id \in StreamIds /\ id \in Nat /\ Odd(id)
      /\ s.last_recv_stream_id < id
      /\ s.last_recv_stream_id \in Nat /\ c.last_sent_stream_id \in Nat
      /\ Members(w) \subseteq AllFrames /\ Members(s.ob_reg) \subseteq AllFrames
      /\ Members(s.ob_syn) \subseteq Resets
      /\ StreamIds \subseteq Nat
  <2>1. h \in Members(v) /\ h \in Frames(FALSE) /\ FALSE \in BOOLEAN
    BY <1>2, TypedFields
  <2>2. h.type = "HEADERS"
    OBVIOUS
  <2>3. Odd(id)
    BY <2>1, <2>2, FrameKinds
  <2>4. id \in StreamIds
    BY <1>2, <2>2, FrameFields
  <2> QED
    BY <1>1, <2>1, <2>2, <2>3, <2>4, TypedFields, IdsFinite DEF HeardOK
<1>4. /\ t.goaway_flags = s.goaway_flags
      /\ t.remote_last_stream_id = s.remote_last_stream_id
      /\ t.last_recv_stream_id = id
      /\ t.last_sent_stream_id = s.last_sent_stream_id
      /\ t.recv_window_size = s.recv_window_size
      /\ t.remote_window_size = s.remote_window_size
      /\ t.ob_reg = s.ob_reg
      /\ \A f \in Members(t.ob_syn) : f \in Members(s.ob_syn) \/ f.id = id
      /\ \A k \in StreamIds : k # id => t.streams[k] = s.streams[k]
      /\ \/ t.streams[id] = s.streams[id]
         \/ /\ t.streams[id].state = "OPENING" /\ "RD" \in t.streams[id].shut
            /\ t.streams[id].item = NoItem /\ t.streams[id].recv_window_size = 0
  BY DEF RequestSeen
<1> HIDE DEF h, q
<1> HIDE DEF id
<1>5. \A k \in StreamIds : Active(t, k) => Active(s, k) \/ k = id
  BY <1>4 DEF Active
<1>6. \A k \in StreamIds : Begun(s, k) => Begun(t, k)
  BY <1>3, <1>4 DEF Begun
<1>7. ServerOK(t, w)
  <2>1. NoRecv(t)
    BY <1>1, <1>3, <1>4 DEF ServerOK, NoRecv
  <2>2. \A k \in StreamIds : Active(t, k) => "RD" \in t.streams[k].shut
    BY <1>1, <1>3, <1>4 DEF ServerOK, Active
  <2> QED
    BY <1>1, <1>4, <2>1, <2>2 DEF ServerOK
<1>8. HeardOK(t, q)
  <2>1. Apart(q, Revives) /\ \A g \in Members(q) : <<h, g>> \notin Revives
    <3>1. Apart(v, Revives)
      BY <1>1 DEF HeardOK
    <3> QED
      BY <1>2, <3>1, ApartTail DEF h, q
  <2>2. ASSUME NEW g \in Members(q), g.type = "HEADERS" PROVE id < g.id
    <3>1. g \in AllFrames /\ g.id \in Nat
      BY <1>2, <1>3, <2>2, FrameFields
    <3>2. ~(g.id <= id)
      BY <1>2, <1>3, <2>1, <2>2, <3>1, RevivesIff DEF id
    <3> QED
      BY <1>3, <3>1, <3>2
  <2>3. Guarded(q, KnownRequests(id), Introduces)
    <3>1. Guarded(v, KnownRequests(s.last_recv_stream_id), Introduces)
      BY <1>1 DEF HeardOK
    <3>2. ASSUME NEW f \in Members(q),
                 f \in KnownRequests(s.last_recv_stream_id) \/ <<h, f>> \in Introduces
          PROVE  f \in KnownRequests(id)
      <4>1. f \in AllFrames
        BY <1>2
      <4>2. SUFFICES ASSUME f.type \in {"RST_STREAM", "WINDOW_UPDATE"}, Odd(f.id)
                     PROVE  f.id <= id
        BY <4>1 DEF KnownRequests
      <4>3. f.id \in Nat
        <5>1. f.id \in Levels
          <6>1. f.type = "RST_STREAM" => f.id \in StreamIds
            BY <4>1, FrameFields
          <6>2. f.type = "WINDOW_UPDATE" => f.id \in Levels
            BY <4>1, FrameFields
          <6> QED
            BY <4>2, <6>1, <6>2 DEF Levels
        <5>2. Levels \subseteq Nat
          BY <1>3 DEF Levels
        <5> QED
          BY <5>1, <5>2
      <4>4. f \in KnownRequests(s.last_recv_stream_id) => f.id <= s.last_recv_stream_id
        BY <4>2 DEF KnownRequests
      <4>5. <<h, f>> \in Introduces => f.id <= id
        BY <1>2, <4>1, RelationsIff DEF id
      <4> QED
        BY <1>3, <3>2, <4>3, <4>4, <4>5
    <3> QED
      BY <1>2, <3>1, <3>2, GuardedTail DEF h, q
  <2>4. Members(q) \subseteq Members(v)
    BY <1>2
  <2> QED
    BY <1>1, <1>4, <2>1, <2>2, <2>3, <2>4 DEF HeardOK
<1>9. RoomOK(t, q)
  <2>1. Apart(v, Revives)
    BY <1>1 DEF HeardOK
  <2>2. \A k \in StreamIds : Odd(k) /\ Active(t, k) =>
          /\ Active(s, k) \/ (Head(v).type = "HEADERS" /\ Head(v).id = k)
          /\ ~(Head(v).type = "RST_STREAM" /\ Head(v).id = k)
    BY <1>5 DEF id, h
  <2> QED
    BY <1>1, <1>2, <2>1, <2>2, RoomTail DEF q
<1>10. ASSUME c.goaway_flags = {} PROVE Polite(c, t, q, w)
  <2>1. /\ s.goaway_flags = {} /\ s.remote_last_stream_id = Unlimited
        /\ Asked(c) /\ Underway(c, s, v) /\ Spoken(s, w)
        /\ Announced(c, s, w) /\ Answers(c, s, w) /\ Listens(c) /\ Followed(c, s, v)
        /\ s.remote_window_size >= 0 /\ c.local_window_size = InitialWindow
    BY <1>10 DEF Core, Polite
  <2>2. Underway(c, t, q)
    <3>1. id <= c.last_sent_stream_id
      BY <1>2, <1>3, <2>1 DEF Underway, id
    <3>2. \/ c.last_sent_stream_id <= id
          \/ \E f \in Members(q) : f.type = "HEADERS" /\ c.last_sent_stream_id <= f.id
      <4>1. CASE c.last_sent_stream_id <= s.last_recv_stream_id
        BY <1>3, <4>1
      <4>2. CASE ~(c.last_sent_stream_id <= s.last_recv_stream_id)
        <5>1. PICK f \in Members(v) : f.type = "HEADERS" /\ c.last_sent_stream_id <= f.id
          BY <2>1, <4>2 DEF Underway
        <5> QED
          BY <1>2, <5>1 DEF id
      <4> QED
        BY <4>1, <4>2
    <3> QED
      BY <1>2, <1>4, <2>1, <3>1, <3>2 DEF Underway
  <2>3. Spoken(t, w)
    <3>1. \A g \in Members(s.ob_syn) : g.id \in StreamIds
      BY <1>3 DEF Resets
    <3>2. \A g \in Members(s.ob_reg) \cup Members(w) :
            g.type \in {"HEADERS", "PUSH_PROMISE", "DATA", "RST_STREAM"} => g.id \in StreamIds
      BY <1>3, FrameFields
    <3>3. Begun(t, id)
      BY <1>3, <1>4 DEF Begun
    <3>4. \A g \in Members(t.ob_syn) : Begun(t, g.id)
      BY <1>4, <1>6, <2>1, <3>1, <3>3 DEF Spoken
    <3>5. \A g \in Members(s.ob_reg) \cup Members(w) :
            /\ g.type \in {"HEADERS", "PUSH_PROMISE", "DATA", "RST_STREAM"} => Begun(t, g.id)
            /\ g.type = "PUSH_PROMISE" => Odd(g.id)
      BY <1>6, <2>1, <3>2 DEF Spoken
    <3> QED
      BY <1>4, <3>4, <3>5 DEF Spoken
  <2>4. Announced(c, t, w)
    BY <1>4, <2>1 DEF Announced
  <2>5. Answers(c, t, w)
    <3>1. ASSUME NEW g \in Members(w), g.type = "RST_STREAM" \/ Complete(g)
          PROVE  ~Active(t, g.id)
      <4>1. g \in AllFrames /\ g.type \in {"RST_STREAM", "HEADERS", "DATA"}
        BY <1>3, <3>1 DEF Complete
      <4>2. g.id \in StreamIds /\ g.id \in Nat
        BY <1>3, <4>1, FrameFields
      <4>3. Begun(s, g.id) /\ ~Active(s, g.id)
        BY <2>1, <3>1, <4>1 DEF Spoken, Answers
      <4>4. ~Begun(s, id)
        BY <1>3 DEF Begun
      <4> QED
        BY <1>5, <4>2, <4>3, <4>4
    <3>2. \A k \in StreamIds :
            /\ t.streams[k].state = "OPENING" => Odd(k)
            /\ t.streams[k].item # NoItem =>
                 Begun(t, k) /\ (DataAllowed(c, k) \/ Has(w, "HEADERS", k))
      BY <1>3, <1>4, <1>6, <2>1 DEF Answers
    <3> QED
      BY <2>1, <3>1, <3>2 DEF Answers
  <2>6. Followed(c, t, q)
    <3> SUFFICES ASSUME NEW k \in StreamIds, Odd(k), Active(t, k) \/ Has(q, "HEADERS", k),
                        ~Active(c, k)
                 PROVE  Has(q, "RST_STREAM", k)
      BY DEF Followed
    <3>1. Has(v, "HEADERS", id)
      BY <1>2, <1>3 DEF Has, id
    <3>2. Active(s, k) \/ Has(v, "HEADERS", k)
      BY <1>2, <1>5, <3>1
    <3>3. Has(v, "RST_STREAM", k)
      BY <2>1, <3>2 DEF Followed
    <3> QED
      BY <1>2, <1>3, <3>3
  <2> QED
    BY <1>4, <2>1, <2>2, <2>3, <2>4, <2>5, <2>6 DEF Polite
<1>11. ASSUME c.goaway_flags # {} PROVE PartingOK(c, t, q)
  <2>1. PartingOK(c, s, v)
    BY <1>11 DEF Core
  <2>2. Goodbyes(c, q) \subseteq Goodbyes(c, v)
    BY <1>2 DEF Goodbyes
  <2> QED
    BY <1>4, <2>1, <2>2, PartingFewer
<1> QED
  BY <1>1, <1>7, <1>8, <1>9, <1>10, <1>11 DEF Core, q

\* There is room for the next request.
LEMMA RoomThere ==
    ASSUME NEW srv \in BOOLEAN, srv, NEW s, SessionInv(srv, s), NEW v, RoomOK(s, v),
           1 \in 1 .. Len(v), v[1].type = "HEADERS", s.local_max \in {Unlimited, ServerMax}
    PROVE  ~incoming_max(s)
<1> DEFINE X == {k \in StreamIds : Incoming(s, k)}
<1>1. s \in SessionType(srv) /\ s.num_incoming_streams = Cardinality(X)
  BY DEF SessionInv, Sound, CountersMatch
<1>2. X \in SUBSET Ahead(s, v, 1)
  <2> SUFFICES ASSUME NEW k \in StreamIds, Incoming(s, k) PROVE k \in Ahead(s, v, 1)
    BY DEF X
  <2>1. k \in Nat
    BY IdsFinite
  <2>2. Active(s, k) /\ ~Mine(srv, k)
    BY <1>1, <2>1, MineIs DEF Incoming
  <2>3. Odd(k)
    BY <2>1, <2>2 DEF Mine, Odd
  <2>4. ~Before(v, 1, "RST_STREAM", k)
    BY DEF Before
  <2> QED
    BY <2>2, <2>3, <2>4 DEF Ahead
<1>3. Ahead(s, v, 1) \in SUBSET StreamIds
  BY DEF Ahead
<1>4. Cardinality(Ahead(s, v, 1)) < ServerMax
  BY DEF RoomOK
<1> HIDE DEF X
<1>5. /\ Cardinality(X) \in Nat /\ Cardinality(Ahead(s, v, 1)) \in Nat
      /\ Cardinality(X) <= Cardinality(Ahead(s, v, 1))
  BY <1>2, <1>3, FewerIds
<1>6. Cardinality(X) < ServerMax
  BY <1>4, <1>5, LimitAssumption
<1>7. Cardinality(X) < Unlimited
  <2>1. X \in SUBSET StreamIds
    BY <1>2, <1>3
  <2>2. Cardinality(StreamIds) = MaxStreamId
    <3>1. Cardinality(1 .. MaxStreamId) = IF 1 > MaxStreamId THEN 0 ELSE MaxStreamId - 1 + 1
      BY SizeAssumption, FS_Interval
    <3> QED
      BY <3>1, SizeAssumption DEF StreamIds
  <2>3. Cardinality(X) <= Cardinality(StreamIds)
    BY <2>1, FewerIds
  <2> QED
    BY <1>5, <2>2, <2>3, SizeAssumption DEF Unlimited
<1> QED
  BY <1>1, <1>5, <1>6, <1>7, LimitAssumption, SizeAssumption DEF incoming_max, Unlimited

\* What the server makes of a request.
LEMMA RequestRead ==
    ASSUME NEW srv \in BOOLEAN, srv, NEW s, SessionInv(srv, s), NEW f, f.id \in StreamIds,
           ~Mine(srv, f.id), s.last_recv_stream_id < f.id,
           ~incoming_max(s), allow_incoming_new_stream(s)
    PROVE  LET t == process_headers_frame(s, f) IN
           RequestSeen(s, t, f.id) /\ SameSettings(s, t)
<1> DEFINE id == f.id
<1> DEFINE t == [s EXCEPT !.last_recv_stream_id = id]
<1> DEFINE o == open_stream(t, id, "OPENING")
<1> DEFINE x == [o EXCEPT !.last_proc_stream_id = id]
<1>1. /\ s \in SessionType(srv) /\ s.server /\ id \in StreamIds /\ id \in Nat
      /\ s.last_recv_stream_id \in Nat
  BY FieldTypes, IdsFinite DEF SessionInv, Sound
<1>2. s.streams[id].state = "IDLE" /\ ~Active(s, id)
  BY DEF SessionInv, Fresh, Active
<1>3. process_headers_frame(s, f) =
        IF incoming_pending_max(s) THEN add_rst_stream(t, id) ELSE shutdown(x, id, "RD")
  <2>1. is_new_peer_stream_id(s, id)
    BY <1>1, MineIs DEF is_new_peer_stream_id
  <2> QED
    BY <1>1, <1>2, <2>1 DEF process_headers_frame, on_request_headers_received
<1>4. /\ t \in SessionType(srv) /\ t.server = s.server
      /\ t.goaway_flags = s.goaway_flags
      /\ t.remote_last_stream_id = s.remote_last_stream_id
      /\ t.last_recv_stream_id = id
      /\ t.last_sent_stream_id = s.last_sent_stream_id
      /\ t.recv_window_size = s.recv_window_size
      /\ t.remote_window_size = s.remote_window_size
      /\ t.ob_reg = s.ob_reg /\ t.ob_syn = s.ob_syn /\ t.streams = s.streams
      /\ SameSettings(s, t)
  BY <1>1 DEF SessionType, SameSettings
<1>5. CASE incoming_pending_max(s)
  <2>1. add_rst_stream(t, id) = [t EXCEPT !.ob_syn = Append(@, RstStream(id))]
    BY <1>2, <1>4 DEF add_rst_stream, Active, Enqueue
  <2> DEFINE u == [t EXCEPT !.ob_syn = Append(@, RstStream(id))]
  <2>2. /\ u.goaway_flags = t.goaway_flags
        /\ u.remote_last_stream_id = t.remote_last_stream_id
        /\ u.last_recv_stream_id = t.last_recv_stream_id
        /\ u.last_sent_stream_id = t.last_sent_stream_id
        /\ u.recv_window_size = t.recv_window_size
        /\ u.remote_window_size = t.remote_window_size
        /\ u.ob_reg = t.ob_reg /\ u.ob_syn = Append(t.ob_syn, RstStream(id))
        /\ u.streams = t.streams /\ SameSettings(t, u)
    BY <1>4 DEF SessionType, SameSettings
  <2>3. Members(u.ob_syn) = Members(t.ob_syn) \cup {RstStream(id)}
    <3>1. t.ob_syn \in Seq(Resets) /\ RstStream(id) \in Resets
      BY <1>1, <1>4, FieldTypes DEF RstStream, Resets
    <3> QED
      BY <2>2, <3>1, Sent
  <2>4. RstStream(id).id = id
    BY DEF RstStream
  <2> HIDE DEF t, u
  <2>5. RequestSeen(s, u, id) /\ SameSettings(s, u)
    BY <1>4, <2>2, <2>3, <2>4 DEF RequestSeen, SameSettings
  <2> QED
    BY <1>3, <1>5, <2>1, <2>5 DEF u
<1>6. CASE ~incoming_pending_max(s)
  <2>1. x \in SessionType(srv)
    <3>1. SessionInv(srv, x)
      BY <1>1, PeerStream
    <3> QED
      BY <3>1 DEF SessionInv, Sound
  <2>2. Opened(t, o, id, "OPENING")
    BY <1>1, <1>4, OpenedFields
  <2> HIDE DEF t
  <2>3. /\ x.goaway_flags = o.goaway_flags
        /\ x.remote_last_stream_id = o.remote_last_stream_id
        /\ x.last_recv_stream_id = o.last_recv_stream_id
        /\ x.last_sent_stream_id = o.last_sent_stream_id
        /\ x.recv_window_size = o.recv_window_size
        /\ x.remote_window_size = o.remote_window_size
        /\ x.ob_reg = o.ob_reg /\ x.ob_syn = o.ob_syn
        /\ x.streams = o.streams /\ SameSettings(o, x)
    BY <1>4 DEF SessionType, SameSettings, open_stream
  <2> HIDE DEF o
  <2>4. /\ o.goaway_flags = t.goaway_flags
        /\ o.remote_last_stream_id = t.remote_last_stream_id
        /\ o.last_recv_stream_id = t.last_recv_stream_id
        /\ o.last_sent_stream_id = t.last_sent_stream_id
        /\ o.recv_window_size = t.recv_window_size
        /\ o.remote_window_size = t.remote_window_size
        /\ o.ob_reg = t.ob_reg /\ o.ob_syn = t.ob_syn /\ SameSettings(t, o)
        /\ \A k \in StreamIds : k # id => o.streams[k] = t.streams[k]
        /\ o.streams[id].state = "OPENING" /\ o.streams[id].shut = {}
        /\ o.streams[id].item = NoItem /\ o.streams[id].recv_window_size = 0
    BY <2>2 DEF Opened, Steady
  <2> DEFINE u == shutdown(x, id, "RD")
  <2> HIDE DEF x
  <2>5. HalfClosed(x, u, id, "RD")
    <3>1. x.streams[id].shut \cup {"RD"} # {"RD", "WR"}
      BY <2>3, <2>4
    <3> QED
      BY <1>1, <2>1, <3>1, HalfShut
  <2> HIDE DEF u
  <2>6. /\ u.goaway_flags = x.goaway_flags
        /\ u.remote_last_stream_id = x.remote_last_stream_id
        /\ u.last_recv_stream_id = x.last_recv_stream_id
        /\ u.last_sent_stream_id = x.last_sent_stream_id
        /\ u.recv_window_size = x.recv_window_size
        /\ u.remote_window_size = x.remote_window_size
        /\ u.ob_reg = x.ob_reg /\ u.ob_syn = x.ob_syn /\ SameSettings(x, u)
        /\ \A k \in StreamIds : k # id => u.streams[k] = x.streams[k]
        /\ u.streams[id].state = x.streams[id].state
        /\ u.streams[id].item = x.streams[id].item
        /\ u.streams[id].recv_window_size = x.streams[id].recv_window_size
        /\ u.streams[id].shut = x.streams[id].shut \cup {"RD"}
    BY <2>5 DEF HalfClosed, Steady
  <2>7. SameSettings(s, u)
    BY <1>4, <2>3, <2>4, <2>6 DEF SameSettings
  <2>8. RequestSeen(s, u, id)
    <3>1. /\ u.goaway_flags = s.goaway_flags
          /\ u.remote_last_stream_id = s.remote_last_stream_id
          /\ u.last_recv_stream_id = id
          /\ u.last_sent_stream_id = s.last_sent_stream_id
          /\ u.recv_window_size = s.recv_window_size
          /\ u.remote_window_size = s.remote_window_size
          /\ u.ob_reg = s.ob_reg /\ u.ob_syn = s.ob_syn
          /\ \A k \in StreamIds : k # id => u.streams[k] = s.streams[k]
          /\ u.streams[id].state = "OPENING" /\ "RD" \in u.streams[id].shut
          /\ u.streams[id].item = NoItem /\ u.streams[id].recv_window_size = 0
      BY <1>4, <2>3, <2>4, <2>6
    <3> QED
      BY <3>1 DEF RequestSeen
  <2> QED
    BY <1>3, <1>6, <2>7, <2>8 DEF u, x, o, t
<1> QED
  BY <1>5, <1>6

\* A promise has been seen: it reserves its stream, or is refused.
PromiseSeen(c, d, f) ==
    /\ d.server = c.server /\ d.goaway_flags = c.goaway_flags
    /\ d.next_stream_id = c.next_stream_id
    /\ d.last_sent_stream_id = c.last_sent_stream_id
    /\ d.last_recv_stream_id = f.promised
    /\ d.last_proc_stream_id \in {c.last_proc_stream_id, f.promised}
    /\ d.local_last_stream_id = c.local_last_stream_id
    /\ d.local_window_size = c.local_window_size
    /\ d.ob_reg = c.ob_reg
    /\ \A g \in Members(d.ob_syn) : g \in Members(c.ob_syn) \/ g.id = f.promised
    /\ \A k \in StreamIds : k # f.promised => d.streams[k] = c.streams[k]
    /\ \/ d.streams[f.promised] = c.streams[f.promised]
       \/ /\ d.streams[f.promised].state = "RESERVED" /\ d.streams[f.promised].shut = {"WR"}
          /\ d.streams[f.promised].item = NoItem

LEMMA PromiseIn ==
    ASSUME NEW c, NEW s, NEW v, NEW w, Typed(c, s, v, w), Core(c, s, v, w),
           \A g \in Members(w) : g.type = "PUSH_PROMISE" => g.promised <= s.last_sent_stream_id,
           c.goaway_flags = {}, w # <<>>, Head(w).type = "PUSH_PROMISE",
           NEW d, PromiseSeen(c, d, Head(w))
    PROVE  Core(d, s, v, Tail(w))
<1> DEFINE h == Head(w)
<1> DEFINE id == h.promised
<1> DEFINE q == Tail(w)
<1>1. /\ ServerOK(s, w) /\ GoawaysOK(c) /\ HeardOK(s, v) /\ RoomOK(s, v)
      /\ s.goaway_flags = {} /\ s.remote_last_stream_id = Unlimited
      /\ Asked(c) /\ Underway(c, s, v) /\ Spoken(s, w)
      /\ Announced(c, s, w) /\ Answers(c, s, w) /\ Listens(c) /\ Followed(c, s, v)
      /\ s.remote_window_size >= 0 /\ c.local_window_size = InitialWindow
  BY DEF Core, Polite
<1>2. /\ h \in AllFrames /\ q \in Seq(AllFrames) /\ Members(w) = Members(q) \cup {h}
      /\ w \in Seq(AllFrames) /\ Members(w) \subseteq AllFrames
      /\ \A type, k : Has(q, type, k) => Has(w, type, k)
      /\ \A type, k : Has(w, type, k) => Has(q, type, k) \/ (h.type = type /\ h.id = k)
  BY TypedFields, TakenFirst
<1>3. /\ h.type = "PUSH_PROMISE" /\ h.id \in StreamIds /\ id \in StreamIds /\ id \in Nat
      /\ ~Odd(id) /\ StreamIds \subseteq Nat
      /\ c.last_recv_stream_id \in Nat /\ c.last_recv_stream_id < id
      /\ id <= s.last_sent_stream_id
      /\ s.last_sent_stream_id \in Nat /\ Members(c.ob_syn) \subseteq Resets /\ ~c.server
  <2>1. h.type = "PUSH_PROMISE"
    OBVIOUS
  <2>2. h.id \in StreamIds /\ id \in StreamIds /\ ~Odd(id)
    BY <1>2, <2>1, FrameFields
  <2>3. h \in Members(w)
    BY <1>2
  <2> QED
    BY <1>1, <2>1, <2>2, <2>3, TypedFields, IdsFinite DEF Announced
<1>4. /\ d.server = c.server /\ d.goaway_flags = c.goaway_flags
      /\ d.next_stream_id = c.next_stream_id
      /\ d.last_sent_stream_id = c.last_sent_stream_id
      /\ d.last_recv_stream_id = id
      /\ d.last_proc_stream_id \in {c.last_proc_stream_id, id}
      /\ d.local_last_stream_id = c.local_last_stream_id
      /\ d.local_window_size = c.local_window_size
      /\ d.ob_reg = c.ob_reg
      /\ \A g \in Members(d.ob_syn) : g \in Members(c.ob_syn) \/ g.id = id
      /\ \A k \in StreamIds : k # id => d.streams[k] = c.streams[k]
      /\ \/ d.streams[id] = c.streams[id]
         \/ /\ d.streams[id].state = "RESERVED" /\ d.streams[id].shut = {"WR"}
            /\ d.streams[id].item = NoItem
  BY DEF PromiseSeen
<1> HIDE DEF h, q
<1> HIDE DEF id
<1>5. \A k \in StreamIds : Odd(k) => d.streams[k] = c.streams[k]
  BY <1>3, <1>4
<1>6. ServerOK(s, q)
  BY <1>1, <1>2 DEF ServerOK
<1>7. GoawaysOK(d)
  BY <1>1, <1>3, <1>4 DEF GoawaysOK, LastOK
<1>8. Asked(d)
  BY <1>1, <1>4, <1>5 DEF Asked, Idle
<1>9. Underway(d, s, v)
  BY <1>1, <1>3, <1>4 DEF Underway
<1>10. Spoken(s, q)
  BY <1>1, <1>2 DEF Spoken
<1>11. Announced(d, s, q)
  <2>1. Apart(q, PushesDescend) /\ \A g \in Members(q) : <<h, g>> \notin PushesDescend
    <3>1. Apart(w, PushesDescend)
      BY <1>1 DEF Announced
    <3> QED
      BY <1>2, <3>1, ApartTail DEF h, q
  <2>2. ASSUME NEW g \in Members(q), g.type = "PUSH_PROMISE" PROVE id < g.promised
    <3>1. g \in AllFrames /\ g.promised \in Nat
      BY <1>2, <1>3, <2>2, FrameFields
    <3>2. ~(g.promised <= id)
      BY <1>2, <1>3, <2>1, <2>2, <3>1, RelationsIff DEF id
    <3> QED
      BY <1>3, <3>1, <3>2
  <2>3. Guarded(q, KnownPushes(id), Promised)
    <3>1. Guarded(w, KnownPushes(c.last_recv_stream_id), Promised)
      BY <1>1 DEF Announced
    <3>2. ASSUME NEW f \in Members(q),
                 f \in KnownPushes(c.last_recv_stream_id) \/ <<h, f>> \in Promised
          PROVE  f \in KnownPushes(id)
      <4>1. f \in AllFrames
        BY <1>2
      <4>2. SUFFICES ASSUME f.type \in {"HEADERS", "DATA", "RST_STREAM"}, ~Odd(f.id)
                     PROVE  f.id <= id
        BY <4>1 DEF KnownPushes
      <4>3. f.id \in Nat
        BY <1>3, <4>1, <4>2, FrameFields
      <4>4. f \in KnownPushes(c.last_recv_stream_id) => f.id <= c.last_recv_stream_id
        BY <4>2 DEF KnownPushes
      <4>5. <<h, f>> \in Promised => f.id <= id
        BY <1>2, <4>1, RelationsIff DEF id
      <4> QED
        BY <1>3, <3>2, <4>3, <4>4, <4>5
    <3> QED
      BY <1>2, <3>1, <3>2, GuardedTail DEF h, q
  <2>4. \/ s.last_sent_stream_id <= id
        \/ \E f \in Members(q) : f.type = "PUSH_PROMISE" /\ s.last_sent_stream_id <= f.promised
    <3>1. CASE s.last_sent_stream_id <= c.last_recv_stream_id
      BY <1>3, <3>1
    <3>2. CASE ~(s.last_sent_stream_id <= c.last_recv_stream_id)
      <4>1. PICK f \in Members(w) : f.type = "PUSH_PROMISE" /\ s.last_sent_stream_id <= f.promised
        BY <1>1, <3>2 DEF Announced
      <4> QED
        BY <1>2, <4>1 DEF id
    <3> QED
      BY <3>1, <3>2
  <2> QED
    BY <1>3, <1>4, <2>1, <2>2, <2>3, <2>4 DEF Announced
<1>12. \A k \in StreamIds : DataAllowed(c, k) => DataAllowed(d, k)
  <2> SUFFICES ASSUME NEW k \in StreamIds, DataAllowed(c, k) PROVE DataAllowed(d, k)
    OBVIOUS
  <2>1. k \in Nat
    BY <1>3
  <2>2. is_my_stream_id(d, k) <=> is_my_stream_id(c, k)
    BY <1>4 DEF is_my_stream_id
  <2>3. k # id
    <3>1. SUFFICES ASSUME k = id PROVE FALSE
      OBVIOUS
    <3>2. ~is_my_stream_id(c, id)
      <4>1. c \in SessionType(FALSE) /\ FALSE \in BOOLEAN
        BY DEF Typed
      <4> QED
        BY <1>3, <4>1, MineIs, OddIds
    <3> QED
      BY <1>3, <3>1, <3>2 DEF DataAllowed, detect_idle_stream
  <2>4. ~detect_idle_stream(d, k)
    BY <1>3, <1>4, <2>1, <2>2 DEF DataAllowed, detect_idle_stream
  <2> QED
    BY <1>4, <2>3, <2>4 DEF DataAllowed, Active
<1>13. Answers(d, s, q)
  <2>1. Guarded(q, Readable(d), Headed)
    <3>1. Guarded(w, Readable(c), Headed)
      BY <1>1 DEF Answers
    <3>2. ASSUME NEW f \in Members(q), f \in Readable(c) \/ <<h, f>> \in Headed
          PROVE  f \in Readable(d)
      <4>1. f \in AllFrames
        BY <1>2
      <4>2. <<h, f>> \notin Headed
        BY <1>2, <1>3, <4>1, RelationsIff
      <4>3. f.type = "DATA" => f.id \in StreamIds
        BY <4>1, FrameFields
      <4> QED
        BY <1>12, <3>2, <4>1, <4>2, <4>3 DEF Readable
    <3> QED
      BY <1>2, <3>1, <3>2, GuardedTail DEF h, q
  <2>2. \A k \in StreamIds : s.streams[k].item # NoItem =>
          Begun(s, k) /\ (DataAllowed(d, k) \/ Has(q, "HEADERS", k))
    BY <1>1, <1>2, <1>3, <1>12 DEF Answers
  <2> QED
    BY <1>1, <1>2, <2>1, <2>2 DEF Answers
<1>14. Listens(d)
  <2>1. \A k \in StreamIds :
          /\ d.streams[k].state # "INITIAL" /\ (d.streams[k].state = "OPENING" => Odd(k))
          /\ Active(d, k) => d.streams[k].shut = {"WR"}
          /\ d.streams[k].item = NoItem
    BY <1>1, <1>4 DEF Listens, Active
  <2> QED
    BY <2>1 DEF Listens
<1>15. Followed(d, s, v)
  BY <1>1, <1>5 DEF Followed, Active
<1>16. Polite(d, s, v, q)
  BY <1>1, <1>4, <1>8, <1>9, <1>10, <1>11, <1>13, <1>14, <1>15 DEF Polite
<1> QED
  BY <1>1, <1>6, <1>7, <1>16 DEF Core, PromiseSeen, q

\* What the client makes of a promise.
LEMMA PromiseRead ==
    ASSUME NEW srv \in BOOLEAN, ~srv, NEW s, SessionInv(srv, s), NEW f \in Promises,
           s.last_recv_stream_id < f.promised, allow_incoming_new_stream(s),
           is_my_stream_id(s, f.id), ~detect_idle_stream(s, f.id),
           Active(s, f.id) => "RD" \notin s.streams[f.id].shut
    PROVE  LET t == on_push_promise_received(s, f) IN
           PromiseSeen(s, t, f) /\ SameSettings(s, t)
<1> DEFINE id == f.promised
<1> DEFINE t == [s EXCEPT !.last_recv_stream_id = id]
<1> DEFINE o == open_stream(t, id, "RESERVED")
<1> DEFINE x == [o EXCEPT !.last_proc_stream_id = id]
<1>1. /\ s \in SessionType(srv) /\ ~s.server /\ id \in StreamIds /\ id \in Nat
      /\ s.last_recv_stream_id \in Nat
  BY FieldTypes, IdsFinite DEF SessionInv, Sound, Promises
<1>2. ~Mine(srv, id)
  <2>1. id % 2 = 0
    BY DEF Promises
  <2> QED
    BY <1>1, <2>1 DEF Mine
<1>3. s.streams[id].state = "IDLE" /\ ~Active(s, id)
  BY <1>1, <1>2 DEF SessionInv, Fresh, Active
<1>4. on_push_promise_received(s, f) \in {add_rst_stream(t, id), x}
  <2>1. is_new_peer_stream_id(s, id)
    BY <1>1, <1>2, MineIs DEF is_new_peer_stream_id
  <2> QED
    BY <1>1, <2>1 DEF on_push_promise_received, enable_push
<1>5. /\ t \in SessionType(srv) /\ t.server = s.server
      /\ t.goaway_flags = s.goaway_flags
      /\ t.next_stream_id = s.next_stream_id
      /\ t.last_recv_stream_id = id
      /\ t.last_sent_stream_id = s.last_sent_stream_id
      /\ t.last_proc_stream_id = s.last_proc_stream_id
      /\ t.local_last_stream_id = s.local_last_stream_id
      /\ t.local_window_size = s.local_window_size
      /\ t.ob_reg = s.ob_reg /\ t.ob_syn = s.ob_syn /\ t.streams = s.streams
      /\ SameSettings(s, t)
  BY <1>1 DEF SessionType, SameSettings
<1>6. PromiseSeen(s, add_rst_stream(t, id), f) /\ SameSettings(s, add_rst_stream(t, id))
  <2>1. add_rst_stream(t, id) = [t EXCEPT !.ob_syn = Append(@, RstStream(id))]
    BY <1>3, <1>5 DEF add_rst_stream, Active, Enqueue
  <2> DEFINE u == [t EXCEPT !.ob_syn = Append(@, RstStream(id))]
  <2>2. /\ u.server = t.server /\ u.goaway_flags = t.goaway_flags
        /\ u.next_stream_id = t.next_stream_id
        /\ u.last_recv_stream_id = t.last_recv_stream_id
        /\ u.last_sent_stream_id = t.last_sent_stream_id
        /\ u.last_proc_stream_id = t.last_proc_stream_id
        /\ u.local_last_stream_id = t.local_last_stream_id
        /\ u.local_window_size = t.local_window_size
        /\ u.ob_reg = t.ob_reg /\ u.ob_syn = Append(t.ob_syn, RstStream(id))
        /\ u.streams = t.streams /\ SameSettings(t, u)
    BY <1>5 DEF SessionType, SameSettings
  <2>3. Members(u.ob_syn) = Members(t.ob_syn) \cup {RstStream(id)}
    <3>1. t.ob_syn \in Seq(Resets) /\ RstStream(id) \in Resets
      BY <1>1, <1>5, FieldTypes DEF RstStream, Resets
    <3> QED
      BY <2>2, <3>1, Sent
  <2>4. RstStream(id).id = id
    BY DEF RstStream
  <2> HIDE DEF t, u
  <2>5. PromiseSeen(s, u, f) /\ SameSettings(s, u)
    BY <1>5, <2>2, <2>3, <2>4 DEF PromiseSeen, SameSettings
  <2> QED
    BY <2>1, <2>5 DEF u
<1>7. PromiseSeen(s, x, f) /\ SameSettings(s, x)
  <2>1. Opened(t, o, id, "RESERVED")
    BY <1>1, <1>5, OpenedFields
  <2>2. ~is_my_stream_id(t, id)
    BY <1>1, <1>2, <1>5, MineIs
  <2> HIDE DEF t
  <2>3. /\ x.server = o.server /\ x.goaway_flags = o.goaway_flags
        /\ x.next_stream_id = o.next_stream_id
        /\ x.last_recv_stream_id = o.last_recv_stream_id
        /\ x.last_sent_stream_id = o.last_sent_stream_id
        /\ x.last_proc_stream_id = id
        /\ x.local_last_stream_id = o.local_last_stream_id
        /\ x.local_window_size = o.local_window_size
        /\ x.ob_reg = o.ob_reg /\ x.ob_syn = o.ob_syn
        /\ x.streams = o.streams /\ SameSettings(o, x)
    BY <1>5 DEF SessionType, SameSettings, open_stream
  <2> HIDE DEF o, x
  <2>4. /\ o.server = t.server /\ o.goaway_flags = t.goaway_flags
        /\ o.next_stream_id = t.next_stream_id
        /\ o.last_recv_stream_id = t.last_recv_stream_id
        /\ o.last_sent_stream_id = t.last_sent_stream_id
        /\ o.last_proc_stream_id = t.last_proc_stream_id
        /\ o.local_last_stream_id = t.local_last_stream_id
        /\ o.local_window_size = t.local_window_size
        /\ o.ob_reg = t.ob_reg /\ o.ob_syn = t.ob_syn /\ SameSettings(t, o)
        /\ \A k \in StreamIds : k # id => o.streams[k] = t.streams[k]
        /\ o.streams[id].state = "RESERVED" /\ o.streams[id].shut = {"WR"}
        /\ o.streams[id].item = NoItem
    BY <2>1, <2>2 DEF Opened, Steady
  <2>5. SameSettings(s, x)
    BY <1>5, <2>3, <2>4 DEF SameSettings
  <2>6. PromiseSeen(s, x, f)
    BY <1>5, <2>3, <2>4 DEF PromiseSeen
  <2> QED
    BY <2>5, <2>6
<1> HIDE DEF t, x
<1> QED
  BY <1>4, <1>6, <1>7
-----------------------------------------------------------------------------
(***************************************************************************)
(* Settings.  Every SETTINGS frame is acknowledged once: those under way   *)
(* and the acknowledgements under way are as many as those that are not    *)
(* yet acknowledged, or fewer.                                             *)
(***************************************************************************)
Tally(type) == [f \in AllFrames |-> IF f.type = type THEN 1 ELSE 0]

\* Of the SETTINGS of x, in p or still queued, and their acknowledgements by y,
\* in q or still queued.
Unsettled(x, y, p, q) ==
    Units(p, Tally("SETTINGS")) + Units(x.ob_urgent, Tally("SETTINGS"))
      + Units(q, Tally("ACK")) + Units(y.ob_urgent, Tally("ACK"))

\* What the client may announce.
Limits == IF Tightens THEN {ClientMax, 1} ELSE {ClientMax}

ClientSettings(c) ==
    /\ c.local_max \in {Unlimited} \cup Limits
    /\ \A f \in Members(c.inflight_settings) : f.max \in Limits

ServerSettings(s) ==
    /\ s.local_max \in {Unlimited, ServerMax}
    /\ \A f \in Members(s.inflight_settings) : f = Settings(ServerMax, Unchanged)

Settle(c, s, v, w) ==
    /\ ServerSettings(s)
    /\ Units(v, Tally("ACK")) <= Len(s.inflight_settings)
    /\ c.goaway_flags = {} =>
         /\ ClientSettings(c)
         /\ Unsettled(s, c, w, v) <= Len(s.inflight_settings)
         /\ Unsettled(c, s, v, w) <= Len(c.inflight_settings)

LEMMA TallyType ==
    ASSUME NEW type
    PROVE  Tally(type) \in [AllFrames -> Nat] /\ Tally(type) \in [AllFrames -> Int]
BY DEF Tally

LEMMA TallyChange ==
    ASSUME NEW type, NEW q \in Seq(AllFrames)
    PROVE  /\ Units(q, Tally(type)) \in Nat
           /\ \A f \in AllFrames :
                Units(Append(q, f), Tally(type))
                  = Units(q, Tally(type)) + IF f.type = type THEN 1 ELSE 0
           /\ q # <<>> =>
                /\ Units(Tail(q), Tally(type)) \in Nat
                /\ Units(q, Tally(type))
                     = Units(Tail(q), Tally(type)) + IF Head(q).type = type THEN 1 ELSE 0
<1> DEFINE T == Tally(type)
<1>1. T \in [AllFrames -> Nat] /\ T \in [AllFrames -> Int]
  BY TallyType
<1>2. \A f \in AllFrames : T[f] = IF f.type = type THEN 1 ELSE 0
  BY DEF Tally
<1> HIDE DEF T
<1>3. Units(q, T) \in Nat
  BY <1>1, UnitsNat
<1>4. \A f \in AllFrames : Units(Append(q, f), T) = Units(q, T) + T[f]
  BY <1>1, UnitsAppend
<1>5. ASSUME q # <<>>
      PROVE  /\ Units(Tail(q), T) \in Nat /\ Head(q) \in AllFrames
             /\ Units(q, T) = T[Head(q)] + Units(Tail(q), T)
  <2>1. Head(q) \in AllFrames /\ Tail(q) \in Seq(AllFrames)
    BY <1>5, Rest
  <2> QED
    BY <1>1, <1>5, <2>1, UnitsNat, UnitsTail
<1>6. \A f \in AllFrames : Units(Append(q, f), T) = Units(q, T) + IF f.type = type THEN 1 ELSE 0
  BY <1>2, <1>4
<1>7. q # <<>> => Units(q, T) = Units(Tail(q), T) + IF Head(q).type = type THEN 1 ELSE 0
  BY <1>2, <1>5
<1> QED
  BY <1>3, <1>5, <1>6, <1>7 DEF T

\* The urgent queues hold frames.
LEMMA UrgentFrames ==
    ASSUME NEW srv \in BOOLEAN, NEW s \in SessionType(srv)
    PROVE  /\ s.ob_urgent \in Seq(AllFrames)
           /\ s.inflight_settings \in Seq(SettingsFrames) /\ Len(s.inflight_settings) \in Nat
           /\ SettingsAck \in AllFrames /\ SettingsFrames \subseteq AllFrames
<1>1. s.ob_urgent \in Seq(SettingsFrames \cup Acks) /\ s.inflight_settings \in Seq(SettingsFrames)
  BY FieldTypes
<1>2. SettingsFrames \cup Acks \subseteq AllFrames
  BY DEF AllFrames, Frames
<1>3. s.ob_urgent \in Seq(AllFrames)
  BY <1>1, <1>2
<1>4. SettingsAck \in AllFrames
  BY <1>2 DEF SettingsAck, Acks
<1> QED
  BY <1>1, <1>2, <1>3, <1>4

\* All numbers of the predicate are numbers.
LEMMA SettleNumbers ==
    ASSUME NEW c, NEW s, NEW v, NEW w, Typed(c, s, v, w)
    PROVE  /\ \A T : /\ Units(v, Tally(T)) \in Nat /\ Units(w, Tally(T)) \in Nat
                     /\ Units(c.ob_urgent, Tally(T)) \in Nat
                     /\ Units(s.ob_urgent, Tally(T)) \in Nat
           /\ Len(c.inflight_settings) \in Nat /\ Len(s.inflight_settings) \in Nat
<1>1. c \in SessionType(FALSE) /\ s \in SessionType(TRUE) /\ TRUE \in BOOLEAN /\ FALSE \in BOOLEAN
  BY DEF Typed
<1>2. v \in Seq(AllFrames) /\ w \in Seq(AllFrames)
  BY TypedFields
<1>3. /\ c.ob_urgent \in Seq(AllFrames) /\ s.ob_urgent \in Seq(AllFrames)
      /\ Len(c.inflight_settings) \in Nat /\ Len(s.inflight_settings) \in Nat
  BY <1>1, UrgentFrames
<1> QED
  BY <1>2, <1>3, TallyChange

LEMMA FourFewer ==
    ASSUME NEW a \in Nat, NEW b \in Nat, NEW e \in Nat, NEW f \in Nat,
           NEW a2 \in Nat, NEW b2 \in Nat, NEW e2 \in Nat, NEW f2 \in Nat, NEW n \in Nat,
           a2 + b2 <= a + b, e2 + f2 <= e + f, a + b + e + f <= n
    PROVE  a2 + b2 + e2 + f2 <= n /\ e2 <= n
OBVIOUS

LEMMA SettleTotals ==
    ASSUME NEW c, NEW s, NEW v, NEW w, Typed(c, s, v, w)
    PROVE  Unsettled(s, c, w, v) \in Nat /\ Unsettled(c, s, v, w) \in Nat
<1>1. /\ Units(v, Tally("SETTINGS")) \in Nat /\ Units(w, Tally("SETTINGS")) \in Nat
      /\ Units(c.ob_urgent, Tally("SETTINGS")) \in Nat
      /\ Units(s.ob_urgent, Tally("SETTINGS")) \in Nat
      /\ Units(v, Tally("ACK")) \in Nat /\ Units(w, Tally("ACK")) \in Nat
      /\ Units(c.ob_urgent, Tally("ACK")) \in Nat
      /\ Units(s.ob_urgent, Tally("ACK")) \in Nat
  BY SettleNumbers
<1> QED
  BY <1>1 DEF Unsettled

\* No more frames about settings in a wire and in the queue before it.
Down(q, r, q2, r2) ==
    \A T \in {"SETTINGS", "ACK"} :
        Units(q2, Tally(T)) + Units(r2, Tally(T)) <= Units(q, Tally(T)) + Units(r, Tally(T))

\* A step after which no more is under way, on either side.
LEMMA SettleFewer ==
    ASSUME NEW c, NEW s, NEW v, NEW w, NEW d, NEW t, NEW v2, NEW w2,
           Typed(c, s, v, w), Typed(d, t, v2, w2), Settle(c, s, v, w),
           t.local_max = s.local_max, t.inflight_settings = s.inflight_settings,
           d.goaway_flags = {} =>
              /\ c.goaway_flags = {}
              /\ d.local_max = c.local_max /\ d.inflight_settings = c.inflight_settings
              /\ Down(v, c.ob_urgent, v2, d.ob_urgent)
              /\ Down(w, s.ob_urgent, w2, t.ob_urgent),
           d.goaway_flags # {} => Units(v2, Tally("ACK")) <= Units(v, Tally("ACK"))
    PROVE  Settle(d, t, v2, w2)
<1>1. /\ \A T : /\ Units(v, Tally(T)) \in Nat /\ Units(w, Tally(T)) \in Nat
                /\ Units(c.ob_urgent, Tally(T)) \in Nat
                /\ Units(s.ob_urgent, Tally(T)) \in Nat
      /\ Len(c.inflight_settings) \in Nat /\ Len(s.inflight_settings) \in Nat
  BY SettleNumbers
<1>2. \A T : /\ Units(v2, Tally(T)) \in Nat /\ Units(w2, Tally(T)) \in Nat
             /\ Units(d.ob_urgent, Tally(T)) \in Nat
             /\ Units(t.ob_urgent, Tally(T)) \in Nat
  BY SettleNumbers
<1>3. ServerSettings(t)
  BY DEF Settle, ServerSettings
<1>4. CASE d.goaway_flags = {}
  <2>1. /\ c.goaway_flags = {}
        /\ d.local_max = c.local_max /\ d.inflight_settings = c.inflight_settings
    BY <1>4
  <2>2. ClientSettings(d)
    BY <2>1 DEF Settle, ClientSettings
  <2>3. /\ Unsettled(s, c, w, v) <= Len(s.inflight_settings)
        /\ Unsettled(c, s, v, w) <= Len(c.inflight_settings)
    BY <2>1 DEF Settle
  <2>4. /\ Units(v2, Tally("ACK")) + Units(d.ob_urgent, Tally("ACK"))
             <= Units(v, Tally("ACK")) + Units(c.ob_urgent, Tally("ACK"))
        /\ Units(w2, Tally("ACK")) + Units(t.ob_urgent, Tally("ACK"))
             <= Units(w, Tally("ACK")) + Units(s.ob_urgent, Tally("ACK"))
        /\ Units(v2, Tally("SETTINGS")) + Units(d.ob_urgent, Tally("SETTINGS"))
             <= Units(v, Tally("SETTINGS")) + Units(c.ob_urgent, Tally("SETTINGS"))
        /\ Units(w2, Tally("SETTINGS")) + Units(t.ob_urgent, Tally("SETTINGS"))
             <= Units(w, Tally("SETTINGS")) + Units(s.ob_urgent, Tally("SETTINGS"))
    <3>1. Down(v, c.ob_urgent, v2, d.ob_urgent) /\ Down(w, s.ob_urgent, w2, t.ob_urgent)
      BY <1>4
    <3> QED
      BY <3>1 DEF Down
  <2>5. /\ Unsettled(t, d, w2, v2) <= Len(t.inflight_settings)
        /\ Unsettled(d, t, v2, w2) <= Len(d.inflight_settings)
        /\ Units(v2, Tally("ACK")) <= Len(t.inflight_settings)
    <3>1. /\ Units(w2, Tally("SETTINGS")) + Units(t.ob_urgent, Tally("SETTINGS"))
               + Units(v2, Tally("ACK")) + Units(d.ob_urgent, Tally("ACK"))
             <= Len(s.inflight_settings)
          /\ Units(v2, Tally("ACK")) <= Len(s.inflight_settings)
      <4>1. Units(w, Tally("SETTINGS")) + Units(s.ob_urgent, Tally("SETTINGS"))
               + Units(v, Tally("ACK")) + Units(c.ob_urgent, Tally("ACK"))
             <= Len(s.inflight_settings)
        BY <2>3 DEF Unsettled
      <4> QED
        BY <1>1, <1>2, <2>4, <4>1, FourFewer
    <3>2. /\ Units(v2, Tally("SETTINGS")) + Units(d.ob_urgent, Tally("SETTINGS"))
               + Units(w2, Tally("ACK")) + Units(t.ob_urgent, Tally("ACK"))
             <= Len(c.inflight_settings)
          /\ Units(w2, Tally("ACK")) <= Len(c.inflight_settings)
      <4>1. Units(v, Tally("SETTINGS")) + Units(c.ob_urgent, Tally("SETTINGS"))
               + Units(w, Tally("ACK")) + Units(s.ob_urgent, Tally("ACK"))
             <= Len(c.inflight_settings)
        BY <2>3 DEF Unsettled
      <4>2. /\ Units(v, Tally("SETTINGS")) \in Nat /\ Units(c.ob_urgent, Tally("SETTINGS")) \in Nat
            /\ Units(w, Tally("ACK")) \in Nat /\ Units(s.ob_urgent, Tally("ACK")) \in Nat
            /\ Units(v2, Tally("SETTINGS")) \in Nat
            /\ Units(d.ob_urgent, Tally("SETTINGS")) \in Nat
            /\ Units(w2, Tally("ACK")) \in Nat /\ Units(t.ob_urgent, Tally("ACK")) \in Nat
            /\ Len(c.inflight_settings) \in Nat
        BY <1>1, <1>2
      <4>3. /\ Units(v2, Tally("SETTINGS")) + Units(d.ob_urgent, Tally("SETTINGS"))
                 <= Units(v, Tally("SETTINGS")) + Units(c.ob_urgent, Tally("SETTINGS"))
            /\ Units(w2, Tally("ACK")) + Units(t.ob_urgent, Tally("ACK"))
                 <= Units(w, Tally("ACK")) + Units(s.ob_urgent, Tally("ACK"))
        BY <2>4
      <4> HIDE <1>4
      <4> QED
        BY <4>1, <4>2, <4>3, FourFewer
    <3> QED
      BY <2>1, <3>1, <3>2 DEF Unsettled
  <2> QED
    BY <1>3, <2>2, <2>5 DEF Settle
<1>5. CASE d.goaway_flags # {}
  <2>1. Units(v2, Tally("ACK")) <= Len(t.inflight_settings)
    BY <1>1, <1>2, <1>5 DEF Settle
  <2> QED
    BY <1>3, <1>5, <2>1 DEF Settle
<1> QED
  BY <1>4, <1>5

LEMMA SettleSum ==
    ASSUME NEW c, NEW s, NEW v, NEW w, NEW d, NEW t, NEW v2, NEW w2,
           Typed(c, s, v, w), Typed(d, t, v2, w2), Settle(c, s, v, w), ServerSettings(t),
           NEW m \in Int, Len(t.inflight_settings) = Len(s.inflight_settings) + m,
           NEW n \in Int, Len(d.inflight_settings) = Len(c.inflight_settings) + n,
           d.goaway_flags = {} =>
              /\ c.goaway_flags = {} /\ ClientSettings(d)
              /\ Unsettled(t, d, w2, v2) <= Unsettled(s, c, w, v) + m
              /\ Unsettled(d, t, v2, w2) <= Unsettled(c, s, v, w) + n,
           Units(v2, Tally("ACK")) <= Units(v, Tally("ACK")) + m
    PROVE  Settle(d, t, v2, w2)
<1>1. /\ \A T : /\ Units(v, Tally(T)) \in Nat /\ Units(w, Tally(T)) \in Nat
                /\ Units(c.ob_urgent, Tally(T)) \in Nat
                /\ Units(s.ob_urgent, Tally(T)) \in Nat
      /\ Len(c.inflight_settings) \in Nat /\ Len(s.inflight_settings) \in Nat
  BY SettleNumbers
<1>2. \A T : /\ Units(v2, Tally(T)) \in Nat /\ Units(w2, Tally(T)) \in Nat
             /\ Units(d.ob_urgent, Tally(T)) \in Nat
             /\ Units(t.ob_urgent, Tally(T)) \in Nat
  BY SettleNumbers
<1>3. /\ Unsettled(s, c, w, v) \in Nat /\ Unsettled(c, s, v, w) \in Nat
      /\ Unsettled(t, d, w2, v2) \in Nat /\ Unsettled(d, t, v2, w2) \in Nat
      /\ Units(v, Tally("ACK")) \in Nat /\ Units(v2, Tally("ACK")) \in Nat
  BY SettleTotals, <1>1, <1>2
<1>4. Units(v2, Tally("ACK")) <= Len(t.inflight_settings)
  <2>1. Units(v, Tally("ACK")) <= Len(s.inflight_settings)
    BY DEF Settle
  <2> QED
    BY <1>1, <1>3, <2>1
<1>5. ASSUME d.goaway_flags = {}
      PROVE  /\ ClientSettings(d)
             /\ Unsettled(t, d, w2, v2) <= Len(t.inflight_settings)
             /\ Unsettled(d, t, v2, w2) <= Len(d.inflight_settings)
  <2>1. /\ Unsettled(s, c, w, v) <= Len(s.inflight_settings)
        /\ Unsettled(c, s, v, w) <= Len(c.inflight_settings)
    BY <1>5 DEF Settle
  <2>2. /\ Unsettled(t, d, w2, v2) <= Unsettled(s, c, w, v) + m
        /\ Unsettled(d, t, v2, w2) <= Unsettled(c, s, v, w) + n
    BY <1>5
  <2>3. ClientSettings(d)
    BY <1>5
  <2>5. Unsettled(t, d, w2, v2) <= Len(t.inflight_settings)
    BY <1>1, <1>3, <2>1, <2>2
  <2>6. Unsettled(d, t, v2, w2) <= Len(d.inflight_settings)
    BY <1>1, <1>3, <2>1, <2>2
  <2> QED
    BY <2>3, <2>5, <2>6
<1> QED
  BY <1>4, <1>5 DEF Settle

LEMMA SettingsAdded ==
    ASSUME NEW q \in Seq(AllFrames), NEW f \in AllFrames, f.type = "SETTINGS"
    PROVE  /\ Units(Append(q, f), Tally("SETTINGS")) = Units(q, Tally("SETTINGS")) + 1
           /\ Units(Append(q, f), Tally("ACK")) = Units(q, Tally("ACK"))
<1>1. \A T : /\ Units(q, Tally(T)) \in Nat
             /\ Units(Append(q, f), Tally(T))
                  = Units(q, Tally(T)) + IF f.type = T THEN 1 ELSE 0
  BY TallyChange
<1> QED
  BY <1>1

\* The client submits new settings.
LEMMA SettleSubmit ==
    ASSUME NEW c, NEW s, NEW v, NEW w, Typed(c, s, v, w), Settle(c, s, v, w),
           NEW f \in SettingsFrames, f.max \in Limits,
           NEW d, Typed(d, s, v, w), d.goaway_flags = c.goaway_flags,
           d.local_max = c.local_max,
           d.inflight_settings = Append(c.inflight_settings, f),
           d.ob_urgent = Append(c.ob_urgent, f)
    PROVE  Settle(d, s, v, w)
<1>1. /\ c.ob_urgent \in Seq(AllFrames) /\ c.inflight_settings \in Seq(SettingsFrames)
      /\ f \in AllFrames /\ f.type = "SETTINGS"
  <2>1. c \in SessionType(FALSE) /\ FALSE \in BOOLEAN
    BY DEF Typed
  <2> QED
    BY <2>1, UrgentFrames DEF SettingsFrames
<1>2. /\ Units(d.ob_urgent, Tally("SETTINGS")) = Units(c.ob_urgent, Tally("SETTINGS")) + 1
      /\ Units(d.ob_urgent, Tally("ACK")) = Units(c.ob_urgent, Tally("ACK"))
  BY <1>1, SettingsAdded
<1>3. /\ Len(d.inflight_settings) = Len(c.inflight_settings) + 1
      /\ Members(d.inflight_settings) = Members(c.inflight_settings) \cup {f}
  BY <1>1, MembersChange, Entries
<1>4. /\ \A T : /\ Units(v, Tally(T)) \in Nat /\ Units(w, Tally(T)) \in Nat
                /\ Units(c.ob_urgent, Tally(T)) \in Nat
                /\ Units(s.ob_urgent, Tally(T)) \in Nat
      /\ Len(c.inflight_settings) \in Nat /\ Len(s.inflight_settings) \in Nat
  BY SettleNumbers
<1>5. /\ Unsettled(s, d, w, v) <= Unsettled(s, c, w, v) + 0
      /\ Unsettled(d, s, v, w) <= Unsettled(c, s, v, w) + 1
  <2>1. Unsettled(s, d, w, v) = Unsettled(s, c, w, v)
    BY <1>2 DEF Unsettled
  <2>2. Unsettled(d, s, v, w) = Unsettled(c, s, v, w) + 1
    BY <1>2, <1>4 DEF Unsettled
  <2>3. Unsettled(s, c, w, v) \in Nat /\ Unsettled(c, s, v, w) \in Nat
    BY SettleTotals
  <2> QED
    BY <2>1, <2>2, <2>3
<1>6. c.goaway_flags = {} => ClientSettings(d)
  BY <1>3 DEF ClientSettings, Settle
<1>7. ServerSettings(s) /\ Units(v, Tally("ACK")) <= Units(v, Tally("ACK")) + 0
  BY <1>4 DEF Settle
<1>8. Len(s.inflight_settings) = Len(s.inflight_settings) + 0 /\ 0 \in Int /\ 1 \in Int
  BY <1>4
<1> HIDE DEF Settle
<1> QED
  BY <1>3, <1>5, <1>6, <1>7, <1>8, SettleSum

\* SETTINGS are received: the acknowledgement takes their place.
LEMMA AckTakesPlace ==
    ASSUME NEW q \in Seq(AllFrames), NEW r \in Seq(AllFrames), q # <<>>, Head(q).type = "SETTINGS",
           NEW u \in {r, Append(r, SettingsAck)}, SettingsAck \in AllFrames
    PROVE  /\ Units(Tail(q), Tally("SETTINGS")) + Units(u, Tally("ACK"))
                <= Units(q, Tally("SETTINGS")) + Units(r, Tally("ACK"))
           /\ Units(Tail(q), Tally("ACK")) = Units(q, Tally("ACK"))
           /\ Units(u, Tally("SETTINGS")) = Units(r, Tally("SETTINGS"))
<1>1. SettingsAck.type = "ACK"
  BY DEF SettingsAck
<1>2. /\ Units(Tail(q), Tally("SETTINGS")) + 1 = Units(q, Tally("SETTINGS"))
      /\ Units(Tail(q), Tally("ACK")) = Units(q, Tally("ACK"))
      /\ Units(Tail(q), Tally("SETTINGS")) \in Nat
  BY TallyChange
<1>3. /\ Units(Append(r, SettingsAck), Tally("ACK")) = Units(r, Tally("ACK")) + 1
      /\ Units(Append(r, SettingsAck), Tally("SETTINGS")) = Units(r, Tally("SETTINGS"))
      /\ Units(r, Tally("ACK")) \in Nat /\ Units(r, Tally("SETTINGS")) \in Nat
  <2>1. \A T : /\ Units(r, Tally(T)) \in Nat
               /\ Units(Append(r, SettingsAck), Tally(T))
                    = Units(r, Tally(T)) + IF SettingsAck.type = T THEN 1 ELSE 0
    BY TallyChange
  <2> QED
    BY <1>1, <2>1
<1>4. CASE u = r
  BY <1>2, <1>3, <1>4
<1>5. CASE u = Append(r, SettingsAck)
  BY <1>2, <1>3, <1>5
<1> QED
  BY <1>4, <1>5

LEMMA ClientSettingsRead ==
    ASSUME NEW c, NEW s, NEW v, NEW w, Typed(c, s, v, w), Settle(c, s, v, w),
           w # <<>>, Head(w).type = "SETTINGS",
           NEW d, Typed(d, s, v, Tail(w)), d.goaway_flags = c.goaway_flags,
           d.local_max = c.local_max, d.inflight_settings = c.inflight_settings,
           d.ob_urgent \in {c.ob_urgent, Append(c.ob_urgent, SettingsAck)}
    PROVE  Settle(d, s, v, Tail(w))
<1>1. /\ c.ob_urgent \in Seq(AllFrames) /\ SettingsAck \in AllFrames /\ w \in Seq(AllFrames)
  <2>1. c \in SessionType(FALSE) /\ FALSE \in BOOLEAN
    BY DEF Typed
  <2> QED
    BY <2>1, UrgentFrames, TypedFields
<1>2. /\ Units(Tail(w), Tally("SETTINGS")) + Units(d.ob_urgent, Tally("ACK"))
           <= Units(w, Tally("SETTINGS")) + Units(c.ob_urgent, Tally("ACK"))
      /\ Units(Tail(w), Tally("ACK")) = Units(w, Tally("ACK"))
      /\ Units(d.ob_urgent, Tally("SETTINGS")) = Units(c.ob_urgent, Tally("SETTINGS"))
  BY <1>1, AckTakesPlace
<1>3. /\ \A T : /\ Units(v, Tally(T)) \in Nat /\ Units(w, Tally(T)) \in Nat
                /\ Units(c.ob_urgent, Tally(T)) \in Nat
                /\ Units(s.ob_urgent, Tally(T)) \in Nat
      /\ Len(c.inflight_settings) \in Nat /\ Len(s.inflight_settings) \in Nat
  BY SettleNumbers
<1>4. \A T : Units(Tail(w), Tally(T)) \in Nat /\ Units(d.ob_urgent, Tally(T)) \in Nat
  BY SettleNumbers
<1>5. Unsettled(s, d, Tail(w), v) <= Unsettled(s, c, w, v) + 0
  BY <1>2, <1>3, <1>4 DEF Unsettled
<1>6. Unsettled(d, s, v, Tail(w)) <= Unsettled(c, s, v, w) + 0
  BY <1>2, <1>3, <1>4 DEF Unsettled
<1>7. c.goaway_flags = {} => ClientSettings(d)
  BY DEF ClientSettings, Settle
<1>8. ServerSettings(s) /\ Units(v, Tally("ACK")) <= Units(v, Tally("ACK")) + 0
  BY <1>3 DEF Settle
<1>9. /\ Len(s.inflight_settings) = Len(s.inflight_settings) + 0
      /\ Len(d.inflight_settings) = Len(c.inflight_settings) + 0 /\ 0 \in Int
  BY <1>3
<1> HIDE DEF Settle
<1> QED
  BY <1>5, <1>6, <1>7, <1>8, <1>9, SettleSum

LEMMA ServerSettingsRead ==
    ASSUME NEW c, NEW s, NEW v, NEW w, Typed(c, s, v, w), Settle(c, s, v, w),
           v # <<>>, Head(v).type = "SETTINGS",
           NEW t, Typed(c, t, Tail(v), w),
           t.local_max = s.local_max, t.inflight_settings = s.inflight_settings,
           t.ob_urgent \in {s.ob_urgent, Append(s.ob_urgent, SettingsAck)}
    PROVE  Settle(c, t, Tail(v), w)
<1>1. /\ s.ob_urgent \in Seq(AllFrames) /\ SettingsAck \in AllFrames /\ v \in Seq(AllFrames)
  <2>1. s \in SessionType(TRUE) /\ TRUE \in BOOLEAN
    BY DEF Typed
  <2> QED
    BY <2>1, UrgentFrames, TypedFields
<1>2. /\ Units(Tail(v), Tally("SETTINGS")) + Units(t.ob_urgent, Tally("ACK"))
           <= Units(v, Tally("SETTINGS")) + Units(s.ob_urgent, Tally("ACK"))
      /\ Units(Tail(v), Tally("ACK")) = Units(v, Tally("ACK"))
      /\ Units(t.ob_urgent, Tally("SETTINGS")) = Units(s.ob_urgent, Tally("SETTINGS"))
  BY <1>1, AckTakesPlace
<1>3. /\ \A T : /\ Units(v, Tally(T)) \in Nat /\ Units(w, Tally(T)) \in Nat
                /\ Units(c.ob_urgent, Tally(T)) \in Nat
                /\ Units(s.ob_urgent, Tally(T)) \in Nat
      /\ Len(c.inflight_settings) \in Nat /\ Len(s.inflight_settings) \in Nat
  BY SettleNumbers
<1>4. \A T : Units(Tail(v), Tally(T)) \in Nat /\ Units(t.ob_urgent, Tally(T)) \in Nat
  BY SettleNumbers
<1>5. Unsettled(t, c, w, Tail(v)) <= Unsettled(s, c, w, v) + 0
  BY <1>2, <1>3, <1>4 DEF Unsettled
<1>6. Unsettled(c, t, Tail(v), w) <= Unsettled(c, s, v, w) + 0
  BY <1>2, <1>3, <1>4 DEF Unsettled
<1>7. c.goaway_flags = {} => ClientSettings(c)
  BY DEF Settle
<1>8. ServerSettings(t) /\ Units(Tail(v), Tally("ACK")) <= Units(v, Tally("ACK")) + 0
  BY <1>2, <1>3 DEF Settle, ServerSettings
<1>9. /\ Len(t.inflight_settings) = Len(s.inflight_settings) + 0
      /\ Len(c.inflight_settings) = Len(c.inflight_settings) + 0 /\ 0 \in Int
  BY <1>3
<1> HIDE DEF Settle
<1> QED
  BY <1>5, <1>6, <1>7, <1>8, <1>9, SettleSum

\* An acknowledgement finds the settings it is for.
LEMMA AckTaken ==
    ASSUME NEW q \in Seq(AllFrames), q # <<>>, Head(q).type = "ACK"
    PROVE  /\ Units(q, Tally("ACK")) = Units(Tail(q), Tally("ACK")) + 1
           /\ Units(q, Tally("SETTINGS")) = Units(Tail(q), Tally("SETTINGS"))
           /\ Units(q, Tally("ACK")) > 0
<1>1. \A T : /\ Units(Tail(q), Tally(T)) \in Nat
             /\ Units(q, Tally(T)) = Units(Tail(q), Tally(T)) + IF Head(q).type = T THEN 1 ELSE 0
  BY TallyChange
<1> QED
  BY <1>1

LEMMA ServerAckExpected ==
    ASSUME NEW c, NEW s, NEW v, NEW w, Typed(c, s, v, w), Settle(c, s, v, w),
           v # <<>>, Head(v).type = "ACK"
    PROVE  /\ s.inflight_settings # <<>>
           /\ Head(s.inflight_settings).window = Unchanged
           /\ Head(s.inflight_settings).max = ServerMax /\ ServerMax # Unchanged
<1>1. /\ v \in Seq(AllFrames) /\ s.inflight_settings \in Seq(SettingsFrames)
      /\ Len(s.inflight_settings) \in Nat
  <2>1. s \in SessionType(TRUE) /\ TRUE \in BOOLEAN
    BY DEF Typed
  <2> QED
    BY <2>1, TypedFields, UrgentFrames
<1>2. Units(v, Tally("ACK")) > 0 /\ Units(v, Tally("ACK")) \in Nat
  BY <1>1, AckTaken, TallyChange
<1>3. Units(v, Tally("ACK")) <= Len(s.inflight_settings)
  BY DEF Settle
<1>4. s.inflight_settings # <<>>
  <2>1. Len(s.inflight_settings) > 0
    BY <1>1, <1>2, <1>3
  <2> QED
    BY <2>1
<1>5. Head(s.inflight_settings) \in Members(s.inflight_settings)
  BY <1>1, <1>4, MembersOf
<1>6. Head(s.inflight_settings) = Settings(ServerMax, Unchanged)
  BY <1>5 DEF Settle, ServerSettings
<1> QED
  BY <1>4, <1>6, LimitAssumption DEF Settings, Unchanged

LEMMA ServerAckRead ==
    ASSUME NEW c, NEW s, NEW v, NEW w, Typed(c, s, v, w), Settle(c, s, v, w),
           v # <<>>, Head(v).type = "ACK",
           NEW t, Typed(c, t, Tail(v), w), t.local_max = ServerMax,
           t.inflight_settings = Tail(s.inflight_settings), t.ob_urgent = s.ob_urgent
    PROVE  Settle(c, t, Tail(v), w)
<1>1. /\ v \in Seq(AllFrames) /\ s.inflight_settings \in Seq(SettingsFrames)
      /\ Len(s.inflight_settings) \in Nat /\ s.inflight_settings # <<>>
  <2>1. s \in SessionType(TRUE) /\ TRUE \in BOOLEAN
    BY DEF Typed
  <2> QED
    BY <2>1, TypedFields, UrgentFrames, ServerAckExpected
<1>2. /\ Units(v, Tally("ACK")) = Units(Tail(v), Tally("ACK")) + 1
      /\ Units(v, Tally("SETTINGS")) = Units(Tail(v), Tally("SETTINGS"))
  BY <1>1, AckTaken
<1>3. /\ Len(t.inflight_settings) = Len(s.inflight_settings) + (-1)
      /\ Members(t.inflight_settings) \subseteq Members(s.inflight_settings)
  BY <1>1, MembersChange, Rest
<1>4. /\ Unsettled(s, c, w, v) \in Nat /\ Unsettled(c, s, v, w) \in Nat
      /\ Unsettled(t, c, w, Tail(v)) \in Nat /\ Unsettled(c, t, Tail(v), w) \in Nat
  BY SettleTotals
<1>5. /\ Units(v, Tally("ACK")) \in Nat /\ Units(Tail(v), Tally("ACK")) \in Nat
      /\ Units(w, Tally("SETTINGS")) \in Nat
      /\ Units(s.ob_urgent, Tally("SETTINGS")) \in Nat
      /\ Units(c.ob_urgent, Tally("ACK")) \in Nat /\ Len(c.inflight_settings) \in Nat
  BY SettleNumbers
<1>6. Unsettled(t, c, w, Tail(v)) <= Unsettled(s, c, w, v) + (-1)
  <2>1. Unsettled(t, c, w, Tail(v)) + 1 = Unsettled(s, c, w, v)
    BY <1>2, <1>5 DEF Unsettled
  <2> QED
    BY <1>4, <2>1
<1>7. Unsettled(c, t, Tail(v), w) <= Unsettled(c, s, v, w) + 0
  <2>1. Unsettled(c, t, Tail(v), w) = Unsettled(c, s, v, w)
    BY <1>2 DEF Unsettled
  <2> QED
    BY <1>4, <2>1
<1>8. ServerSettings(t) /\ Units(Tail(v), Tally("ACK")) <= Units(v, Tally("ACK")) + (-1)
  BY <1>2, <1>3, <1>5 DEF Settle, ServerSettings
<1>9. c.goaway_flags = {} => ClientSettings(c)
  BY DEF Settle
<1>10. Len(c.inflight_settings) = Len(c.inflight_settings) + 0 /\ 0 \in Int /\ -1 \in Int
  BY <1>5
<1> HIDE DEF Settle
<1> QED
  BY <1>3, <1>6, <1>7, <1>8, <1>9, <1>10, SettleSum

LEMMA ClientAckExpected ==
    ASSUME NEW c, NEW s, NEW v, NEW w, Typed(c, s, v, w), Settle(c, s, v, w),
           c.goaway_flags = {}, w # <<>>, Head(w).type = "ACK"
    PROVE  /\ c.inflight_settings # <<>>
           /\ Head(c.inflight_settings).max \in Limits
<1>1. /\ w \in Seq(AllFrames) /\ c.inflight_settings \in Seq(SettingsFrames)
  <2>1. c \in SessionType(FALSE) /\ FALSE \in BOOLEAN
    BY DEF Typed
  <2> QED
    BY <2>1, TypedFields, UrgentFrames
<1>2. Units(w, Tally("ACK")) > 0
  BY <1>1, AckTaken
<1>3. Unsettled(c, s, v, w) <= Len(c.inflight_settings)
  BY DEF Settle
<1>4. /\ Units(v, Tally("SETTINGS")) \in Nat /\ Units(w, Tally("ACK")) \in Nat
      /\ Units(c.ob_urgent, Tally("SETTINGS")) \in Nat
      /\ Units(s.ob_urgent, Tally("ACK")) \in Nat /\ Len(c.inflight_settings) \in Nat
  BY SettleNumbers
<1>5. c.inflight_settings # <<>>
  <2>1. Len(c.inflight_settings) > 0
    BY <1>2, <1>3, <1>4 DEF Unsettled
  <2> QED
    BY <2>1
<1>6. Head(c.inflight_settings) \in Members(c.inflight_settings)
  BY <1>1, <1>5, MembersOf
<1> QED
  BY <1>5, <1>6 DEF Settle, ClientSettings

LEMMA ClientAckRead ==
    ASSUME NEW c, NEW s, NEW v, NEW w, Typed(c, s, v, w), Settle(c, s, v, w),
           c.goaway_flags = {}, w # <<>>, Head(w).type = "ACK",
           NEW d, Typed(d, s, v, Tail(w)), d.local_max \in Limits,
           d.inflight_settings = Tail(c.inflight_settings), d.ob_urgent = c.ob_urgent
    PROVE  Settle(d, s, v, Tail(w))
<1>1. /\ w \in Seq(AllFrames) /\ c.inflight_settings \in Seq(SettingsFrames)
      /\ Len(c.inflight_settings) \in Nat /\ c.inflight_settings # <<>>
  <2>1. c \in SessionType(FALSE) /\ FALSE \in BOOLEAN
    BY DEF Typed
  <2> QED
    BY <2>1, TypedFields, UrgentFrames, ClientAckExpected
<1>2. /\ Units(w, Tally("ACK")) = Units(Tail(w), Tally("ACK")) + 1
      /\ Units(w, Tally("SETTINGS")) = Units(Tail(w), Tally("SETTINGS"))
  BY <1>1, AckTaken
<1>3. /\ Len(d.inflight_settings) = Len(c.inflight_settings) + (-1)
      /\ Members(d.inflight_settings) \subseteq Members(c.inflight_settings)
  BY <1>1, MembersChange, Rest
<1>4. /\ Unsettled(s, c, w, v) \in Nat /\ Unsettled(c, s, v, w) \in Nat
      /\ Unsettled(s, d, Tail(w), v) \in Nat /\ Unsettled(d, s, v, Tail(w)) \in Nat
  BY SettleTotals
<1>5. /\ Units(w, Tally("ACK")) \in Nat /\ Units(Tail(w), Tally("ACK")) \in Nat
      /\ Units(v, Tally("SETTINGS")) \in Nat /\ Units(v, Tally("ACK")) \in Nat
      /\ Units(c.ob_urgent, Tally("SETTINGS")) \in Nat
      /\ Units(s.ob_urgent, Tally("ACK")) \in Nat /\ Len(s.inflight_settings) \in Nat
  BY SettleNumbers
<1>6. Unsettled(d, s, v, Tail(w)) <= Unsettled(c, s, v, w) + (-1)
  <2>1. Unsettled(d, s, v, Tail(w)) + 1 = Unsettled(c, s, v, w)
    BY <1>2, <1>5 DEF Unsettled
  <2> QED
    BY <1>4, <2>1
<1>7. Unsettled(s, d, Tail(w), v) <= Unsettled(s, c, w, v) + 0
  <2>1. Unsettled(s, d, Tail(w), v) = Unsettled(s, c, w, v)
    BY <1>2 DEF Unsettled
  <2> QED
    BY <1>4, <2>1
<1>8. ServerSettings(s) /\ Units(v, Tally("ACK")) <= Units(v, Tally("ACK")) + 0
  BY <1>5 DEF Settle
<1>9. ClientSettings(d)
  BY <1>3 DEF Settle, ClientSettings
<1>10. Len(s.inflight_settings) = Len(s.inflight_settings) + 0 /\ 0 \in Int /\ -1 \in Int
  BY <1>5
<1> HIDE DEF Settle
<1> QED
  BY <1>3, <1>6, <1>7, <1>8, <1>9, <1>10, SettleSum

\* Steps that have nothing to do with settings.
Fewer(q, r) == \A T \in {"SETTINGS", "ACK"} : Units(r, Tally(T)) <= Units(q, Tally(T))

LEMMA FewerFrames ==
    ASSUME NEW q \in Seq(AllFrames)
    PROVE  /\ Fewer(q, q) /\ Fewer(q, <<>>)
           /\ \A f \in AllFrames : f.type \notin {"SETTINGS", "ACK"} => Fewer(q, Append(q, f))
           /\ q # <<>> => Fewer(q, Tail(q))
<1>1. \A T : Units(q, Tally(T)) \in Nat /\ Units(<<>>, Tally(T)) = 0
  BY TallyChange, UnitsEmpty
<1>2. Fewer(q, q) /\ Fewer(q, <<>>)
  BY <1>1 DEF Fewer
<1>3. ASSUME NEW f \in AllFrames, f.type \notin {"SETTINGS", "ACK"}
      PROVE  Fewer(q, Append(q, f))
  <2>1. ASSUME NEW T \in {"SETTINGS", "ACK"}
        PROVE  Units(Append(q, f), Tally(T)) <= Units(q, Tally(T))
    <3>1. Units(Append(q, f), Tally(T)) = Units(q, Tally(T)) + IF f.type = T THEN 1 ELSE 0
      BY TallyChange
    <3>2. f.type # T
      BY <1>3
    <3> QED
      BY <1>1, <3>1, <3>2
  <2> QED
    BY <2>1 DEF Fewer
<1>4. ASSUME q # <<>>
      PROVE  Fewer(q, Tail(q))
  <2>1. ASSUME NEW T \in {"SETTINGS", "ACK"}
        PROVE  Units(Tail(q), Tally(T)) <= Units(q, Tally(T))
    <3>1. /\ Units(q, Tally(T)) = Units(Tail(q), Tally(T)) + IF Head(q).type = T THEN 1 ELSE 0
          /\ Units(Tail(q), Tally(T)) \in Nat
      BY <1>4, TallyChange
    <3> QED
      BY <3>1
  <2> QED
    BY <2>1 DEF Fewer
<1> QED
  BY <1>2, <1>3, <1>4

LEMMA SettleOther ==
    ASSUME NEW c, NEW s, NEW v, NEW w, NEW d, NEW t, NEW v2, NEW w2,
           Typed(c, s, v, w), Typed(d, t, v2, w2), Settle(c, s, v, w),
           Fewer(v, v2), Fewer(w, w2), SameSettings(s, t),
           d.goaway_flags = {} => c.goaway_flags = {} /\ SameSettings(c, d)
    PROVE  Settle(d, t, v2, w2)
<1>1. \A T : /\ Units(v, Tally(T)) \in Nat /\ Units(w, Tally(T)) \in Nat
             /\ Units(c.ob_urgent, Tally(T)) \in Nat
             /\ Units(s.ob_urgent, Tally(T)) \in Nat
  BY SettleNumbers
<1>2. \A T : Units(v2, Tally(T)) \in Nat /\ Units(w2, Tally(T)) \in Nat
  BY SettleNumbers
<1>3. /\ t.local_max = s.local_max /\ t.inflight_settings = s.inflight_settings
      /\ t.ob_urgent = s.ob_urgent
  BY DEF SameSettings
<1>4. ASSUME d.goaway_flags = {}
      PROVE  /\ c.goaway_flags = {}
             /\ d.local_max = c.local_max /\ d.inflight_settings = c.inflight_settings
             /\ Down(v, c.ob_urgent, v2, d.ob_urgent)
             /\ Down(w, s.ob_urgent, w2, t.ob_urgent)
  <2>1. /\ c.goaway_flags = {} /\ d.ob_urgent = c.ob_urgent
        /\ d.local_max = c.local_max /\ d.inflight_settings = c.inflight_settings
    BY <1>4 DEF SameSettings
  <2>2. ASSUME NEW T \in {"SETTINGS", "ACK"}
        PROVE  /\ Units(v2, Tally(T)) + Units(d.ob_urgent, Tally(T))
                    <= Units(v, Tally(T)) + Units(c.ob_urgent, Tally(T))
               /\ Units(w2, Tally(T)) + Units(t.ob_urgent, Tally(T))
                    <= Units(w, Tally(T)) + Units(s.ob_urgent, Tally(T))
    <3>1. /\ Units(v2, Tally(T)) <= Units(v, Tally(T))
          /\ Units(w2, Tally(T)) <= Units(w, Tally(T))
      BY DEF Fewer
    <3> QED
      BY <1>1, <1>2, <1>3, <2>1, <3>1
  <2>3. Down(v, c.ob_urgent, v2, d.ob_urgent) /\ Down(w, s.ob_urgent, w2, t.ob_urgent)
    BY <2>2 DEF Down
  <2> QED
    BY <2>1, <2>3
<1>5. Units(v2, Tally("ACK")) <= Units(v, Tally("ACK"))
  BY DEF Fewer
<1> QED
  BY <1>3, <1>4, <1>5, SettleFewer
-----------------------------------------------------------------------------
(***************************************************************************)
(* A client that is ending the session queues no other GOAWAY.             *)
(***************************************************************************)
Mute(s, t) ==
    /\ t.local_last_stream_id = s.local_last_stream_id
    /\ \A f \in Members(t.ob_reg) : f.type = "GOAWAY" => f \in Members(s.ob_reg)

LEMMA MuteTwice ==
    ASSUME NEW s, NEW t, NEW u, Mute(s, t), Mute(t, u)
    PROVE  Mute(s, u)
BY DEF Mute

LEMMA MuteSelf ==
    ASSUME NEW s, NEW t, t.local_last_stream_id = s.local_last_stream_id, t.ob_reg = s.ob_reg
    PROVE  Mute(s, t)
BY DEF Mute

LEMMA MildMute ==
    ASSUME NEW s, NEW t, NEW R, NEW I, Mild(s, t, R, I)
    PROVE  Mute(s, t)
BY DEF Mild, SameFrames, Mute

LEMMA TameMute ==
    ASSUME NEW s, NEW t, NEW R, NEW I, Tame(s, t, R, I)
    PROVE  Mute(s, t)
BY MildMute DEF Tame

LEMMA DirtyClient ==
    ASSUME NEW c, NEW s, NEW v, NEW w, Core(c, s, v, w), c.goaway_flags # {},
           NEW d, c.goaway_flags \subseteq d.goaway_flags,
           d.last_proc_stream_id = c.last_proc_stream_id, LastOK(d.local_last_stream_id),
           \A f \in Members(d.ob_reg) : f.type = "GOAWAY" => f \in Members(c.ob_reg)
    PROVE  Core(d, s, v, w)
<1>1. d.goaway_flags # {}
  OBVIOUS
<1>2. ServerOK(s, w) /\ GoawaysOK(c) /\ HeardOK(s, v) /\ RoomOK(s, v)
  BY DEF Core
<1>3. GoawaysOK(d)
  BY <1>2 DEF GoawaysOK
<1>4. PartingOK(d, s, v)
  <2>1. PartingOK(c, s, v)
    BY DEF Core
  <2> QED
    BY <2>1, PartingFewer DEF Goodbyes
<1> QED
  BY <1>1, <1>2, <1>3, <1>4 DEF Core

LEMMA MuteClient ==
    ASSUME NEW c, NEW s, NEW v, NEW w, Core(c, s, v, w), "TERM_ON_SEND" \in c.goaway_flags,
           NEW d, Later(c, d), Mute(c, d)
    PROVE  Core(d, s, v, w)
<1>1. /\ c.goaway_flags # {} /\ c.goaway_flags \subseteq d.goaway_flags
      /\ d.last_proc_stream_id = c.last_proc_stream_id
  BY DEF Later
<1>2. LastOK(d.local_last_stream_id)
  BY DEF Core, GoawaysOK, Mute
<1>3. \A f \in Members(d.ob_reg) : f.type = "GOAWAY" => f \in Members(c.ob_reg)
  BY DEF Mute
<1> QED
  BY <1>1, <1>2, <1>3, DirtyClient

\* What a client that is ending the session does with a frame.
LEMMA ShutdownMute ==
    ASSUME NEW srv \in BOOLEAN, NEW s \in SessionType(srv), NEW id \in StreamIds, NEW dir
    PROVE  Mute(s, shutdown(s, id, dir))
<1> DEFINE a == [s.streams[id] EXCEPT !.shut = s.streams[id].shut \cup {dir}]
<1> DEFINE t == [s EXCEPT !.streams[id] = a]
<1>1. shutdown(s, id, dir) \in {t, close_stream(t, id)}
  BY DEF shutdown, close_stream_if_shut_rdwr
<1>2. t.ob_reg = s.ob_reg /\ t.local_last_stream_id = s.local_last_stream_id
  BY DEF SessionType
<1>3. /\ close_stream(t, id).ob_reg = t.ob_reg
      /\ close_stream(t, id).local_last_stream_id = t.local_last_stream_id
  BY DEF SessionType, close_stream, close_streams
<1> HIDE DEF t
<1> QED
  BY <1>1, <1>2, <1>3, MuteSelf

LEMMA UpdateConnectionMute ==
    ASSUME NEW srv \in BOOLEAN, NEW s \in SessionType(srv), NEW n \in Nat,
           "TERM_ON_SEND" \in s.goaway_flags
    PROVE  Mute(s, update_recv_connection_window_size(s, n))
<1>1. CASE s.recv_window_size + n <= s.local_window_size
  BY <1>1, UpdateConnectionTame, TameMute
<1>2. CASE ~(s.recv_window_size + n <= s.local_window_size)
  <2> DEFINE t == [s EXCEPT !.recv_window_size = @ + n]
  <2>1. /\ t.recv_window_size = s.recv_window_size + n /\ s.recv_window_size \in Nat
        /\ s.local_window_size \in Int
    BY FieldTypes DEF SessionType
  <2>2. update_recv_connection_window_size(s, n) = terminate_session(s)
    BY <1>2, <2>1 DEF update_recv_connection_window_size
  <2>3. terminate_session(s) = s
    BY DEF terminate_session
  <2> QED
    BY <2>2, <2>3, MuteSelf
<1> QED
  BY <1>1, <1>2

LEMMA HeadersMute ==
    ASSUME NEW srv \in BOOLEAN, ~srv, NEW s \in SessionType(srv), NEW f, f.id \in StreamIds,
           "TERM_ON_SEND" \in s.goaway_flags
    PROVE  Mute(s, process_headers_frame(s, f))
<1> DEFINE id == f.id
<1>1. terminate_session(s) = s /\ ~allow_incoming_new_stream(s) /\ ~s.server
  BY FieldTypes DEF terminate_session, allow_incoming_new_stream
<1>2. Mute(s, s)
  BY MuteSelf
<1>3. Mute(s, on_request_headers_received(s, f))
  BY <1>1, <1>2 DEF on_request_headers_received
<1>4. Mute(s, on_push_response_headers_received(s, f))
  BY <1>1, <1>2 DEF on_push_response_headers_received
<1>5. Mute(s, on_response_headers_received(s, f))
  <2> DEFINE a == [s.streams[id] EXCEPT !.state = "OPENED"]
  <2> DEFINE t == [s EXCEPT !.streams[id] = a]
  <2>1. s.streams[id] \in StreamType /\ a \in StreamType
    <3>1. s.streams[id] \in StreamType
      BY StreamTypes
    <3> QED
      BY <3>1 DEF StreamType
  <2>2. /\ t \in SessionType(srv) /\ t.ob_reg = s.ob_reg
        /\ t.local_last_stream_id = s.local_last_stream_id
    BY <2>1 DEF SessionType
  <2>3. on_response_headers_received(s, f) \in {s, end_stream_headers(t, f)}
    BY <1>1 DEF on_response_headers_received
  <2>4. Mute(s, t)
    BY <2>2, MuteSelf
  <2> HIDE DEF t
  <2>5. end_stream_headers(t, f) \in {t, shutdown(t, id, "RD")}
    BY DEF end_stream_headers
  <2>6. Mute(t, shutdown(t, id, "RD"))
    BY <2>2, ShutdownMute
  <2> QED
    BY <1>2, <2>3, <2>4, <2>5, <2>6, MuteTwice
<1> QED
  BY <1>1, <1>2, <1>3, <1>4, <1>5 DEF process_headers_frame

LEMMA DataMute ==
    ASSUME NEW srv \in BOOLEAN, NEW s \in SessionType(srv), NEW f \in DataFrames,
           "TERM_ON_SEND" \in s.goaway_flags
    PROVE  Mute(s, on_data_received(s, f))
<1>1. f.id \in StreamIds /\ f.length \in Nat /\ (~f.end) \in BOOLEAN
  BY DEF DataFrames
<1>2. terminate_session(s) = s
  BY DEF terminate_session
<1> DEFINE u == update_recv_connection_window_size(s, f.length)
<1> DEFINE t == update_recv_stream_window_size(u, f.id, f.length, ~f.end)
<1>3. u \in SessionType(srv) /\ Mute(s, u)
  BY <1>1, UpdateConnection, UpdateConnectionMute
<1>4. ignore_data(s, f) = u
  BY DEF ignore_data
<1> HIDE DEF u
<1>5. t \in SessionType(srv) /\ Mute(u, t)
  <2>1. f.id \in {f.id}
    OBVIOUS
  <2>2. Tame(u, t, {f.id}, {})
    BY <1>1, <1>3, <2>1, UpdateStreamTame
  <2> QED
    BY <1>1, <1>3, <2>2, TameMute, UpdateStream
<1> HIDE DEF t
<1>6. Mute(t, shutdown(t, f.id, "RD"))
  BY <1>1, <1>5, ShutdownMute
<1>7. on_data_received(s, f) \in {u, t, shutdown(t, f.id, "RD")}
  BY <1>2, <1>4 DEF on_data_received, t, u
<1> QED
  BY <1>3, <1>5, <1>6, <1>7, MuteTwice

LEMMA WindowUpdateMute ==
    ASSUME NEW srv \in BOOLEAN, NEW s \in SessionType(srv), NEW f \in Updates,
           "TERM_ON_SEND" \in s.goaway_flags
    PROVE  Mute(s, on_window_update_received(s, f))
<1>1. terminate_session(s) = s
  BY DEF terminate_session
<1>2. Mute(s, s)
  BY MuteSelf
<1>3. ASSUME NEW n PROVE Mute(s, [s EXCEPT !.remote_window_size = n])
  <2> DEFINE t == [s EXCEPT !.remote_window_size = n]
  <2>1. t.ob_reg = s.ob_reg /\ t.local_last_stream_id = s.local_last_stream_id
    BY DEF SessionType
  <2> QED
    BY <2>1, MuteSelf
<1>4. ASSUME NEW id, NEW n, NEW b
      PROVE  Mute(s, [s EXCEPT !.streams[id].remote_window_size = n,
                               !.streams[id].deferred = b])
  <2> DEFINE t == [s EXCEPT !.streams[id].remote_window_size = n, !.streams[id].deferred = b]
  <2>1. t.ob_reg = s.ob_reg /\ t.local_last_stream_id = s.local_last_stream_id
    BY DEF SessionType
  <2> QED
    BY <2>1, MuteSelf
<1> QED
  BY <1>1, <1>2, <1>3, <1>4 DEF on_window_update_received

LEMMA GoawayMute ==
    ASSUME NEW srv \in BOOLEAN, NEW s \in SessionType(srv), NEW f \in Goaways,
           "TERM_ON_SEND" \in s.goaway_flags
    PROVE  Mute(s, on_goaway_received(s, f))
<1>1. terminate_session(s) = s
  BY DEF terminate_session
<1>2. Mute(s, s)
  BY MuteSelf
<1> DEFINE t == [s EXCEPT !.goaway_flags = s.goaway_flags \cup {"RECV"},
                          !.remote_last_stream_id = f.last]
<1>3. t \in SessionType(srv) /\ t.ob_reg = s.ob_reg
      /\ t.local_last_stream_id = s.local_last_stream_id
  BY DEF SessionType, Goaways
<1> HIDE DEF t
<1>4. ASSUME NEW ids PROVE Mute(s, close_streams(t, ids))
  <2>1. Tame(t, close_streams(t, ids), {}, {})
    BY <1>3, CloseStreamsTame
  <2> QED
    BY <1>3, <2>1, TameMute, MuteSelf, MuteTwice
<1> QED
  BY <1>1, <1>2, <1>4 DEF on_goaway_received, close_stream_on_goaway, t

LEMMA ReceiveMute ==
    ASSUME NEW srv \in BOOLEAN, ~srv, NEW s \in SessionType(srv), NEW f \in Frames(~srv),
           "TERM_ON_SEND" \in s.goaway_flags
    PROVE  Mute(s, receive(s, f))
<1>1. terminate_session(s) = s /\ ~allow_incoming_new_stream(s) /\ ~s.server
  BY FieldTypes DEF terminate_session, allow_incoming_new_stream
<1>2. Mute(s, s)
  BY MuteSelf
<1>3. /\ f \in AllFrames
      /\ f.type \in {"HEADERS", "PUSH_PROMISE", "RST_STREAM", "WINDOW_UPDATE", "GOAWAY",
                     "SETTINGS", "ACK", "DATA"}
  <2>1. f \in AllFrames
    BY IsFrame
  <2> QED
    BY <2>1, FrameFields
<1>4. CASE f.type = "HEADERS"
  BY <1>3, <1>4, FrameFields, HeadersMute DEF receive
<1>5. CASE f.type = "PUSH_PROMISE"
  BY <1>1, <1>2, <1>5 DEF receive, on_push_promise_received
<1>6. CASE f.type = "RST_STREAM"
  <2>1. on_rst_stream_received(s, f) \in {s, close_streams(s, {f.id})}
    BY <1>1 DEF on_rst_stream_received, close_stream
  <2>2. Tame(s, close_streams(s, {f.id}), {}, {})
    BY CloseStreamsTame
  <2> QED
    BY <1>2, <1>6, <2>1, <2>2, TameMute DEF receive
<1>7. CASE f.type = "DATA"
  <2>1. f \in DataFrames
    BY <1>7, FrameKinds
  <2> QED
    BY <1>7, <2>1, DataMute DEF receive
<1>8. CASE f.type = "WINDOW_UPDATE"
  <2>1. f \in Updates
    BY <1>8, FrameKinds
  <2> QED
    BY <1>8, <2>1, WindowUpdateMute DEF receive
<1>9. CASE f.type = "SETTINGS"
  <2>1. f \in SettingsFrames
    BY <1>9, FrameKinds
  <2>2. Mild(s, on_settings_received(s, f), {}, {})
    BY <2>1, SettingsReceivedMild
  <2> QED
    BY <1>9, <2>2, MildMute DEF receive
<1>10. CASE f.type = "ACK"
  <2>1. CASE s.inflight_settings = <<>>
    BY <1>1, <1>2, <1>10, <2>1 DEF receive, on_settings_ack_received
  <2>2. CASE s.inflight_settings # <<>>
    <3>1. Mild(s, on_settings_ack_received(s), {}, {})
      BY <2>2, SettingsAckedMild
    <3> QED
      BY <1>10, <3>1, MildMute DEF receive
  <2> QED
    BY <2>1, <2>2
<1>11. CASE f.type = "GOAWAY"
  <2>1. f \in Goaways
    BY <1>11, FrameKinds
  <2> QED
    BY <1>11, <2>1, GoawayMute DEF receive
<1>12. \/ f.type = "HEADERS" \/ f.type = "PUSH_PROMISE" \/ f.type = "RST_STREAM"
       \/ f.type = "DATA" \/ f.type = "WINDOW_UPDATE" \/ f.type = "SETTINGS"
       \/ f.type = "ACK" \/ f.type = "GOAWAY"
  BY <1>3, Zenon
<1> QED
  BY <1>4, <1>5, <1>6, <1>7, <1>8, <1>9, <1>10, <1>11, <1>12, Zenon
=============================================================================
