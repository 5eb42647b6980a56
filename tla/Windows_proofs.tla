---------------------------- MODULE Windows_proofs ----------------------------
(***************************************************************************)
(* Proofs that Connection loses no unit of a window, neither of the        *)
(* connection nor of a stream both sides have open.                        *)
(***************************************************************************)
EXTENDS Connection_proofs, Sums_proofs

-----------------------------------------------------------------------------
(***************************************************************************)
(* What a sequence of frames adds up to.                                   *)
(***************************************************************************)
Units(q, val) == SumOf([i \in DOMAIN q |-> val[q[i]]])

LEMMA ValuesSeq ==
    ASSUME NEW T, NEW val \in [T -> Int], NEW q \in Seq(T)
    PROVE  /\ [i \in DOMAIN q |-> val[q[i]]] \in Seq(Int)
           /\ Len([i \in DOMAIN q |-> val[q[i]]]) = Len(q)
<1> DEFINE v == [i \in DOMAIN q |-> val[q[i]]]
<1>1. Len(q) \in Nat /\ DOMAIN q = 1 .. Len(q) /\ \A i \in 1 .. Len(q) : q[i] \in T
  BY LenProperties, ElementOfSeq
<1>2. v \in [1 .. Len(q) -> Int]
  BY <1>1
<1>3. v \in Seq(Int)
  BY <1>1, <1>2, SeqDef
<1>4. DOMAIN v = 1 .. Len(q) /\ Len(v) \in Nat /\ DOMAIN v = 1 .. Len(v)
  BY <1>1, <1>3, LenProperties
<1> HIDE DEF v
<1>5. Len(v) = Len(q)
  BY <1>1, <1>4
<1> QED
  BY <1>3, <1>5 DEF v

LEMMA UnitsNat ==
    ASSUME NEW T, NEW val \in [T -> Nat], NEW q \in Seq(T)
    PROVE  Units(q, val) \in Nat
<1> DEFINE v == [i \in DOMAIN q |-> val[q[i]]]
<1>1. Len(q) \in Nat /\ DOMAIN q = 1 .. Len(q) /\ \A i \in 1 .. Len(q) : q[i] \in T
  BY LenProperties, ElementOfSeq
<1>2. v \in [1 .. Len(q) -> Nat]
  BY <1>1
<1>3. v \in Seq(Nat)
  BY <1>1, <1>2, SeqDef
<1> HIDE DEF v
<1> QED
  BY <1>3, SumNat DEF Units, v

LEMMA UnitsEmpty ==
    ASSUME NEW val
    PROVE  Units(<<>>, val) = 0
<1>1. [i \in DOMAIN <<>> |-> val[<<>>[i]]] = <<>>
  OBVIOUS
<1> QED
  BY <1>1, SumEmpty DEF Units

LEMMA UnitsAppend ==
    ASSUME NEW T, NEW val \in [T -> Int], NEW q \in Seq(T), NEW f \in T
    PROVE  Units(Append(q, f), val) = Units(q, val) + val[f]
<1> DEFINE r == Append(q, f)
           v == [i \in DOMAIN q |-> val[q[i]]]
           w == [i \in DOMAIN r |-> val[r[i]]]
<1>1. r \in Seq(T) /\ Len(r) = Len(q) + 1 /\ Len(q) \in Nat
      /\ (\A i \in 1 .. Len(q) : r[i] = q[i]) /\ r[Len(q) + 1] = f
  OBVIOUS
<1>2. v \in Seq(Int) /\ Len(v) = Len(q) /\ \A i \in 1 .. Len(q) : v[i] = val[q[i]]
  BY ValuesSeq
<1> HIDE DEF r
<1>3. w \in Seq(Int) /\ Len(w) = Len(r) /\ \A i \in 1 .. Len(r) : w[i] = val[r[i]]
  BY <1>1, ValuesSeq
<1> HIDE DEF v, w
<1>4. val[f] \in Int
  OBVIOUS
<1>5. w = Append(v, val[f])
  <2>1. /\ Append(v, val[f]) \in Seq(Int) /\ Len(Append(v, val[f])) = Len(v) + 1
        /\ (\A i \in 1 .. Len(v) : Append(v, val[f])[i] = v[i])
        /\ Append(v, val[f])[Len(v) + 1] = val[f]
    BY <1>2, <1>4
  <2>2. \A i \in 1 .. Len(q) + 1 : i \in 1 .. Len(q) \/ i = Len(q) + 1
    BY <1>1
  <2>3. \A i \in 1 .. Len(q) + 1 : w[i] = Append(v, val[f])[i]
    BY <1>1, <1>2, <1>3, <2>1, <2>2
  <2>4. Len(w) = Len(q) + 1 /\ Len(Append(v, val[f])) = Len(q) + 1
    BY <1>1, <1>2, <1>3, <2>1
  <2> DEFINE x == Append(v, val[f])
  <2> HIDE DEF x
  <2> QED
    BY <1>3, <2>1, <2>3, <2>4, SeqEqual DEF x
<1>6. SumOf(w) = SumOf(v) + val[f]
  BY <1>2, <1>4, <1>5, SumAppend
<1> QED
  BY <1>6 DEF Units, v, w, r

LEMMA UnitsConcat ==
    ASSUME NEW T, NEW val \in [T -> Int], NEW q \in Seq(T), NEW r \in Seq(T)
    PROVE  Units(q \o r, val) = Units(q, val) + Units(r, val)
<1> DEFINE z == q \o r
           v == [i \in DOMAIN q |-> val[q[i]]]
           w == [i \in DOMAIN r |-> val[r[i]]]
           x == [i \in DOMAIN z |-> val[z[i]]]
           y == v \o w
<1>1. /\ z \in Seq(T) /\ Len(z) = Len(q) + Len(r) /\ Len(q) \in Nat /\ Len(r) \in Nat
      /\ \A i \in 1 .. Len(q) + Len(r) : z[i] = IF i <= Len(q) THEN q[i] ELSE r[i - Len(q)]
  BY ConcatProperties, LenProperties
<1>2. v \in Seq(Int) /\ Len(v) = Len(q) /\ \A i \in 1 .. Len(q) : v[i] = val[q[i]]
  BY ValuesSeq
<1>3. w \in Seq(Int) /\ Len(w) = Len(r) /\ \A i \in 1 .. Len(r) : w[i] = val[r[i]]
  BY ValuesSeq
<1> HIDE DEF z
<1>4. x \in Seq(Int) /\ Len(x) = Len(z) /\ \A i \in 1 .. Len(z) : x[i] = val[z[i]]
  BY <1>1, ValuesSeq
<1> HIDE DEF v, w, x
<1>5. /\ y \in Seq(Int) /\ Len(y) = Len(v) + Len(w)
      /\ \A i \in 1 .. Len(v) + Len(w) : y[i] = IF i <= Len(v) THEN v[i] ELSE w[i - Len(v)]
  BY <1>2, <1>3, ConcatProperties
<1>6. SumOf(y) = SumOf(v) + SumOf(w)
  BY <1>2, <1>3, SumConcat
<1> HIDE DEF y
<1>7. x = y
  <2>1. \A i \in 1 .. Len(x) : x[i] = y[i]
    <3> TAKE i \in 1 .. Len(x)
    <3>1. i \in 1 .. Len(q) + Len(r) /\ i \in 1 .. Len(z) /\ i \in 1 .. Len(v) + Len(w)
      BY <1>1, <1>2, <1>3, <1>4
    <3>2. CASE i <= Len(q)
      <4>1. i \in 1 .. Len(q)
        BY <1>1, <3>1, <3>2
      <4>2. z[i] = q[i]
        BY <1>1, <3>1, <3>2
      <4>3. y[i] = v[i]
        BY <1>2, <1>5, <3>1, <3>2
      <4>4. x[i] = val[z[i]] /\ v[i] = val[q[i]]
        BY <1>2, <1>4, <3>1, <4>1
      <4> QED
        BY <4>2, <4>3, <4>4
    <3>3. CASE ~(i <= Len(q))
      <4> DEFINE j == i - Len(q)
      <4>1. j \in 1 .. Len(r)
        BY <1>1, <3>1, <3>3
      <4>2. z[i] = r[j]
        BY <1>1, <3>1, <3>3
      <4>3. y[i] = w[j]
        BY <1>2, <1>5, <3>1, <3>3
      <4> HIDE DEF j
      <4>4. x[i] = val[z[i]] /\ w[j] = val[r[j]]
        BY <1>3, <1>4, <3>1, <4>1
      <4> QED
        BY <4>2, <4>3, <4>4
    <3> QED
      BY <3>2, <3>3
  <2>2. Len(x) = Len(y)
    BY <1>1, <1>2, <1>3, <1>4, <1>5
  <2> QED
    BY <1>4, <1>5, <2>1, <2>2, SeqEqual
<1> QED
  BY <1>6, <1>7 DEF Units, v, w, x, z

LEMMA UnitsTail ==
    ASSUME NEW T, NEW val \in [T -> Int], NEW q \in Seq(T), q # <<>>
    PROVE  Units(q, val) = val[Head(q)] + Units(Tail(q), val)
<1> DEFINE r == Tail(q)
           v == [i \in DOMAIN q |-> val[q[i]]]
           w == [i \in DOMAIN r |-> val[r[i]]]
<1>1. /\ r \in Seq(T) /\ Len(q) \in Nat \ {0} /\ Len(r) = Len(q) - 1 /\ Head(q) = q[1]
      /\ Head(q) \in T /\ \A i \in 1 .. Len(r) : r[i] = q[i + 1]
  OBVIOUS
<1>2. v \in Seq(Int) /\ Len(v) = Len(q) /\ \A i \in 1 .. Len(q) : v[i] = val[q[i]]
  BY ValuesSeq
<1> HIDE DEF r
<1>3. w \in Seq(Int) /\ Len(w) = Len(r) /\ \A i \in 1 .. Len(r) : w[i] = val[r[i]]
  BY <1>1, ValuesSeq
<1> HIDE DEF v, w
<1>4. /\ v # <<>> /\ Head(v) = val[Head(q)]
      /\ Tail(v) \in Seq(Int) /\ Len(Tail(v)) = Len(v) - 1
      /\ \A i \in 1 .. Len(Tail(v)) : Tail(v)[i] = v[i + 1]
  BY <1>1, <1>2
<1>5. Tail(v) = w
  <2> DEFINE u == Tail(v)
  <2>1. /\ u \in Seq(Int) /\ Len(u) = Len(w)
        /\ \A i \in 1 .. Len(u) : u[i] = v[i + 1]
    BY <1>1, <1>2, <1>3, <1>4
  <2> HIDE DEF u
  <2>2. \A i \in 1 .. Len(u) : u[i] = w[i]
    <3> TAKE i \in 1 .. Len(u)
    <3>1. i \in 1 .. Len(r) /\ i + 1 \in 1 .. Len(q)
      BY <1>1, <1>3, <2>1
    <3> QED
      BY <1>1, <1>2, <1>3, <2>1, <3>1
  <2>3. u = w
    BY <1>3, <2>1, <2>2, SeqEqual
  <2> QED
    BY <2>3 DEF u
<1>6. SumOf(v) = Head(v) + SumOf(Tail(v))
  BY <1>2, <1>4, SumTail
<1> QED
  BY <1>4, <1>5, <1>6 DEF Units, v, w, r

-----------------------------------------------------------------------------
(***************************************************************************)
(* Credit and payload in a queue.  Level 0 is the connection, the others   *)
(* are its streams.                                                        *)
(***************************************************************************)
AllFrames == Frames(TRUE) \cup Frames(FALSE)
Levels == StreamIds \cup {0}

Increments(k) ==
    [f \in AllFrames |-> IF f.type = "WINDOW_UPDATE" /\ f.id = k THEN f.increment ELSE 0]
Lengths(k) ==
    [f \in AllFrames |-> IF f.type = "DATA" /\ (k = 0 \/ f.id = k) THEN f.length ELSE 0]

Credit(q, k) == Units(q, Increments(k))
Payload(q, k) == Units(q, Lengths(k))

LEMMA FramesOfType ==
    ASSUME NEW f \in AllFrames
    PROVE  /\ f.type = "WINDOW_UPDATE" => f \in Updates /\ f.increment \in Nat
           /\ f.type = "DATA" => f \in DataFrames /\ f.length \in Nat
BY DEF AllFrames, Frames, Regular, Requests, Responses, Promises, Resets, Updates, Goaways,
       SettingsFrames, Acks, DataFrames

LEMMA ValuesNat ==
    ASSUME NEW k
    PROVE  /\ Increments(k) \in [AllFrames -> Nat] /\ Increments(k) \in [AllFrames -> Int]
           /\ Lengths(k) \in [AllFrames -> Nat] /\ Lengths(k) \in [AllFrames -> Int]
<1>1. \A f \in AllFrames :
        /\ (IF f.type = "WINDOW_UPDATE" /\ f.id = k THEN f.increment ELSE 0) \in Nat
        /\ (IF f.type = "DATA" /\ (k = 0 \/ f.id = k) THEN f.length ELSE 0) \in Nat
  BY FramesOfType
<1> QED
  BY <1>1 DEF Increments, Lengths

LEMMA IsFrame ==
    ASSUME NEW srv \in BOOLEAN
    PROVE  /\ Frames(srv) \subseteq AllFrames /\ Regular(srv) \subseteq AllFrames
           /\ Updates \subseteq AllFrames
BY DEF AllFrames, Frames, Regular

LEMMA QueueType ==
    ASSUME NEW srv \in BOOLEAN
    PROVE  /\ \A q \in Seq(Frames(srv)) : q \in Seq(AllFrames)
           /\ \A q \in Seq(Regular(srv)) : q \in Seq(AllFrames)
BY IsFrame, SeqMonotonic

LEMMA CreditNat ==
    ASSUME NEW q \in Seq(AllFrames), NEW k
    PROVE  Credit(q, k) \in Nat /\ Payload(q, k) \in Nat
BY ValuesNat, UnitsNat DEF Credit, Payload

\* One more frame in a queue, and one less.
LEMMA CreditAppend ==
    ASSUME NEW q \in Seq(AllFrames), NEW f \in AllFrames, NEW k
    PROVE  /\ Credit(Append(q, f), k) = Credit(q, k) + Increments(k)[f]
           /\ Payload(Append(q, f), k) = Payload(q, k) + Lengths(k)[f]
           /\ Increments(k)[f] \in Nat /\ Lengths(k)[f] \in Nat
BY ValuesNat, UnitsAppend DEF Credit, Payload

LEMMA CreditTail ==
    ASSUME NEW q \in Seq(AllFrames), q # <<>>, NEW k
    PROVE  /\ Credit(q, k) = Increments(k)[Head(q)] + Credit(Tail(q), k)
           /\ Payload(q, k) = Lengths(k)[Head(q)] + Payload(Tail(q), k)
           /\ Increments(k)[Head(q)] \in Nat /\ Lengths(k)[Head(q)] \in Nat
           /\ Credit(Tail(q), k) \in Nat /\ Payload(Tail(q), k) \in Nat
<1>1. Head(q) \in AllFrames /\ Tail(q) \in Seq(AllFrames)
  OBVIOUS
<1> QED
  BY <1>1, ValuesNat, UnitsTail, CreditNat DEF Credit, Payload

LEMMA CreditConcat ==
    ASSUME NEW q \in Seq(AllFrames), NEW r \in Seq(AllFrames), NEW k
    PROVE  Credit(q \o r, k) = Credit(q, k) + Credit(r, k)
BY ValuesNat, UnitsConcat DEF Credit

LEMMA CreditEmpty ==
    ASSUME NEW k
    PROVE  Credit(<<>>, k) = 0 /\ Payload(<<>>, k) = 0
BY UnitsEmpty DEF Credit, Payload

LEMMA FrameValue ==
    ASSUME NEW f \in AllFrames, NEW k
    PROVE  /\ f.type # "WINDOW_UPDATE" => Increments(k)[f] = 0
           /\ f.type # "DATA" => Lengths(k)[f] = 0
           /\ f.type = "WINDOW_UPDATE" =>
                Increments(k)[f] = IF f.id = k THEN f.increment ELSE 0
           /\ f.type = "DATA" =>
                Lengths(k)[f] = IF k = 0 \/ f.id = k THEN f.length ELSE 0
BY DEF Increments, Lengths

-----------------------------------------------------------------------------
(***************************************************************************)
(* What a step leaves of the windows of a session.                         *)
(***************************************************************************)
Live == {"RESERVED", "OPENING", "OPENED"}
Idle(s, k) == k \in StreamIds /\ s.streams[k].state = "IDLE"
Shut(s, k) == k \in StreamIds /\ s.streams[k].state = "CLOSED"

\* What is received is no longer given back.
Lost(s, k) ==
    \/ "TERM_ON_SEND" \in s.goaway_flags
    \/ k \in StreamIds /\ s.streams[k].state \in {"CLOSING", "CLOSED"}

\* What has been received and is counted, or waits in the queue to be given
\* back; and what may be sent, beyond what the peer began with.
Held(s, k) == IF k = 0 THEN s.recv_window_size ELSE s.streams[k].recv_window_size
Level(s, k) == Held(s, k) + Credit(s.ob_reg, k)
Sendable(s, k) == IF k = 0 THEN s.remote_window_size - InitialWindow
                  ELSE s.streams[k].remote_window_size - s.remote_initial_window

Aligned(s) == \A k \in StreamIds :
                Active(s, k) => s.streams[k].local_window_size = s.local_initial_window

\* The streams of X may begin, and no others.
Lives(s, t, X) ==
    /\ s.goaway_flags \subseteq t.goaway_flags
    /\ "TERM_ON_SEND" \in t.goaway_flags \/ t.goaway_flags \subseteq s.goaway_flags \cup {"RECV"}
    /\ s.last_recv_stream_id <= t.last_recv_stream_id
    /\ \A k \in StreamIds :
         /\ t.streams[k].state = "IDLE" => s.streams[k].state = "IDLE"
         /\ s.streams[k].state = "IDLE" => t.streams[k].state = "IDLE" \/ k \in X
         /\ s.streams[k].state = "CLOSED" => t.streams[k].state = "CLOSED"
         /\ s.streams[k].state = "CLOSING" => t.streams[k].state \in {"CLOSING", "CLOSED"}
         /\ t.streams[k].state \in Live =>
                s.streams[k].state \in Live \/ s.streams[k].state = "IDLE"
         /\ t.streams[k].state = "RESERVED" =>
                \/ s.streams[k].state = "RESERVED"
                \/ s.streams[k].state = "IDLE" /\ k % 2 = 0

\* g units more are held: those of a stream that is lost do not count, and a
\* stream that has not begun has none.
Kept(s, t, k, g) ==
    \/ Lost(t, k)
    \/ Idle(s, k) /\ Level(t, k) <= Level(s, k)
    \/ ~Idle(s, k) /\ Level(t, k) = Level(s, k) + g

\* d units more may be sent.
Granted(s, t, k, d) ==
    \/ Shut(t, k)
    \/ Idle(s, k) /\ (Idle(t, k) \/ Sendable(t, k) = 0)
    \/ ~Idle(s, k) /\ Sendable(t, k) = Sendable(s, k) + d

Settles(s, t, X, g, d) ==
    /\ Lives(s, t, X)
    /\ Aligned(s) => Aligned(t)
    /\ \A k \in Levels : Kept(s, t, k, g[k]) /\ Granted(s, t, k, d[k])

Nothing == [k \in Levels |-> 0]
Keeps(s, t) == Settles(s, t, {}, Nothing, Nothing)

LEMMA LevelTypes ==
    ASSUME NEW srv \in BOOLEAN, NEW s \in SessionType(srv), NEW k \in Levels
    PROVE  /\ s.ob_reg \in Seq(AllFrames) /\ Credit(s.ob_reg, k) \in Nat
           /\ Held(s, k) \in Nat /\ Level(s, k) \in Nat /\ Sendable(s, k) \in Int
<1>1. s.ob_reg \in Seq(AllFrames)
  BY FieldTypes, QueueType
<1>2. Credit(s.ob_reg, k) \in Nat
  BY <1>1, CreditNat
<1>3. Held(s, k) \in Nat
  BY FieldTypes, StreamTypes DEF Held, Levels
<1>4. Level(s, k) \in Nat
  BY <1>2, <1>3 DEF Level
<1>5. Sendable(s, k) \in Int
  BY FieldTypes, StreamTypes, SizeAssumption DEF Sendable, Levels
<1> QED
  BY <1>1, <1>2, <1>3, <1>4, <1>5

LEMMA LivesTwice ==
    ASSUME NEW s, NEW t, NEW u, NEW X, Lives(s, t, X), Lives(t, u, {}),
           s.last_recv_stream_id \in Nat, t.last_recv_stream_id \in Nat,
           u.last_recv_stream_id \in Nat
    PROVE  Lives(s, u, X)
BY DEF Lives

\* One step after another: the second adds nothing.
LEMMA SettlesThen ==
    ASSUME NEW srv \in BOOLEAN, NEW s \in SessionType(srv), NEW t \in SessionType(srv),
           NEW u \in SessionType(srv), NEW X, NEW g, NEW d,
           Settles(s, t, X, g, d), Keeps(t, u)
    PROVE  Settles(s, u, X, g, d)
<1>1. Lives(s, t, X) /\ Lives(t, u, {})
  BY DEF Settles, Keeps
<1>2. Lives(s, u, X)
  BY <1>1, LivesTwice, FieldTypes
<1>3. Aligned(s) => Aligned(u)
  BY DEF Settles, Keeps
<1>4. ASSUME NEW k \in Levels
      PROVE  Kept(s, u, k, g[k]) /\ Granted(s, u, k, d[k])
  <2>1. /\ Kept(s, t, k, g[k]) /\ Granted(s, t, k, d[k])
        /\ Kept(t, u, k, 0) /\ Granted(t, u, k, 0)
    BY DEF Settles, Keeps, Nothing
  <2>2. /\ Idle(t, k) => Idle(s, k)
        /\ Lost(t, k) => Lost(u, k)
        /\ Shut(t, k) => Shut(u, k)
    BY <1>1 DEF Lives, Idle, Lost, Shut
  <2>3. /\ Level(s, k) \in Nat /\ Level(t, k) \in Nat /\ Level(u, k) \in Nat
        /\ Sendable(t, k) \in Int /\ Sendable(u, k) \in Int
    BY LevelTypes
  <2>4. Kept(s, u, k, g[k])
    BY <2>1, <2>2, <2>3 DEF Kept
  <2>5. Granted(s, u, k, d[k])
    <3>1. Granted(t, u, k, 0) => \/ Shut(u, k)
                                 \/ Idle(t, k) /\ (Idle(u, k) \/ Sendable(u, k) = 0)
                                 \/ ~Idle(t, k) /\ Sendable(u, k) = Sendable(t, k)
      BY <2>3 DEF Granted
    <3> QED
      BY <2>1, <2>2, <3>1 DEF Granted
  <2> QED
    BY <2>4, <2>5
<1> QED
  BY <1>2, <1>3, <1>4 DEF Settles

LEMMA KeepsTwice ==
    ASSUME NEW srv \in BOOLEAN, NEW s \in SessionType(srv), NEW t \in SessionType(srv),
           NEW u \in SessionType(srv), Keeps(s, t), Keeps(t, u)
    PROVE  Keeps(s, u)
BY SettlesThen DEF Keeps

\* Whatever else happens, these fields are what the windows are made of.
SameWindows(s, t) ==
    /\ \A k \in Levels : Credit(t.ob_reg, k) = Credit(s.ob_reg, k)
    /\ t.recv_window_size = s.recv_window_size
    /\ t.remote_window_size = s.remote_window_size
    /\ t.remote_initial_window = s.remote_initial_window
    /\ t.local_initial_window = s.local_initial_window
    /\ \A k \in StreamIds :
         \/ t.streams[k].state = "CLOSED"
         \/ /\ t.streams[k].recv_window_size = s.streams[k].recv_window_size
            /\ t.streams[k].remote_window_size = s.streams[k].remote_window_size
            /\ t.streams[k].local_window_size = s.streams[k].local_window_size

LEMMA NoOthersActive ==
    ASSUME NEW s, NEW t, NEW X, Lives(s, t, X), NEW k \in StreamIds, k \notin X, Active(t, k)
    PROVE  Active(s, k)
BY DEF Lives, Active

LEMMA Unmoved ==
    ASSUME NEW srv \in BOOLEAN, NEW s \in SessionType(srv), NEW t \in SessionType(srv),
           Lives(s, t, {}), SameWindows(s, t)
    PROVE  Keeps(s, t)
<1>1. ASSUME Aligned(s) PROVE Aligned(t)
  <2> SUFFICES ASSUME NEW k \in StreamIds, Active(t, k)
               PROVE  t.streams[k].local_window_size = t.local_initial_window
    BY DEF Aligned
  <2>1. Active(s, k)
    BY NoOthersActive
  <2> QED
    BY <1>1, <2>1 DEF SameWindows, Aligned, Active
<1>2. ASSUME NEW k \in Levels
      PROVE  Kept(s, t, k, 0) /\ Granted(s, t, k, 0)
  <2>1. CASE Shut(t, k)
    BY <2>1 DEF Kept, Granted, Lost, Shut
  <2>2. CASE ~Shut(t, k)
    <3>1. k = 0 \/ k \in StreamIds
      BY DEF Levels
    <3>2. Held(t, k) = Held(s, k) /\ Sendable(t, k) = Sendable(s, k)
      BY <2>2, <3>1 DEF SameWindows, Shut, Held, Sendable
    <3>3. Level(t, k) = Level(s, k)
      BY <3>2 DEF SameWindows, Level
    <3>4. Level(s, k) \in Nat /\ Sendable(s, k) \in Int
      BY LevelTypes
    <3>5. Idle(s, k) => Idle(t, k)
      BY DEF Lives, Idle
    <3> QED
      BY <3>2, <3>3, <3>4, <3>5 DEF Kept, Granted
  <2> QED
    BY <2>1, <2>2
<1> QED
  BY <1>1, <1>2 DEF Keeps, Settles, Nothing

\* A step that opens and closes nothing.
FlagsStay(s, t) ==
    "TERM_ON_SEND" \in t.goaway_flags \/ t.goaway_flags \subseteq s.goaway_flags \cup {"RECV"}

LEMMA CalmLives ==
    ASSUME NEW srv \in BOOLEAN, NEW s \in SessionType(srv), NEW t \in SessionType(srv),
           Calm(s, t), FlagsStay(s, t)
    PROVE  Lives(s, t, {})
<1>1. t.last_recv_stream_id = s.last_recv_stream_id /\ s.last_recv_stream_id \in Nat
  BY FieldTypes DEF Calm, Fixed
<1> QED
  BY <1>1 DEF Calm, Fixed, FlagsStay, Lives, Live, Active

LEMMA KeepsSelf ==
    ASSUME NEW srv \in BOOLEAN, NEW s \in SessionType(srv)
    PROVE  Keeps(s, s)
<1>1. Lives(s, s, {})
  BY CalmSelf, CalmLives DEF FlagsStay
<1>2. SameWindows(s, s)
  BY DEF SameWindows
<1> QED
  BY <1>1, <1>2, Unmoved

-----------------------------------------------------------------------------
(***************************************************************************)
(* Operations that leave every window as it is.                            *)
(***************************************************************************)
LEMMA OtherFrameQueued ==
    ASSUME NEW srv \in BOOLEAN, NEW s \in SessionType(srv), NEW f \in Regular(srv),
           f.type # "WINDOW_UPDATE", NEW k
    PROVE  Credit(Append(s.ob_reg, f), k) = Credit(s.ob_reg, k)
<1>1. s.ob_reg \in Seq(AllFrames) /\ f \in AllFrames
  BY FieldTypes, QueueType, IsFrame
<1>2. /\ Credit(Append(s.ob_reg, f), k) = Credit(s.ob_reg, k) + Increments(k)[f]
      /\ Credit(s.ob_reg, k) \in Nat /\ Increments(k)[f] = 0
  BY <1>1, CreditAppend, CreditNat, FrameValue
<1> QED
  BY <1>2

LEMMA TerminateKeeps ==
    ASSUME NEW srv \in BOOLEAN, NEW s \in SessionType(srv)
    PROVE  /\ terminate_session(s) \in SessionType(srv) /\ Keeps(s, terminate_session(s))
           /\ "TERM_ON_SEND" \in terminate_session(s).goaway_flags
<1> DEFINE t == terminate_session(s)
<1>1. t \in SessionType(srv) /\ Calm(s, t)
  BY Terminate
<1>2. CASE "TERM_ON_SEND" \in s.goaway_flags
  BY <1>2, KeepsSelf DEF terminate_session
<1>3. CASE "TERM_ON_SEND" \notin s.goaway_flags
  <2> DEFINE f == Goaway(Min2(s.last_proc_stream_id, s.local_last_stream_id), TRUE)
  <2>1. f \in Regular(srv) /\ f.type = "GOAWAY"
    BY FieldTypes DEF Goaway, Goaways, Regular, Min2
  <2> HIDE DEF f
  <2>2. t = [s EXCEPT !.ob_reg = Append(s.ob_reg, f),
                      !.goaway_flags = s.goaway_flags \cup {"TERM_ON_SEND"}]
    BY <1>3 DEF terminate_session, add_goaway, Enqueue, f
  <2>3. /\ t.ob_reg = Append(s.ob_reg, f) /\ t.streams = s.streams
        /\ t.goaway_flags = s.goaway_flags \cup {"TERM_ON_SEND"}
        /\ t.recv_window_size = s.recv_window_size
        /\ t.remote_window_size = s.remote_window_size
        /\ t.remote_initial_window = s.remote_initial_window
        /\ t.local_initial_window = s.local_initial_window
    BY <2>2 DEF SessionType
  <2> HIDE DEF t
  <2>4. SameWindows(s, t)
    BY <2>1, <2>3, OtherFrameQueued DEF SameWindows
  <2>5. Lives(s, t, {})
    BY <1>1, <2>3, CalmLives DEF FlagsStay
  <2>6. Keeps(s, t) /\ "TERM_ON_SEND" \in t.goaway_flags
    BY <1>1, <2>3, <2>4, <2>5, Unmoved
  <2> QED
    BY <1>1, <2>6 DEF t
<1> QED
  BY <1>1, <1>2, <1>3

\* Fields of a session the windows have nothing to do with.
LEMMA SameFields ==
    ASSUME NEW srv \in BOOLEAN, NEW s \in SessionType(srv), NEW t \in SessionType(srv),
           Calm(s, t), t.goaway_flags = s.goaway_flags, t.ob_reg = s.ob_reg,
           t.recv_window_size = s.recv_window_size,
           t.remote_window_size = s.remote_window_size,
           t.remote_initial_window = s.remote_initial_window,
           t.local_initial_window = s.local_initial_window,
           \A k \in StreamIds :
              /\ t.streams[k].recv_window_size = s.streams[k].recv_window_size
              /\ t.streams[k].remote_window_size = s.streams[k].remote_window_size
              /\ t.streams[k].local_window_size = s.streams[k].local_window_size
    PROVE  Keeps(s, t)
<1>1. Lives(s, t, {})
  BY CalmLives DEF FlagsStay
<1>2. SameWindows(s, t)
  BY DEF SameWindows
<1> QED
  BY <1>1, <1>2, Unmoved

\* One stream is another in respects that are not windows.
SameStreamWindows(a, b) ==
    /\ b.recv_window_size = a.recv_window_size
    /\ b.remote_window_size = a.remote_window_size
    /\ b.local_window_size = a.local_window_size

LEMMA StreamKeeps ==
    ASSUME NEW srv \in BOOLEAN, NEW s \in SessionType(srv), NEW id \in StreamIds,
           NEW a \in StreamType, SameStreamWindows(s.streams[id], a),
           [s EXCEPT !.streams[id] = a] \in SessionType(srv),
           Calm(s, [s EXCEPT !.streams[id] = a])
    PROVE  Keeps(s, [s EXCEPT !.streams[id] = a])
<1> DEFINE t == [s EXCEPT !.streams[id] = a]
<1>1. /\ t.goaway_flags = s.goaway_flags /\ t.ob_reg = s.ob_reg
      /\ t.recv_window_size = s.recv_window_size
      /\ t.remote_window_size = s.remote_window_size
      /\ t.remote_initial_window = s.remote_initial_window
      /\ t.local_initial_window = s.local_initial_window
      /\ t.streams = [s.streams EXCEPT ![id] = a]
  BY DEF SessionType
<1> HIDE DEF t
<1>2. \A k \in StreamIds : t.streams[k] = IF k = id THEN a ELSE s.streams[k]
  BY <1>1, FieldTypes
<1>3. \A k \in StreamIds : SameStreamWindows(s.streams[k], t.streams[k])
  BY <1>2 DEF SameStreamWindows
<1> QED
  BY <1>1, <1>3, SameFields DEF SameStreamWindows, t

LEMMA AddRstKeeps ==
    ASSUME NEW srv \in BOOLEAN, NEW s \in SessionType(srv), NEW id \in StreamIds
    PROVE  add_rst_stream(s, id) \in SessionType(srv) /\ Keeps(s, add_rst_stream(s, id))
<1> DEFINE a == [s.streams[id] EXCEPT !.state = "CLOSING"]
           t == [s EXCEPT !.streams[id] = a]
<1>1. add_rst_stream(s, id) \in SessionType(srv)
  BY AddRst
<1>2. ASSUME NEW u \in SessionType(srv)
      PROVE  /\ Enqueue(u, "ob_syn", RstStream(id)) \in SessionType(srv)
             /\ Keeps(u, Enqueue(u, "ob_syn", RstStream(id)))
  <2> DEFINE v == Enqueue(u, "ob_syn", RstStream(id))
  <2>1. v \in SessionType(srv) /\ Calm(u, v)
    BY ResetQueued
  <2>2. /\ v.goaway_flags = u.goaway_flags /\ v.ob_reg = u.ob_reg
        /\ v.recv_window_size = u.recv_window_size
        /\ v.remote_window_size = u.remote_window_size
        /\ v.remote_initial_window = u.remote_initial_window
        /\ v.local_initial_window = u.local_initial_window
        /\ v.streams = u.streams
    BY DEF SessionType, Enqueue
  <2> HIDE DEF v
  <2>3. Keeps(u, v)
    BY <2>1, <2>2, SameFields
  <2> QED
    BY <2>1, <2>3 DEF v
<1>3. CASE ~Active(s, id)
  BY <1>2, <1>3 DEF add_rst_stream
<1>4. CASE Active(s, id) /\ s.streams[id].state = "CLOSING"
  BY <1>4, KeepsSelf DEF add_rst_stream
<1>5. CASE Active(s, id) /\ s.streams[id].state # "CLOSING"
  <2>1. s.streams[id] \in StreamType
    BY StreamTypes
  <2>2. a \in StreamType /\ a.state = "CLOSING" /\ a.push = s.streams[id].push
        /\ a.shut = s.streams[id].shut /\ SameStreamWindows(s.streams[id], a)
    BY <2>1 DEF StreamType, SameStreamWindows
  <2>3. add_rst_stream(s, id) = Enqueue(t, "ob_syn", RstStream(id))
    BY <1>5 DEF add_rst_stream
  <2> HIDE DEF a
  <2>4. t \in SessionType(srv) /\ Calm(s, t)
    BY <1>5, <2>2, StreamChanged
  <2>5. Keeps(s, t)
    BY <2>2, <2>4, StreamKeeps
  <2> HIDE DEF t
  <2> QED
    BY <1>1, <1>2, <2>3, <2>4, <2>5, KeepsTwice
<1> QED
  BY <1>1, <1>3, <1>4, <1>5

LEMMA CloseStreamsKeeps ==
    ASSUME NEW srv \in BOOLEAN, NEW s, Sound(srv, s), NEW ids \in SUBSET StreamIds
    PROVE  /\ Sound(srv, close_streams(s, ids)) /\ Keeps(s, close_streams(s, ids))
           /\ \A k \in ids : ~Active(close_streams(s, ids), k)
<1> DEFINE t == close_streams(s, ids)
<1>1. /\ Sound(srv, t) /\ Advances(s, t) /\ s \in SessionType(srv) /\ t \in SessionType(srv)
      /\ \A k \in ids : ~Active(t, k)
  BY CloseStreams DEF Sound
<1>2. /\ t.goaway_flags = s.goaway_flags /\ t.ob_reg = s.ob_reg
      /\ t.last_recv_stream_id = s.last_recv_stream_id
      /\ t.recv_window_size = s.recv_window_size
      /\ t.remote_window_size = s.remote_window_size
      /\ t.remote_initial_window = s.remote_initial_window
      /\ t.local_initial_window = s.local_initial_window
      /\ t.streams = [k \in StreamIds |-> IF k \in ids /\ Active(s, k)
                                          THEN ClosedStream ELSE s.streams[k]]
  BY <1>1 DEF close_streams, SessionType
<1> HIDE DEF t
<1>3. \A k \in StreamIds : \/ t.streams[k] = s.streams[k]
                           \/ Active(s, k) /\ t.streams[k].state = "CLOSED"
  <2>1. \A k \in StreamIds :
          t.streams[k] = IF k \in ids /\ Active(s, k) THEN ClosedStream ELSE s.streams[k]
    BY <1>2
  <2> QED
    BY <2>1, NoStreamType
<1>4. SameWindows(s, t)
  BY <1>2, <1>3 DEF SameWindows
<1>5. Lives(s, t, {})
  <2>1. s.last_recv_stream_id <= t.last_recv_stream_id
    BY <1>1, <1>2, FieldTypes
  <2> QED
    BY <1>2, <1>3, <2>1 DEF Lives, Active, Live
<1> QED
  BY <1>1, <1>4, <1>5, Unmoved DEF t

LEMMA CloseStreamKeeps ==
    ASSUME NEW srv \in BOOLEAN, NEW s, Sound(srv, s), NEW id \in StreamIds
    PROVE  /\ Sound(srv, close_stream(s, id)) /\ Keeps(s, close_stream(s, id))
           /\ ~Active(close_stream(s, id), id)
BY CloseStreamsKeeps DEF close_stream

LEMMA ShutdownKeeps ==
    ASSUME NEW srv \in BOOLEAN, NEW s, Sound(srv, s), NEW id \in StreamIds,
           NEW dir \in {"RD", "WR"}
    PROVE  Sound(srv, shutdown(s, id, dir)) /\ Keeps(s, shutdown(s, id, dir))
<1> DEFINE a == [s.streams[id] EXCEPT !.shut = @ \cup {dir}]
           t == [s EXCEPT !.streams[id].shut = @ \cup {dir}]
<1>0. s \in SessionType(srv) /\ s.streams[id] \in StreamType
  BY StreamTypes DEF Sound
<1>1. /\ a \in StreamType /\ a.push = s.streams[id].push
      /\ a.state = s.streams[id].state
      /\ s.streams[id].shut \subseteq a.shut
      /\ SameStreamWindows(s.streams[id], a)
  BY <1>0 DEF StreamType, SameStreamWindows
<1>2. t = [s EXCEPT !.streams[id] = a]
  OBVIOUS
<1>3. shutdown(s, id, dir) \in {t, close_stream(t, id)}
  BY DEF shutdown, close_stream_if_shut_rdwr
<1> HIDE DEF a, t
<1>4. t \in SessionType(srv) /\ Calm(s, t)
  BY <1>0, <1>1, <1>2, StreamChanged
<1>5. Sound(srv, t) /\ Keeps(s, t)
  BY <1>0, <1>1, <1>2, <1>4, CalmSound, StreamKeeps
<1>6. Sound(srv, close_stream(t, id)) /\ Keeps(s, close_stream(t, id))
  <2>1. Sound(srv, close_stream(t, id)) /\ Keeps(t, close_stream(t, id))
    BY <1>5, CloseStreamKeeps
  <2> QED
    BY <1>0, <1>4, <1>5, <2>1, KeepsTwice DEF Sound
<1> QED
  BY <1>3, <1>5, <1>6

LEMMA ItemKeeps ==
    ASSUME NEW srv \in BOOLEAN, NEW s \in SessionType(srv), NEW id \in StreamIds
    PROVE  /\ detach_item(s, id) \in SessionType(srv) /\ Keeps(s, detach_item(s, id))
           /\ defer_item(s, id) \in SessionType(srv) /\ Keeps(s, defer_item(s, id))
<1> DEFINE a == [s.streams[id] EXCEPT !.item = NoItem, !.deferred = FALSE]
           b == [s.streams[id] EXCEPT !.deferred = TRUE]
<1>1. s.streams[id] \in StreamType
  BY StreamTypes
<1>2. a \in StreamType /\ SameStreamWindows(s.streams[id], a)
  BY <1>1 DEF NoItem, StreamType, SameStreamWindows
<1>3. b \in StreamType /\ SameStreamWindows(s.streams[id], b)
  BY <1>1 DEF StreamType, SameStreamWindows
<1>4. /\ detach_item(s, id) = [s EXCEPT !.streams[id] = a]
      /\ defer_item(s, id) = [s EXCEPT !.streams[id] = b]
  BY FieldTypes, ZenonT(40) DEF detach_item, defer_item, SessionType
<1> HIDE DEF a, b
<1> QED
  BY <1>2, <1>3, <1>4, ItemDetached, StreamKeeps

-----------------------------------------------------------------------------
(***************************************************************************)
(* What is received, and given back.                                       *)
(***************************************************************************)
At(j, n) == [k \in Levels |-> IF k = j THEN n ELSE 0]

LEMMA AtZero == ASSUME NEW j PROVE At(j, 0) = Nothing
BY DEF At, Nothing

SameSends(s, t) ==
    /\ t.remote_window_size = s.remote_window_size
    /\ t.remote_initial_window = s.remote_initial_window
    /\ t.local_initial_window = s.local_initial_window
    /\ \A k \in StreamIds :
         /\ t.streams[k].remote_window_size = s.streams[k].remote_window_size
         /\ t.streams[k].local_window_size = s.streams[k].local_window_size

LEMMA OnlyHeld ==
    ASSUME NEW srv \in BOOLEAN, NEW s \in SessionType(srv), NEW t \in SessionType(srv),
           Lives(s, t, {}), SameSends(s, t), NEW g, \A k \in Levels : Kept(s, t, k, g[k])
    PROVE  Settles(s, t, {}, g, Nothing)
<1>1. ASSUME Aligned(s) PROVE Aligned(t)
  <2> SUFFICES ASSUME NEW k \in StreamIds, Active(t, k)
               PROVE  t.streams[k].local_window_size = t.local_initial_window
    BY DEF Aligned
  <2>1. Active(s, k)
    BY NoOthersActive
  <2> QED
    BY <1>1, <2>1 DEF SameSends, Aligned
<1>2. ASSUME NEW k \in Levels PROVE Granted(s, t, k, 0)
  <2>1. k = 0 \/ k \in StreamIds
    BY DEF Levels
  <2>2. Sendable(t, k) = Sendable(s, k)
    BY <2>1 DEF SameSends, Sendable
  <2>3. Sendable(s, k) \in Int
    BY LevelTypes
  <2>4. Idle(s, k) => Idle(t, k)
    BY DEF Lives, Idle
  <2> QED
    BY <2>2, <2>3, <2>4 DEF Granted
<1> QED
  BY <1>1, <1>2 DEF Settles, Nothing

\* A WINDOW_UPDATE is queued for what was held.
LEMMA UpdateQueued ==
    ASSUME NEW srv \in BOOLEAN, NEW s \in SessionType(srv), NEW j \in Levels, NEW n \in Nat,
           NEW k
    PROVE  /\ WindowUpdate(j, n) \in Updates
           /\ Credit(Append(s.ob_reg, WindowUpdate(j, n)), k)
                = Credit(s.ob_reg, k) + IF k = j THEN n ELSE 0
<1> DEFINE f == WindowUpdate(j, n)
<1>1. f \in Updates /\ f.type = "WINDOW_UPDATE" /\ f.id = j /\ f.increment = n
  BY DEF WindowUpdate, Updates, Levels
<1> HIDE DEF f
<1>2. s.ob_reg \in Seq(AllFrames) /\ f \in AllFrames
  BY <1>1, FieldTypes, QueueType, IsFrame
<1>3. /\ Credit(Append(s.ob_reg, f), k) = Credit(s.ob_reg, k) + Increments(k)[f]
      /\ Increments(k)[f] = IF j = k THEN n ELSE 0
  BY <1>1, <1>2, CreditAppend, FrameValue
<1> QED
  BY <1>1, <1>3 DEF f

LEMMA UpdateConnectionSettles ==
    ASSUME NEW srv \in BOOLEAN, NEW s \in SessionType(srv), NEW n \in Nat
    PROVE  LET t == update_recv_connection_window_size(s, n) IN
           t \in SessionType(srv) /\ Settles(s, t, {}, At(0, n), Nothing)
<1> DEFINE t == update_recv_connection_window_size(s, n)
           m == s.recv_window_size + n
           u == [s EXCEPT !.recv_window_size = m]
           f == WindowUpdate(0, m)
           w == [s EXCEPT !.ob_reg = Append(s.ob_reg, f), !.recv_window_size = 0,
                          !.window_update_queued = TRUE]
<1>1. t \in SessionType(srv) /\ Calm(s, t) /\ s.recv_window_size \in Nat /\ m \in Nat
  BY UpdateConnection, FieldTypes
<1>2. t \in {terminate_session(s), w, u}
  <2>1. w = [Enqueue(u, "ob_reg", f) EXCEPT !.window_update_queued = TRUE, !.recv_window_size = 0]
    BY DEF Enqueue, SessionType
  <2>2. f = WindowUpdate(0, u.recv_window_size)
    BY DEF SessionType
  <2> HIDE DEF w, f
  <2> QED
    BY <2>1, <2>2 DEF update_recv_connection_window_size
<1>6. ASSUME NEW k
      PROVE  Credit(Append(s.ob_reg, f), k) = Credit(s.ob_reg, k) + IF k = 0 THEN m ELSE 0
  <2>1. m \in Nat /\ 0 \in Levels
    BY <1>1 DEF Levels
  <2> HIDE DEF m
  <2> QED
    BY <2>1, UpdateQueued
<1> HIDE DEF f
<1>3. CASE t = terminate_session(s)
  <2>1. Keeps(s, t)
    BY <1>3, TerminateKeeps
  <2>2. "TERM_ON_SEND" \in t.goaway_flags
    BY <1>3, TerminateKeeps
  <2> HIDE DEF t
  <2>3. \A k \in Levels : Kept(s, t, k, At(0, n)[k])
    BY <2>2 DEF Kept, Lost
  <2> QED
    BY <1>1, <2>1, <2>3 DEF Keeps, Settles, t
<1>4. CASE t = u
  <2>1. /\ t.goaway_flags = s.goaway_flags /\ t.ob_reg = s.ob_reg /\ t.streams = s.streams
        /\ t.recv_window_size = m /\ SameSends(s, t)
    BY <1>4 DEF SessionType, SameSends
  <2> HIDE DEF t, u, w, m
  <2>2. Lives(s, t, {})
    BY <1>1, <2>1, CalmLives DEF FlagsStay
  <2>3. ASSUME NEW k \in Levels PROVE Kept(s, t, k, At(0, n)[k])
    <3>1. Held(t, k) = Held(s, k) + At(0, n)[k]
      <4>1. CASE k = 0
        BY <2>1, <4>1 DEF Held, At, m
      <4>2. CASE k # 0
        BY <2>1, <2>3, <4>2, LevelTypes DEF Held, At
      <4> QED
        BY <4>1, <4>2
    <3>2. Level(t, k) = Level(s, k) + At(0, n)[k]
      <4>1. At(0, n)[k] \in Int
        BY DEF At
      <4> QED
        BY <2>1, <2>3, <3>1, <4>1, LevelTypes DEF Level
    <3>3. Idle(s, k) => At(0, n)[k] = 0
      BY SizeAssumption DEF Idle, At, StreamIds
    <3> QED
      BY <2>3, <3>2, <3>3, LevelTypes DEF Kept
  <2> QED
    BY <1>1, <2>1, <2>2, <2>3, OnlyHeld DEF t
<1>5. CASE t = w
  <2>1. /\ t.goaway_flags = s.goaway_flags /\ t.ob_reg = Append(s.ob_reg, f)
        /\ t.streams = s.streams /\ t.recv_window_size = 0 /\ SameSends(s, t)
    BY <1>5 DEF SessionType, SameSends
  <2> HIDE DEF t, u, w
  <2>2. Lives(s, t, {})
    BY <1>1, <2>1, CalmLives DEF FlagsStay
  <2>3. ASSUME NEW k \in Levels PROVE Kept(s, t, k, At(0, n)[k])
    <3>1. Credit(t.ob_reg, k) = Credit(s.ob_reg, k) + IF k = 0 THEN m ELSE 0
      BY <1>6, <2>1
    <3>2. Held(t, k) = IF k = 0 THEN 0 ELSE Held(s, k)
      BY <2>1 DEF Held
    <3>3. Level(t, k) = Level(s, k) + At(0, n)[k]
      <4>1. CASE k = 0
        BY <1>1, <2>3, <3>1, <3>2, <4>1, LevelTypes DEF Level, At, Held
      <4>2. CASE k # 0
        BY <2>3, <3>1, <3>2, <4>2, LevelTypes DEF Level, At
      <4> QED
        BY <4>1, <4>2
    <3>4. Idle(s, k) => At(0, n)[k] = 0
      BY SizeAssumption DEF Idle, At, StreamIds
    <3> QED
      BY <2>3, <3>3, <3>4, LevelTypes DEF Kept
  <2> QED
    BY <1>1, <2>1, <2>2, <2>3, OnlyHeld DEF t
<1> QED
  BY <1>2, <1>3, <1>4, <1>5

LEMMA UpdateStreamSettles ==
    ASSUME NEW srv \in BOOLEAN, NEW s \in SessionType(srv), NEW id \in StreamIds,
           Active(s, id), NEW n \in Nat, NEW send \in BOOLEAN
    PROVE  LET t == update_recv_stream_window_size(s, id, n, send) IN
           t \in SessionType(srv) /\ Settles(s, t, {}, At(id, n), Nothing)
<1> DEFINE t == update_recv_stream_window_size(s, id, n, send)
           m == s.streams[id].recv_window_size + n
           a == [s.streams[id] EXCEPT !.recv_window_size = m]
           b == [s.streams[id] EXCEPT !.window_update_queued = TRUE, !.recv_window_size = 0]
           u == [s EXCEPT !.streams[id] = a]
           f == WindowUpdate(id, m)
           w == [s EXCEPT !.ob_reg = Append(s.ob_reg, f), !.streams[id] = b]
<1>1. /\ t \in SessionType(srv) /\ Calm(s, t) /\ s.streams[id].recv_window_size \in Nat
      /\ s.streams[id] \in StreamType /\ m \in Nat /\ id # 0 /\ id \in Levels
  <2>1. t \in SessionType(srv) /\ Calm(s, t)
    BY UpdateStream
  <2>2. s.streams[id].recv_window_size \in Nat /\ s.streams[id] \in StreamType
    BY StreamTypes
  <2>3. id # 0 /\ id \in Levels
    BY SizeAssumption DEF StreamIds, Levels
  <2> QED
    BY <2>1, <2>2, <2>3
<1>2. /\ a.recv_window_size = m /\ b.recv_window_size = 0
      /\ a.remote_window_size = s.streams[id].remote_window_size
      /\ b.remote_window_size = s.streams[id].remote_window_size
      /\ a.local_window_size = s.streams[id].local_window_size
      /\ b.local_window_size = s.streams[id].local_window_size
  BY <1>1 DEF StreamType
<1>3. t \in {add_rst_stream(s, id), w, u}
  <2> DEFINE v == [s EXCEPT !.streams[id].recv_window_size = @ + n]
  <2>1. u = v
    OBVIOUS
  <2>2. v.streams[id].recv_window_size = m
    BY <2>1, <1>2, FieldTypes DEF SessionType
  <2>3. w = [Enqueue(v, "ob_reg", f) EXCEPT !.streams[id].window_update_queued = TRUE,
                                            !.streams[id].recv_window_size = 0]
    <3>1. [Enqueue(v, "ob_reg", f) EXCEPT !.streams[id].window_update_queued = TRUE,
                                          !.streams[id].recv_window_size = 0]
            = [s EXCEPT !.ob_reg = Append(s.ob_reg, f),
                        !.streams[id] = [a EXCEPT !.window_update_queued = TRUE,
                                                  !.recv_window_size = 0]]
      <4>1. Enqueue(u, "ob_reg", f) = [s EXCEPT !.ob_reg = Append(s.ob_reg, f), !.streams[id] = a]
        BY FieldTypes, ZenonT(40) DEF Enqueue, SessionType
      <4> DEFINE z == [s EXCEPT !.ob_reg = Append(s.ob_reg, f), !.streams[id] = a]
                 c == [a EXCEPT !.window_update_queued = TRUE, !.recv_window_size = 0]
      <4> HIDE DEF a, f
      <4>2. z.streams[id] = a
        BY FieldTypes DEF SessionType
      <4>3. [z EXCEPT !.streams[id].window_update_queued = TRUE,
                      !.streams[id].recv_window_size = 0] = [z EXCEPT !.streams[id] = c]
        <5> HIDE DEF z
        <5> QED
          BY <4>2, ZenonT(40)
      <4>4. [z EXCEPT !.streams[id] = c]
              = [s EXCEPT !.ob_reg = Append(s.ob_reg, f), !.streams[id] = c]
        <5> HIDE DEF c
        <5> QED
          BY FieldTypes, ZenonT(40) DEF SessionType
      <4> HIDE DEF z, u, v
      <4> QED
        BY <2>1, <4>1, <4>3, <4>4 DEF z
    <3>2. [a EXCEPT !.window_update_queued = TRUE, !.recv_window_size = 0] = b
      BY <1>1 DEF StreamType
    <3> QED
      BY <3>1, <3>2
  <2>4. t \in {add_rst_stream(s, id), u,
               [Enqueue(v, "ob_reg", WindowUpdate(id, v.streams[id].recv_window_size))
                  EXCEPT !.streams[id].window_update_queued = TRUE,
                         !.streams[id].recv_window_size = 0]}
    BY <2>1 DEF update_recv_stream_window_size
  <2> QED
    BY <2>2, <2>3, <2>4
<1>7. ASSUME NEW k
      PROVE  Credit(Append(s.ob_reg, f), k) = Credit(s.ob_reg, k) + IF k = id THEN m ELSE 0
  <2>1. m \in Nat /\ id \in Levels
    BY <1>1
  <2> HIDE DEF m
  <2> QED
    BY <2>1, UpdateQueued
<1> HIDE DEF a, b, f
<1>4. CASE t = add_rst_stream(s, id)
  <2>1. Keeps(s, t)
    BY <1>4, AddRstKeeps
  <2>2. t.streams[id].state = "CLOSING"
    <3>1. add_rst_stream(s, id).streams[id].state = "CLOSING"
      BY <1>1, FieldTypes DEF add_rst_stream, Enqueue, SessionType, StreamType
    <3> QED
      BY <1>4, <3>1
  <2> HIDE DEF t
  <2>3. ASSUME NEW k \in Levels PROVE Kept(s, t, k, At(id, n)[k])
    <3>1. CASE k = id
      BY <2>2, <3>1 DEF Kept, Lost
    <3>2. CASE k # id
      BY <2>1, <2>3, <3>2 DEF Keeps, Settles, Nothing, At
    <3> QED
      BY <3>1, <3>2
  <2> QED
    BY <1>1, <2>1, <2>3 DEF Keeps, Settles, t
<1>5. CASE t = u
  <2>1. /\ t.goaway_flags = s.goaway_flags /\ t.ob_reg = s.ob_reg
        /\ t.recv_window_size = s.recv_window_size
        /\ t.remote_window_size = s.remote_window_size
        /\ t.remote_initial_window = s.remote_initial_window
        /\ t.local_initial_window = s.local_initial_window
        /\ t.streams = [s.streams EXCEPT ![id] = a]
    BY <1>5 DEF SessionType
  <2> HIDE DEF t, u, w, m
  <2>2. \A k \in StreamIds : t.streams[k] = IF k = id THEN a ELSE s.streams[k]
    BY <2>1, FieldTypes
  <2>3. SameSends(s, t)
    BY <1>2, <2>1, <2>2 DEF SameSends
  <2>4. Lives(s, t, {})
    BY <1>1, <2>1, CalmLives DEF FlagsStay
  <2>5. ASSUME NEW k \in Levels PROVE Kept(s, t, k, At(id, n)[k])
    <3>1. Held(t, k) = Held(s, k) + At(id, n)[k]
      <4>1. CASE k = id
        BY <1>1, <1>2, <2>2, <4>1 DEF Held, At, m
      <4>2. CASE k # id
        <5>1. Held(t, k) = Held(s, k) /\ At(id, n)[k] = 0 /\ Held(s, k) \in Nat
          BY <2>1, <2>2, <2>5, <4>2, LevelTypes DEF Held, At, Levels
        <5> QED
          BY <5>1
      <4> QED
        BY <4>1, <4>2
    <3>2. Level(t, k) = Level(s, k) + At(id, n)[k]
      <4>1. At(id, n)[k] \in Int
        BY DEF At
      <4> QED
        BY <2>1, <2>5, <3>1, <4>1, LevelTypes DEF Level
    <3>3. Idle(s, k) => At(id, n)[k] = 0
      BY DEF Idle, At, Active
    <3> QED
      BY <2>5, <3>2, <3>3, LevelTypes DEF Kept
  <2> QED
    BY <1>1, <2>3, <2>4, <2>5, OnlyHeld DEF t
<1>6. CASE t = w
  <2>1. /\ t.goaway_flags = s.goaway_flags /\ t.ob_reg = Append(s.ob_reg, f)
        /\ t.recv_window_size = s.recv_window_size
        /\ t.remote_window_size = s.remote_window_size
        /\ t.remote_initial_window = s.remote_initial_window
        /\ t.local_initial_window = s.local_initial_window
        /\ t.streams = [s.streams EXCEPT ![id] = b]
    BY <1>6 DEF SessionType
  <2> HIDE DEF t, u, w
  <2>2. \A k \in StreamIds : t.streams[k] = IF k = id THEN b ELSE s.streams[k]
    BY <2>1, FieldTypes
  <2>3. SameSends(s, t)
    BY <1>2, <2>1, <2>2 DEF SameSends
  <2>4. Lives(s, t, {})
    BY <1>1, <2>1, CalmLives DEF FlagsStay
  <2>5. ASSUME NEW k \in Levels PROVE Kept(s, t, k, At(id, n)[k])
    <3>1. Credit(t.ob_reg, k) = Credit(s.ob_reg, k) + IF k = id THEN m ELSE 0
      BY <1>7, <2>1
    <3>2. Held(t, k) = IF k = id THEN 0 ELSE Held(s, k)
      BY <1>1, <1>2, <2>1, <2>2, <2>5 DEF Held, Levels
    <3>3. Level(t, k) = Level(s, k) + At(id, n)[k]
      <4>1. CASE k = id
        <5>1. /\ Credit(t.ob_reg, k) = Credit(s.ob_reg, k) + m /\ Held(t, k) = 0
              /\ At(id, n)[k] = n /\ Held(s, k) = s.streams[id].recv_window_size
              /\ Credit(s.ob_reg, k) \in Nat
          BY <1>1, <2>5, <3>1, <3>2, <4>1, LevelTypes DEF At, Held
        <5> QED
          BY <1>1, <5>1 DEF Level, m
      <4>2. CASE k # id
        BY <2>5, <3>1, <3>2, <4>2, LevelTypes DEF Level, At
      <4> QED
        BY <4>1, <4>2
    <3>4. Idle(s, k) => At(id, n)[k] = 0
      BY DEF Idle, At, Active
    <3> QED
      BY <2>5, <3>3, <3>4, LevelTypes DEF Kept
  <2> QED
    BY <1>1, <2>3, <2>4, <2>5, OnlyHeld DEF t
<1> QED
  BY <1>3, <1>4, <1>5, <1>6

-----------------------------------------------------------------------------
(***************************************************************************)
(* One step after another.                                                 *)
(***************************************************************************)
LEMMA LivesAfter ==
    ASSUME NEW s, NEW t, NEW u, NEW X, Lives(s, t, {}), Lives(t, u, X),
           s.last_recv_stream_id \in Nat, t.last_recv_stream_id \in Nat,
           u.last_recv_stream_id \in Nat
    PROVE  Lives(s, u, X)
BY DEF Lives

LEMMA SettlesTwice ==
    ASSUME NEW srv \in BOOLEAN, NEW s \in SessionType(srv), NEW t \in SessionType(srv),
           NEW u \in SessionType(srv), NEW X, NEW f, NEW g, NEW b, NEW d, NEW h, NEW c,
           Settles(s, t, {}, f, b), Settles(t, u, X, g, d),
           \A k \in Levels : /\ f[k] \in Int /\ g[k] \in Int /\ h[k] = f[k] + g[k]
                             /\ b[k] \in Int /\ d[k] \in Int /\ c[k] = b[k] + d[k]
    PROVE  Settles(s, u, X, h, c)
<1>1. Lives(s, t, {}) /\ Lives(t, u, X)
  BY DEF Settles
<1>2. Lives(s, u, X)
  BY <1>1, LivesAfter, FieldTypes
<1>3. Aligned(s) => Aligned(u)
  BY DEF Settles
<1>4. ASSUME NEW k \in Levels
      PROVE  Kept(s, u, k, h[k]) /\ Granted(s, u, k, c[k])
  <2>1. /\ Kept(s, t, k, f[k]) /\ Granted(s, t, k, b[k])
        /\ Kept(t, u, k, g[k]) /\ Granted(t, u, k, d[k])
    BY DEF Settles
  <2>2. /\ Idle(t, k) <=> Idle(s, k)
        /\ Lost(t, k) => Lost(u, k)
        /\ Shut(t, k) => Shut(u, k)
    BY <1>1 DEF Lives, Idle, Lost, Shut
  <2>3. /\ Level(s, k) \in Nat /\ Level(t, k) \in Nat /\ Level(u, k) \in Nat
        /\ Sendable(s, k) \in Int /\ Sendable(t, k) \in Int /\ Sendable(u, k) \in Int
    BY LevelTypes
  <2>4. Kept(s, u, k, h[k])
    BY <2>1, <2>2, <2>3 DEF Kept
  <2>5. Granted(s, u, k, c[k])
    BY <2>1, <2>2, <2>3 DEF Granted
  <2> QED
    BY <2>4, <2>5
<1> QED
  BY <1>2, <1>3, <1>4 DEF Settles

\* The first step adds nothing.
LEMMA ThenSettles ==
    ASSUME NEW srv \in BOOLEAN, NEW s \in SessionType(srv), NEW t \in SessionType(srv),
           NEW u \in SessionType(srv), NEW X, NEW g, NEW d,
           Keeps(s, t), Settles(t, u, X, g, d), \A k \in Levels : g[k] \in Int /\ d[k] \in Int
    PROVE  Settles(s, u, X, g, d)
<1>1. \A k \in Levels : /\ Nothing[k] \in Int /\ g[k] \in Int /\ g[k] = Nothing[k] + g[k]
                        /\ Nothing[k] \in Int /\ d[k] \in Int /\ d[k] = Nothing[k] + d[k]
  BY DEF Nothing
<1>2. Settles(s, t, {}, Nothing, Nothing)
  BY DEF Keeps
<1> QED
  BY ONLY <1>1, <1>2, SettlesTwice, srv \in BOOLEAN, s \in SessionType(srv),
          t \in SessionType(srv), u \in SessionType(srv), Settles(t, u, X, g, d)

-----------------------------------------------------------------------------
(***************************************************************************)
(* Frames about windows and settings.                                      *)
(***************************************************************************)
LEMMA WindowUpdateSentKeeps ==
    ASSUME NEW srv \in BOOLEAN, NEW s \in SessionType(srv), NEW f \in Updates
    PROVE  window_update_sent(s, f) \in SessionType(srv) /\ Keeps(s, window_update_sent(s, f))
<1>0. f.id \in StreamIds \cup {0}
  BY DEF Updates
<1>1. CASE f.id = 0
  <2> DEFINE u == [s EXCEPT !.window_update_queued = FALSE]
  <2>1. u \in SessionType(srv)
    BY DEF SessionType
  <2>2. u.ob_reg = s.ob_reg /\ u.streams = s.streams /\ Fixed(s, u)
        /\ u.num_outgoing_streams = s.num_outgoing_streams
        /\ u.num_incoming_streams = s.num_incoming_streams
        /\ u.num_incoming_reserved_streams = s.num_incoming_reserved_streams
        /\ u.goaway_flags = s.goaway_flags
        /\ u.recv_window_size = s.recv_window_size
        /\ u.remote_window_size = s.remote_window_size
        /\ u.remote_initial_window = s.remote_initial_window
        /\ u.local_initial_window = s.local_initial_window
    BY DEF SessionType, Fixed
  <2>3. window_update_sent(s, f) = update_recv_connection_window_size(u, 0)
    BY <1>1 DEF window_update_sent
  <2> HIDE DEF u
  <2>4. Keeps(s, u)
    BY <2>1, <2>2, QueuesSelf, CalmOthers, SameFields
  <2> DEFINE t == update_recv_connection_window_size(u, 0)
  <2>5. t \in SessionType(srv) /\ Settles(u, t, {}, At(0, 0), Nothing)
    BY <2>1, UpdateConnectionSettles
  <2> HIDE DEF t
  <2>6. Keeps(u, t)
    BY <2>5, AtZero DEF Keeps
  <2>7. Keeps(s, t)
    BY <2>1, <2>4, <2>5, <2>6, KeepsTwice
  <2> QED
    BY <2>3, <2>5, <2>7 DEF t
<1>2. CASE f.id # 0 /\ ~Active(s, f.id)
  BY <1>2, KeepsSelf DEF window_update_sent
<1>3. CASE f.id # 0 /\ Active(s, f.id)
  <2> DEFINE id == f.id
             a == [s.streams[id] EXCEPT !.window_update_queued = FALSE]
             u == [s EXCEPT !.streams[id] = a]
             t == update_recv_stream_window_size(u, id, 0, TRUE)
  <2>1. id \in StreamIds
    BY <1>0, <1>3
  <2>2. /\ a \in StreamType /\ SameStreamWindows(s.streams[id], a)
        /\ SameLife(s.streams[id], a)
    <3>1. s.streams[id] \in StreamType
      BY <2>1, StreamTypes
    <3> QED
      BY <3>1 DEF StreamType, SameStreamWindows, SameLife
  <2>3. window_update_sent(s, f) \in {u, t}
    BY <1>3 DEF window_update_sent
  <2> HIDE DEF a
  <2>4. u \in SessionType(srv) /\ Calm(s, u)
    BY <2>1, <2>2, StreamChanged DEF SameLife
  <2>5. Keeps(s, u)
    BY <2>1, <2>2, <2>4, StreamKeeps
  <2>6. Active(u, id)
    <3>1. u.streams[id] = a
      BY <2>1, FieldTypes DEF SessionType
    <3> QED
      BY <1>3, <2>2, <3>1 DEF Active, SameLife
  <2> HIDE DEF u
  <2>7. t \in SessionType(srv) /\ Settles(u, t, {}, At(id, 0), Nothing)
    BY <2>1, <2>4, <2>6, UpdateStreamSettles
  <2> HIDE DEF t
  <2>8. Keeps(u, t)
    BY <2>7, AtZero DEF Keeps
  <2>9. Keeps(s, t)
    BY <2>4, <2>5, <2>7, <2>8, KeepsTwice
  <2> QED
    BY <2>3, <2>4, <2>5, <2>7, <2>9
<1> QED
  BY <1>0, <1>1, <1>2, <1>3

\* What a frame gives and takes, at each level.
Gives(f) == [k \in Levels |-> Increments(k)[f]]
Takes(f) == [k \in Levels |-> Lengths(k)[f]]
Minus(g) == [k \in Levels |-> -g[k]]

LEMMA GivesNat ==
    ASSUME NEW f \in AllFrames
    PROVE  /\ \A k \in Levels : Gives(f)[k] \in Nat /\ Takes(f)[k] \in Nat
           /\ \A k \in Levels : Minus(Gives(f))[k] \in Int /\ Minus(Takes(f))[k] \in Int
           /\ f.type # "WINDOW_UPDATE" => Gives(f) = Nothing /\ Minus(Gives(f)) = Nothing
           /\ f.type # "DATA" => Takes(f) = Nothing /\ Minus(Takes(f)) = Nothing
<1>1. \A k \in Levels : Gives(f)[k] \in Nat /\ Takes(f)[k] \in Nat
  BY ValuesNat DEF Gives, Takes
<1>2. \A k \in Levels : Minus(Gives(f))[k] \in Int /\ Minus(Takes(f))[k] \in Int
  <2> DEFINE g == Gives(f)
             h == Takes(f)
  <2> HIDE DEF g, h
  <2>1. \A k \in Levels : g[k] \in Nat /\ h[k] \in Nat
    BY <1>1 DEF g, h
  <2> QED
    BY <2>1 DEF Minus, g, h
<1>3. ASSUME f.type # "WINDOW_UPDATE" PROVE Gives(f) = Nothing
  BY <1>3, FrameValue DEF Gives, Nothing
<1>4. ASSUME f.type # "DATA" PROVE Takes(f) = Nothing
  BY <1>4, FrameValue DEF Takes, Nothing
<1>5. Minus(Nothing) = Nothing
  <2>1. \A k \in Levels : Nothing[k] = 0
    BY DEF Nothing
  <2>2. \A k \in Levels : -Nothing[k] = 0
    BY <2>1
  <2> QED
    BY <2>2 DEF Minus, Nothing
<1> QED
  BY <1>1, <1>2, <1>3, <1>4, <1>5

\* A window grows.  An update the session does not expect says nothing of it,
\* unless it is for a stream of one's own that has not been announced.
UpdateExpected(srv, s, f) ==
    f.id # 0 => /\ s.streams[f.id].state = "RESERVED" => Mine(srv, f.id)
                /\ \/ f.increment = 0
                   \/ ~Mine(srv, f.id)
                   \/ f.id <= s.last_sent_stream_id

LEMMA UpdateReceivedSettles ==
    ASSUME NEW srv \in BOOLEAN, NEW s, SessionInv(srv, s), NEW f \in Updates,
           UpdateExpected(srv, s, f)
    PROVE  Settles(s, on_window_update_received(s, f), {}, Nothing, Gives(f))
<1> DEFINE r == on_window_update_received(s, f)
<1>0. /\ s \in SessionType(srv) /\ PushOK(srv, s) /\ Fresh(srv, s)
      /\ f.increment \in Nat /\ f.id \in Levels /\ f \in AllFrames
      /\ f.type = "WINDOW_UPDATE"
  BY IsFrame DEF SessionInv, Sound, Updates, Levels
<1>1. \A k \in Levels : Gives(f)[k] = IF f.id = k THEN f.increment ELSE 0
  BY <1>0, FrameValue DEF Gives
<1>2. r \in SessionType(srv) /\ Calm(s, r)
  BY <1>0, WindowUpdateReceived
<1>3. CASE f.id = 0
  <2>1. r = [s EXCEPT !.remote_window_size = @ + f.increment]
    BY <1>3 DEF on_window_update_received
  <2>2. /\ r.ob_reg = s.ob_reg /\ r.streams = s.streams
        /\ r.goaway_flags = s.goaway_flags
        /\ r.recv_window_size = s.recv_window_size
        /\ r.remote_window_size = s.remote_window_size + f.increment
        /\ r.remote_initial_window = s.remote_initial_window
        /\ r.local_initial_window = s.local_initial_window
    BY <1>0, <2>1 DEF SessionType
  <2> HIDE DEF r
  <2>3. Lives(s, r, {})
    BY <1>0, <1>2, <2>2, CalmLives DEF FlagsStay
  <2>4. Aligned(s) => Aligned(r)
    BY <2>2 DEF Aligned, Active
  <2>5. ASSUME NEW k \in Levels
        PROVE  Kept(s, r, k, 0) /\ Granted(s, r, k, Gives(f)[k])
    <3>1. Level(r, k) = Level(s, k) /\ Level(s, k) \in Nat
      BY <1>0, <2>2, LevelTypes DEF Level, Held
    <3>2. CASE k = 0
      <4>1. s.remote_window_size \in Int /\ InitialWindow \in Int
        BY <1>0, FieldTypes, SizeAssumption
      <4>2. Sendable(r, k) = Sendable(s, k) + f.increment
        BY <1>0, <2>2, <3>2, <4>1 DEF Sendable
      <4>3. ~Idle(s, k)
        BY <3>2, SizeAssumption DEF Idle, StreamIds
      <4> QED
        BY <1>1, <1>3, <3>1, <3>2, <4>2, <4>3 DEF Kept, Granted
    <3>3. CASE k # 0
      <4>1. Sendable(r, k) = Sendable(s, k) /\ Sendable(s, k) \in Int
        BY <1>0, <2>2, <3>3, LevelTypes DEF Sendable
      <4>2. Idle(s, k) => Idle(r, k)
        BY <2>2 DEF Idle
      <4>3. Gives(f)[k] = 0
        BY <1>1, <1>3, <3>3
      <4> QED
        BY <3>1, <4>1, <4>2, <4>3 DEF Kept, Granted
    <3> QED
      BY <3>2, <3>3
  <2> QED
    BY <2>3, <2>4, <2>5 DEF Settles, Nothing, r
<1>4. CASE f.id # 0
  <2>0. /\ s.streams[f.id].state = "RESERVED" => Mine(srv, f.id)
        /\ f.increment = 0 \/ ~Mine(srv, f.id) \/ f.id <= s.last_sent_stream_id
    BY <1>4 DEF UpdateExpected
  <2> DEFINE id == f.id
             n == s.streams[id].remote_window_size + f.increment
             d == s.streams[id].deferred /\ n <= 0
             a == [s.streams[id] EXCEPT !.remote_window_size = n, !.deferred = d]
             u == [s EXCEPT !.streams[id] = a]
  <2>1. id \in StreamIds
    BY <1>0, <1>4 DEF Levels
  <2>2. s.streams[id] \in StreamType /\ n \in Int /\ d \in BOOLEAN
    <3>1. /\ s.streams[id] \in StreamType /\ s.streams[id].remote_window_size \in Int
          /\ s.streams[id].deferred \in BOOLEAN
      BY <1>0, <2>1, StreamTypes
    <3> QED
      BY <1>0, <3>1
  <2>3. ~(s.streams[id].state = "RESERVED" /\ ~is_my_stream_id(s, id))
    <3>1. id \in Nat
      BY <2>1, SizeAssumption DEF StreamIds
    <3> QED
      BY <1>0, <2>0, <2>1, <3>1, MineIs
  <2>4. CASE r = s \/ r = terminate_session(s)
    <3>1. Keeps(s, r)
      BY <1>0, <2>4, KeepsSelf, TerminateKeeps
    <3>2. ~Active(s, id) \/ f.increment = 0
      <4>1. ~Active(s, id) \/ detect_idle_stream(s, id) \/ r = u
        <5>1. u = [s EXCEPT !.streams[id].remote_window_size = @ + f.increment,
                            !.streams[id].deferred = @ /\ n <= 0]
          BY <1>0, <2>1, FieldTypes, ZenonT(40) DEF SessionType
        <5> QED
          BY <1>4, <2>3, <5>1 DEF on_window_update_received
      <4>2. CASE r = u
        <5>1. f.increment = 0
          <6>1. r.streams[id].remote_window_size = n
            <7>1. a.remote_window_size = n
              BY <2>2 DEF StreamType
            <7>2. u.streams[id] = a
              <8> HIDE DEF a
              <8> QED
                BY <1>0, <2>1, FieldTypes DEF SessionType
            <7> QED
              BY <4>2, <7>1, <7>2
          <6>2. r.streams = s.streams
            BY <1>0, <2>4 DEF terminate_session, add_goaway, Enqueue, SessionType
          <6> QED
            BY <1>0, <2>2, <6>1, <6>2 DEF StreamType
        <5> QED
          BY <5>1
      <4>3. CASE detect_idle_stream(s, id)
        <5>1. id \in Nat /\ s.last_recv_stream_id \in Nat /\ s.last_sent_stream_id \in Nat
          BY <1>0, <2>1, SizeAssumption, FieldTypes DEF StreamIds
        <5>2. CASE Mine(srv, id)
          BY <1>0, <2>0, <4>3, <5>1, <5>2, MineIs DEF detect_idle_stream
        <5>3. CASE ~Mine(srv, id)
          <6>1. s.last_recv_stream_id < id
            BY <1>0, <4>3, <5>1, <5>3, MineIs DEF detect_idle_stream
          <6> QED
            BY <1>0, <2>1, <5>3, <6>1 DEF Fresh, Active
        <5> QED
          BY <5>2, <5>3
      <4> QED
        BY <4>1, <4>2, <4>3
    <3> HIDE DEF r, u
    <3>3. ASSUME NEW k \in Levels PROVE Granted(s, r, k, Gives(f)[k])
      <4>1. Granted(s, r, k, 0)
        BY <3>1 DEF Keeps, Settles, Nothing
      <4>2. CASE k # id \/ f.increment = 0
        BY <1>1, <4>1, <4>2
      <4>3. CASE k = id /\ ~Active(s, id)
        <5>1. CASE Idle(s, id)
          BY <4>1, <4>3, <5>1 DEF Granted, Shut, Idle
        <5>2. CASE ~Idle(s, id)
          <6>1. s.streams[id].state = "CLOSED"
            BY <2>1, <4>3, <5>2 DEF Active, Idle
          <6>2. Shut(r, id)
            BY <2>1, <3>1, <6>1 DEF Keeps, Settles, Lives, Shut
          <6> QED
            BY <4>3, <6>2 DEF Granted
        <5> QED
          BY <5>1, <5>2
      <4> QED
        BY <3>2, <4>2, <4>3
    <3> QED
      BY <3>1, <3>3 DEF Keeps, Settles, r
  <2>5. CASE r = u
    <3>1. /\ r.ob_reg = s.ob_reg /\ r.goaway_flags = s.goaway_flags
          /\ r.recv_window_size = s.recv_window_size
          /\ r.remote_window_size = s.remote_window_size
          /\ r.remote_initial_window = s.remote_initial_window
          /\ r.local_initial_window = s.local_initial_window
          /\ r.streams = [s.streams EXCEPT ![id] = a]
      BY <1>0, <2>5 DEF SessionType
    <3>2. /\ a.recv_window_size = s.streams[id].recv_window_size
          /\ a.local_window_size = s.streams[id].local_window_size
          /\ a.remote_window_size = n /\ a.state = s.streams[id].state
      BY <2>2 DEF StreamType
    <3> HIDE DEF r, u, a
    <3>3. \A k \in StreamIds : r.streams[k] = IF k = id THEN a ELSE s.streams[k]
      BY <1>0, <3>1, FieldTypes
    <3>4. Lives(s, r, {})
      BY <1>0, <1>2, <3>1, CalmLives DEF FlagsStay
    <3>5. Aligned(s) => Aligned(r)
      BY <3>1, <3>2, <3>3 DEF Aligned, Active
    <3>6. ASSUME NEW k \in Levels
          PROVE  Kept(s, r, k, 0) /\ Granted(s, r, k, Gives(f)[k])
      <4>1. Held(r, k) = Held(s, k)
        BY <3>1, <3>2, <3>3 DEF Held, Levels
      <4>2. Level(r, k) = Level(s, k) /\ Level(s, k) \in Nat
        BY <1>0, <3>1, <4>1, LevelTypes DEF Level
      <4>3. Idle(s, k) <=> Idle(r, k)
        BY <3>2, <3>3 DEF Idle
      <4>4. Sendable(r, k) = Sendable(s, k) + Gives(f)[k]
        <5>1. CASE k = id
          <6>1. s.remote_initial_window \in Int /\ s.streams[id].remote_window_size \in Int
            BY <1>0, <2>1, FieldTypes, StreamTypes
          <6>2. r.streams[id].remote_window_size = n
            BY <2>1, <3>2, <3>3
          <6>3. Gives(f)[k] = f.increment
            BY <1>1, <5>1
          <6> QED
            BY <1>0, <1>4, <3>1, <5>1, <6>1, <6>2, <6>3 DEF Sendable
        <5>2. CASE k # id
          <6>1. Sendable(r, k) = Sendable(s, k) /\ Sendable(s, k) \in Int
            BY <1>0, <3>1, <3>3, <5>2, LevelTypes DEF Sendable, Levels
          <6> QED
            BY <1>1, <5>2, <6>1
        <5> QED
          BY <5>1, <5>2
      <4> QED
        BY <4>2, <4>3, <4>4 DEF Kept, Granted
    <3> QED
      BY <3>4, <3>5, <3>6 DEF Settles, Nothing, r
  <2>6. r \in {s, terminate_session(s), u}
    <3>1. u = [s EXCEPT !.streams[id].remote_window_size = @ + f.increment,
                        !.streams[id].deferred = @ /\ n <= 0]
      BY <1>0, <2>1, FieldTypes, ZenonT(40) DEF SessionType
    <3> QED
      BY <1>4, <3>1 DEF on_window_update_received
  <2> QED
    BY <2>4, <2>5, <2>6
<1> QED
  BY <1>3, <1>4

\* The initial window of the peer changes, and so do the windows of the streams
\* it has opened: what they have been granted stays the same.
LEMMA SettingsReceivedKeeps ==
    ASSUME NEW srv \in BOOLEAN, NEW s \in SessionType(srv), NEW f \in SettingsFrames
    PROVE  Keeps(s, on_settings_received(s, f))
<1> DEFINE change == IF f.window = Unchanged THEN 0 ELSE f.window - s.remote_initial_window
           moved(stream) == [stream EXCEPT !.remote_window_size = @ + change,
                                           !.deferred = @ /\ stream.remote_window_size + change <= 0]
           S == [id \in StreamIds |-> IF Active(s, id) THEN moved(s.streams[id]) ELSE s.streams[id]]
           w == s.remote_initial_window + change
           m == IF f.max = Unchanged THEN s.remote_max ELSE f.max
           t == [s EXCEPT !.streams = S, !.remote_initial_window = w, !.remote_max = m]
           r == on_settings_received(s, f)
<1>1. r \in SessionType(srv) /\ Calm(s, r)
  BY SettingsReceived
<1>2. r \in {t, Enqueue(t, "ob_urgent", SettingsAck)}
  BY DEF on_settings_received, SessionType
<1>3. change \in Int
  BY FieldTypes DEF Unchanged, SettingsFrames
<1> HIDE DEF change
<1>4. \A k \in StreamIds :
        /\ S[k].state = s.streams[k].state
        /\ S[k].recv_window_size = s.streams[k].recv_window_size
        /\ S[k].local_window_size = s.streams[k].local_window_size
        /\ S[k].remote_window_size
             = IF Active(s, k) THEN s.streams[k].remote_window_size + change
               ELSE s.streams[k].remote_window_size
  <2> TAKE k \in StreamIds
  <2>1. s.streams[k] \in StreamType
    BY StreamTypes
  <2>2. S[k] = IF Active(s, k) THEN moved(s.streams[k]) ELSE s.streams[k]
    OBVIOUS
  <2> HIDE DEF S
  <2> QED
    BY <2>1, <2>2 DEF StreamType
<1> HIDE DEF S, w, m
<1>5. /\ r.ob_reg = s.ob_reg /\ r.goaway_flags = s.goaway_flags
      /\ r.recv_window_size = s.recv_window_size
      /\ r.remote_window_size = s.remote_window_size
      /\ r.remote_initial_window = w
      /\ r.local_initial_window = s.local_initial_window
      /\ r.streams = S
  <2>1. /\ t.ob_reg = s.ob_reg /\ t.goaway_flags = s.goaway_flags
        /\ t.recv_window_size = s.recv_window_size
        /\ t.remote_window_size = s.remote_window_size
        /\ t.remote_initial_window = w
        /\ t.local_initial_window = s.local_initial_window
        /\ t.streams = S
    BY DEF SessionType
  <2> HIDE DEF t
  <2>2. /\ Enqueue(t, "ob_urgent", SettingsAck).ob_reg = t.ob_reg
        /\ Enqueue(t, "ob_urgent", SettingsAck).goaway_flags = t.goaway_flags
        /\ Enqueue(t, "ob_urgent", SettingsAck).recv_window_size = t.recv_window_size
        /\ Enqueue(t, "ob_urgent", SettingsAck).remote_window_size = t.remote_window_size
        /\ Enqueue(t, "ob_urgent", SettingsAck).remote_initial_window = t.remote_initial_window
        /\ Enqueue(t, "ob_urgent", SettingsAck).local_initial_window = t.local_initial_window
        /\ Enqueue(t, "ob_urgent", SettingsAck).streams = t.streams
    BY DEF Enqueue
  <2> QED
    BY <1>2, <2>1, <2>2
<1> HIDE DEF r, t
<1>6. Lives(s, r, {})
  BY <1>1, <1>5, CalmLives DEF FlagsStay
<1>7. Aligned(s) => Aligned(r)
  BY <1>4, <1>5 DEF Aligned, Active
<1>8. ASSUME NEW k \in Levels PROVE Kept(s, r, k, 0) /\ Granted(s, r, k, 0)
  <2>1. Held(r, k) = Held(s, k)
    BY <1>4, <1>5 DEF Held, Levels
  <2>2. Level(r, k) = Level(s, k) /\ Level(s, k) \in Nat
    BY <1>5, <2>1, LevelTypes DEF Level
  <2>3. Idle(s, k) <=> Idle(r, k)
    BY <1>4, <1>5 DEF Idle
  <2>4. CASE k = 0 \/ Active(s, k)
    <3>1. Sendable(r, k) = Sendable(s, k)
      <4>1. CASE k = 0
        BY <1>5, <4>1 DEF Sendable
      <4>2. CASE k # 0
        <5>1. k \in StreamIds
          BY <4>2 DEF Levels
        <5>2. s.streams[k].remote_window_size \in Int /\ s.remote_initial_window \in Int
          BY <5>1, StreamTypes, FieldTypes
        <5>3. Sendable(s, k) = s.streams[k].remote_window_size - s.remote_initial_window
          BY <4>2 DEF Sendable
        <5>4. Sendable(r, k) = (s.streams[k].remote_window_size + change)
                                 - (s.remote_initial_window + change)
          BY <1>4, <1>5, <2>4, <4>2, <5>1 DEF Sendable, w
        <5> QED
          BY <1>3, <5>2, <5>3, <5>4
      <4> QED
        BY <4>1, <4>2
    <3>2. Sendable(s, k) \in Int
      BY LevelTypes
    <3> QED
      BY <2>2, <2>3, <3>1, <3>2 DEF Kept, Granted
  <2>5. CASE k # 0 /\ ~Active(s, k)
    <3>1. k \in StreamIds /\ (s.streams[k].state = "IDLE" \/ s.streams[k].state = "CLOSED")
      BY <2>5 DEF Levels, Active
    <3>2. Idle(s, k) \/ Shut(r, k)
      BY <1>4, <1>5, <3>1 DEF Idle, Shut
    <3> QED
      BY <2>2, <2>3, <3>2 DEF Kept, Granted
  <2> QED
    BY <2>4, <2>5
<1> QED
  BY <1>6, <1>7, <1>8 DEF Keeps, Settles, Nothing, r

\* A sum with at most one number other than 0.
LEMMA SumOnce ==
    ASSUME NEW q \in Seq(Int), NEW n \in Nat \ {0}, \A i \in 1 .. Len(q) : i # n => q[i] = 0
    PROVE  SumOf(q) = IF n <= Len(q) THEN q[n] ELSE 0
<1>1. PICK p : SumsUpTo(p, q) /\ SumOf(q) = p[Len(q)]
  BY SumSteps
<1>2. Len(q) \in Nat /\ \A i \in 1 .. Len(q) : q[i] \in Int
  BY LenProperties, ElementOfSeq
<1> DEFINE T == {k \in 0 .. Len(q) : p[k] = IF n <= k THEN q[n] ELSE 0}
<1>3. 0 \in T
  BY <1>1, <1>2 DEF SumsUpTo
<1>4. ASSUME NEW k \in 0 .. Len(q) - 1, k \in T PROVE k + 1 \in T
  <2>1. k + 1 \in 1 .. Len(q) /\ (k + 1) - 1 = k /\ k \in Int
    BY <1>2
  <2>2. p[k + 1] = p[k] + q[k + 1]
    BY <1>1, <2>1 DEF SumsUpTo
  <2>3. p[k] = IF n <= k THEN q[n] ELSE 0
    BY <1>4
  <2>4. q[k + 1] = IF k + 1 = n THEN q[n] ELSE 0
    BY <2>1
  <2>5. n <= Len(q) => q[n] \in Int
    BY <1>2
  <2>6. p[k + 1] = IF n <= k + 1 THEN q[n] ELSE 0
    BY <1>2, <2>1, <2>2, <2>3, <2>4, <2>5
  <2> QED
    BY <2>1, <2>6
<1>5. 0 .. Len(q) \subseteq T
  <2> HIDE DEF T
  <2> QED
    BY <1>2, <1>3, <1>4, Induction
<1>6. Len(q) \in T
  BY <1>2, <1>5
<1> QED
  BY <1>1, <1>6

\* Ascending lists every id, and lists it once.
LEMMA AscendingOnce ==
    ASSUME NEW ids \in SUBSET StreamIds, NEW k \in ids
    PROVE  \E n \in 1 .. Len(Ascending(ids)) :
              /\ Ascending(ids)[n] = k
              /\ \A i \in 1 .. Len(Ascending(ids)) : i # n => Ascending(ids)[i] # k
<1> DEFINE q == Ascending(ids)
           m == Cardinality(ids)
<1>1. IsFiniteSet(ids) /\ m \in Nat
  BY IdsFinite, FS_Subset, FS_CardinalityType
<1>2. /\ q \in Seq(ids) /\ Len(q) = m
      /\ \A i, j \in 1 .. Len(q) : i < j => q[i] < q[j]
  BY AscendingType
<1>3. ids \subseteq Nat
  BY IdsFinite
<1> HIDE DEF q, m
<1>4. \A i \in 1 .. m : q[i] \in ids
  BY <1>2
<1>5. \A i, j \in 1 .. m : i # j => q[i] # q[j]
  <2> SUFFICES ASSUME NEW i \in 1 .. m, NEW j \in 1 .. m, i # j, q[i] = q[j] PROVE FALSE
    OBVIOUS
  <2>1. q[i] \in Nat /\ q[j] \in Nat
    BY <1>3, <1>4
  <2>2. i < j \/ j < i
    BY <1>1
  <2> QED
    BY <1>2, <2>1, <2>2
<1>6. \E n \in 1 .. m : q[n] = k
  <2> SUFFICES ASSUME \A n \in 1 .. m : q[n] # k PROVE FALSE
    OBVIOUS
  <2> DEFINE T == ids \ {k}
             g == [i \in 1 .. m |-> q[i]]
  <2>1. IsFiniteSet(1 .. m) /\ Cardinality(1 .. m) = m
    BY <1>1, FS_Interval
  <2>2. IsFiniteSet(T) /\ Cardinality(T) = m - 1
    BY <1>1, FS_RemoveElement DEF m
  <2>3. g \in [1 .. m -> T]
    BY <1>4
  <2>4. \A i \in 1 .. m : g[i] = q[i]
    OBVIOUS
  <2> HIDE DEF T, g
  <2>5. Cardinality(T) < Cardinality(1 .. m)
    BY <1>1, <2>1, <2>2
  <2>6. PICK x, y \in 1 .. m : x # y /\ g[x] = g[y]
    BY <2>1, <2>2, <2>3, <2>5, FS_PigeonHole
  <2> QED
    BY <1>5, <2>4, <2>6
<1> QED
  BY <1>2, <1>5, <1>6 DEF q

\* One update for each stream of ids, of what it holds.
LEMMA UpdatesOnce ==
    ASSUME NEW srv \in BOOLEAN, NEW s \in SessionType(srv), NEW ids \in SUBSET StreamIds,
           NEW k \in Levels, NEW q,
           q = [i \in DOMAIN Ascending(ids) |->
                  WindowUpdate(Ascending(ids)[i], s.streams[Ascending(ids)[i]].recv_window_size)]
    PROVE  /\ q \in Seq(AllFrames)
           /\ Credit(q, k) = IF k \in ids THEN s.streams[k].recv_window_size ELSE 0
<1> DEFINE a == Ascending(ids)
           v == [i \in DOMAIN q |-> Increments(k)[q[i]]]
<1>1. a \in Seq(ids) /\ Len(a) \in Nat /\ DOMAIN a = 1 .. Len(a) /\ \A i \in 1 .. Len(a) : a[i] \in ids
  BY AscendingType, LenProperties, ElementOfSeq
<1>2. q = [i \in 1 .. Len(a) |-> WindowUpdate(a[i], s.streams[a[i]].recv_window_size)]
  BY <1>1
<1> HIDE DEF a
<1>3. \A i \in 1 .. Len(a) :
        /\ q[i] \in Updates /\ q[i].type = "WINDOW_UPDATE" /\ q[i].id = a[i]
        /\ q[i].increment = s.streams[a[i]].recv_window_size
        /\ q[i].increment \in Nat
  <2> TAKE i \in 1 .. Len(a)
  <2>1. a[i] \in StreamIds
    BY <1>1
  <2>2. s.streams[a[i]].recv_window_size \in Nat
    BY <2>1, StreamTypes
  <2>3. q[i] = WindowUpdate(a[i], s.streams[a[i]].recv_window_size)
    BY <1>2
  <2> QED
    BY <2>1, <2>2, <2>3 DEF WindowUpdate, Updates
<1>4. q \in Seq(AllFrames) /\ Len(q) = Len(a) /\ DOMAIN q = 1 .. Len(a)
  <2>1. \A i \in 1 .. Len(a) : q[i] \in AllFrames
    BY <1>3, IsFrame
  <2>2. DOMAIN q = 1 .. Len(a)
    BY <1>2
  <2>3. q = [i \in 1 .. Len(a) |-> q[i]]
    BY <1>2, <2>2
  <2>4. q \in [1 .. Len(a) -> AllFrames]
    BY <2>1, <2>3
  <2> QED
    BY <1>1, <2>4
<1>5. \A i \in 1 .. Len(q) :
        Increments(k)[q[i]] = IF a[i] = k THEN q[i].increment ELSE 0
  BY <1>3, <1>4, FrameValue, IsFrame
<1>6. /\ v \in Seq(Int) /\ Len(v) = Len(q)
      /\ \A i \in 1 .. Len(q) : v[i] = IF a[i] = k THEN q[i].increment ELSE 0
  <2>1. v \in Seq(Int) /\ Len(v) = Len(q)
    BY <1>4, ValuesNat, ValuesSeq
  <2>2. \A i \in 1 .. Len(q) : v[i] = Increments(k)[q[i]]
    BY <1>4
  <2> QED
    BY <1>5, <2>1, <2>2
<1>7. Credit(q, k) = SumOf(v)
  BY DEF Credit, Units
<1> HIDE DEF v
<1>8. CASE k \in ids
  <2>1. PICK n \in 1 .. Len(a) : a[n] = k /\ \A i \in 1 .. Len(a) : i # n => a[i] # k
    BY <1>8, AscendingOnce DEF a
  <2>2. n \in Nat \ {0} /\ n <= Len(v) /\ \A i \in 1 .. Len(v) : i # n => v[i] = 0
    BY <1>1, <1>4, <1>6, <2>1
  <2>3. SumOf(v) = v[n]
    BY <1>6, <2>2, SumOnce
  <2>4. v[n] = s.streams[k].recv_window_size
    BY <1>3, <1>4, <1>6, <2>1
  <2> QED
    BY <1>4, <1>7, <1>8, <2>3, <2>4
<1>9. CASE k \notin ids
  <2>1. \A i \in 1 .. Len(v) : v[i] = 0
    BY <1>1, <1>4, <1>6, <1>9
  <2>2. Len(v) + 1 \in Nat \ {0} /\ ~(Len(v) + 1 <= Len(v))
    BY <1>1, <1>4, <1>6
  <2>3. SumOf(v) = 0
    BY <1>6, <2>1, <2>2, SumOnce
  <2> QED
    BY <1>4, <1>7, <1>9, <2>3
<1> QED
  BY <1>8, <1>9

\* Own settings come into force: receive windows move together, and what is
\* given back is no longer held.
LEMMA LocalSettingsKeeps ==
    ASSUME NEW srv \in BOOLEAN, NEW s \in SessionType(srv), NEW f \in SettingsFrames
    PROVE  Keeps(s, update_local_settings(s, f))
<1> DEFINE change == IF f.window = Unchanged THEN 0 ELSE f.window - s.local_initial_window
           updates == {id \in ActiveStreams(s) :
                         /\ f.window # Unchanged
                         /\ ~s.streams[id].window_update_queued
                         /\ should_send_window_update(
                              s.streams[id].local_window_size + change,
                              s.streams[id].recv_window_size)}
           ids == Ascending(updates)
           moved(id) == [s.streams[id] EXCEPT
                           !.local_window_size = @ + change,
                           !.window_update_queued = @ \/ id \in updates,
                           !.recv_window_size = IF id \in updates THEN 0 ELSE @]
           S == [id \in StreamIds |-> IF Active(s, id) THEN moved(id) ELSE s.streams[id]]
           q == [i \in DOMAIN ids |-> WindowUpdate(ids[i], s.streams[ids[i]].recv_window_size)]
           w == s.local_initial_window + change
           m == IF f.max = Unchanged THEN s.local_max ELSE f.max
           t == [s EXCEPT !.streams = S, !.ob_reg = s.ob_reg \o q,
                          !.local_initial_window = w, !.local_max = m]
<1>1. update_local_settings(s, f) = t
  BY DEF update_local_settings, SessionType
<1>2. t \in SessionType(srv) /\ Calm(s, t)
  <2> HIDE DEF t
  <2> QED
    BY <1>1, LocalSettings
<1>3. change \in Int
  BY FieldTypes DEF Unchanged, SettingsFrames
<1>4. updates \in SUBSET StreamIds /\ \A k \in updates : Active(s, k)
  BY DEF ActiveStreams
<1> HIDE DEF change, updates
<1>5. \A k \in StreamIds :
        /\ S[k].state = s.streams[k].state
        /\ S[k].remote_window_size = s.streams[k].remote_window_size
        /\ S[k].recv_window_size
             = IF k \in updates THEN 0 ELSE s.streams[k].recv_window_size
        /\ S[k].local_window_size
             = IF Active(s, k) THEN s.streams[k].local_window_size + change
               ELSE s.streams[k].local_window_size
  <2> TAKE k \in StreamIds
  <2>1. s.streams[k] \in StreamType
    BY StreamTypes
  <2>2. S[k] = IF Active(s, k) THEN moved(k) ELSE s.streams[k]
    OBVIOUS
  <2> HIDE DEF S
  <2> QED
    BY <1>4, <2>1, <2>2 DEF StreamType
<1>6. ASSUME NEW k \in Levels
      PROVE  /\ q \in Seq(AllFrames)
             /\ Credit(q, k) = IF k \in updates THEN s.streams[k].recv_window_size ELSE 0
  BY <1>4, UpdatesOnce
<1> HIDE DEF S, w, m, ids, q
<1>7. /\ t.ob_reg = s.ob_reg \o q /\ t.goaway_flags = s.goaway_flags
      /\ t.recv_window_size = s.recv_window_size
      /\ t.remote_window_size = s.remote_window_size
      /\ t.remote_initial_window = s.remote_initial_window
      /\ t.local_initial_window = w
      /\ t.streams = S
  BY DEF SessionType
<1> HIDE DEF t
<1>8. Lives(s, t, {})
  BY <1>2, <1>7, CalmLives DEF FlagsStay
<1>9. ASSUME Aligned(s) PROVE Aligned(t)
  <2> SUFFICES ASSUME NEW k \in StreamIds, Active(t, k)
               PROVE  t.streams[k].local_window_size = t.local_initial_window
    BY DEF Aligned
  <2>1. Active(s, k)
    BY <1>5, <1>7 DEF Active
  <2>2. s.streams[k].local_window_size = s.local_initial_window
    BY <1>9, <2>1 DEF Aligned
  <2> QED
    BY <1>5, <1>7, <2>1, <2>2 DEF w
<1>10. ASSUME NEW k \in Levels PROVE Kept(s, t, k, 0) /\ Granted(s, t, k, 0)
  <2>1. Idle(s, k) <=> Idle(t, k)
    BY <1>5, <1>7 DEF Idle
  <2>2. Sendable(t, k) = Sendable(s, k) /\ Sendable(s, k) \in Int
    BY <1>5, <1>7, LevelTypes DEF Sendable, Levels
  <2>3. Level(t, k) = Level(s, k)
    <3>1. s.ob_reg \in Seq(AllFrames) /\ Credit(s.ob_reg, k) \in Nat /\ Held(s, k) \in Nat
      BY LevelTypes
    <3>2. Credit(t.ob_reg, k) = Credit(s.ob_reg, k) + Credit(q, k)
      BY <1>6, <1>7, <3>1, CreditConcat
    <3>3. CASE k \in updates
      <4>1. k \in StreamIds /\ k # 0
        BY <1>4, <3>3, SizeAssumption DEF StreamIds
      <4>2. Held(t, k) = 0 /\ Held(s, k) = s.streams[k].recv_window_size
        BY <1>5, <1>7, <3>3, <4>1 DEF Held
      <4>3. Credit(q, k) = s.streams[k].recv_window_size
        BY <1>6, <3>3
      <4> QED
        BY <3>1, <3>2, <4>2, <4>3 DEF Level
    <3>4. CASE k \notin updates
      <4>1. Held(t, k) = Held(s, k)
        BY <1>5, <1>7, <3>4 DEF Held, Levels
      <4>2. Credit(q, k) = 0
        BY <1>6, <3>4
      <4> QED
        BY <3>1, <3>2, <4>1, <4>2 DEF Level
    <3> QED
      BY <3>3, <3>4
  <2>4. Level(s, k) \in Nat
    BY LevelTypes
  <2> QED
    BY <2>1, <2>2, <2>3, <2>4 DEF Kept, Granted
<1> QED
  BY <1>1, <1>8, <1>9, <1>10 DEF Keeps, Settles, Nothing

LEMMA AckKeeps ==
    ASSUME NEW srv \in BOOLEAN, NEW s \in SessionType(srv)
    PROVE  Keeps(s, on_settings_ack_received(s))
<1>1. CASE s.inflight_settings = <<>>
  BY <1>1, TerminateKeeps DEF on_settings_ack_received
<1>2. CASE s.inflight_settings # <<>>
  <2> DEFINE u == update_local_settings(s, Head(s.inflight_settings))
             q == Tail(u.inflight_settings)
             t == [u EXCEPT !.inflight_settings = q]
  <2>1. Head(s.inflight_settings) \in SettingsFrames
    BY <1>2, FieldTypes
  <2>2. u \in SessionType(srv) /\ Keeps(s, u)
    BY <2>1, LocalSettings, LocalSettingsKeeps
  <2>3. on_settings_ack_received(s) = t
    BY <1>2 DEF on_settings_ack_received
  <2>4. t \in SessionType(srv)
    BY <2>3, SettingsAcked
  <2> HIDE DEF u, q
  <2>5. t.ob_reg = u.ob_reg /\ t.streams = u.streams /\ Fixed(u, t)
        /\ t.num_outgoing_streams = u.num_outgoing_streams
        /\ t.num_incoming_streams = u.num_incoming_streams
        /\ t.num_incoming_reserved_streams = u.num_incoming_reserved_streams
        /\ t.goaway_flags = u.goaway_flags
        /\ t.recv_window_size = u.recv_window_size
        /\ t.remote_window_size = u.remote_window_size
        /\ t.remote_initial_window = u.remote_initial_window
        /\ t.local_initial_window = u.local_initial_window
    BY <2>2 DEF SessionType, Fixed
  <2> HIDE DEF t
  <2>6. Keeps(u, t)
    BY <2>2, <2>4, <2>5, QueuesSelf, CalmOthers, SameFields
  <2> QED
    BY <2>2, <2>3, <2>4, <2>6, KeepsTwice
<1> QED
  BY <1>1, <1>2

-----------------------------------------------------------------------------
(***************************************************************************)
(* Streams that begin.                                                     *)
(***************************************************************************)
\* A stream begins with the windows both sides begin with.
Begins(s, t, id) ==
    /\ t.ob_reg = s.ob_reg /\ t.goaway_flags = s.goaway_flags
    /\ t.recv_window_size = s.recv_window_size
    /\ t.remote_window_size = s.remote_window_size
    /\ t.remote_initial_window = s.remote_initial_window
    /\ t.local_initial_window = s.local_initial_window
    /\ s.last_recv_stream_id <= t.last_recv_stream_id
    /\ \A k \in StreamIds : k # id => t.streams[k] = s.streams[k]
    /\ t.streams[id].state \in {"INITIAL", "OPENING", "RESERVED"}
    /\ t.streams[id].state = "RESERVED" => id % 2 = 0
    /\ t.streams[id].recv_window_size = 0
    /\ t.streams[id].remote_window_size = s.remote_initial_window
    /\ t.streams[id].local_window_size = s.local_initial_window

LEMMA StreamBegins ==
    ASSUME NEW srv \in BOOLEAN, NEW s \in SessionType(srv), NEW t \in SessionType(srv),
           NEW id \in StreamIds, s.streams[id].state = "IDLE", Begins(s, t, id)
    PROVE  Settles(s, t, {id}, Nothing, Nothing)
<1>1. Lives(s, t, {id})
  <2>1. \A k \in StreamIds : k # id => t.streams[k] = s.streams[k]
    BY DEF Begins
  <2>2. ASSUME NEW k \in StreamIds
        PROVE  /\ t.streams[k].state = "IDLE" => s.streams[k].state = "IDLE"
               /\ s.streams[k].state = "IDLE" => t.streams[k].state = "IDLE" \/ k \in {id}
               /\ s.streams[k].state = "CLOSED" => t.streams[k].state = "CLOSED"
               /\ s.streams[k].state = "CLOSING" => t.streams[k].state \in {"CLOSING", "CLOSED"}
               /\ t.streams[k].state \in Live =>
                      s.streams[k].state \in Live \/ s.streams[k].state = "IDLE"
               /\ t.streams[k].state = "RESERVED" =>
                      \/ s.streams[k].state = "RESERVED"
                      \/ s.streams[k].state = "IDLE" /\ k % 2 = 0
    <3>1. CASE k # id
      BY <2>1, <3>1
    <3>2. CASE k = id
      BY <3>2 DEF Begins
    <3> QED
      BY <3>1, <3>2
  <2> QED
    BY <2>2 DEF Lives, Begins
<1>2. ASSUME Aligned(s) PROVE Aligned(t)
  <2> SUFFICES ASSUME NEW k \in StreamIds, Active(t, k)
               PROVE  t.streams[k].local_window_size = t.local_initial_window
    BY DEF Aligned
  <2>1. CASE k # id
    BY <1>2, <2>1 DEF Begins, Active, Aligned
  <2>2. CASE k = id
    BY <2>2 DEF Begins
  <2> QED
    BY <2>1, <2>2
<1>3. ASSUME NEW k \in Levels PROVE Kept(s, t, k, 0) /\ Granted(s, t, k, 0)
  <2>1. /\ Level(s, k) \in Nat /\ Sendable(s, k) \in Int
        /\ Held(s, k) \in Nat /\ Credit(s.ob_reg, k) \in Nat
        /\ s.remote_initial_window \in Int
    BY LevelTypes, FieldTypes
  <2>2. CASE k = id
    <3>1. Idle(s, k) /\ k # 0
      BY <2>2, SizeAssumption DEF Idle, StreamIds
    <3>2. Held(t, k) = 0 /\ Sendable(t, k) = 0
      BY <2>1, <2>2, <3>1 DEF Begins, Held, Sendable
    <3>3. t.ob_reg = s.ob_reg
      BY DEF Begins
    <3>4. Level(t, k) <= Level(s, k)
      BY <2>1, <3>2, <3>3 DEF Level
    <3> QED
      BY <3>1, <3>2, <3>4 DEF Kept, Granted
  <2>3. CASE k # id
    <3>1. k = 0 \/ k \in StreamIds
      BY DEF Levels
    <3>2. Held(t, k) = Held(s, k) /\ Sendable(t, k) = Sendable(s, k)
      BY <2>3, <3>1 DEF Begins, Held, Sendable
    <3>3. Level(t, k) = Level(s, k)
      BY <3>2 DEF Begins, Level
    <3>4. Idle(s, k) => Idle(t, k)
      BY <2>3 DEF Begins, Idle
    <3> QED
      BY <2>1, <3>2, <3>3, <3>4 DEF Kept, Granted
  <2> QED
    BY <2>2, <2>3
<1> QED
  BY <1>1, <1>2, <1>3 DEF Settles, Nothing

LEMMA OpenStreamBegins ==
    ASSUME NEW srv \in BOOLEAN, NEW s \in SessionType(srv), NEW id \in StreamIds,
           NEW state \in {"INITIAL", "OPENING", "RESERVED"}, state = "RESERVED" => id % 2 = 0
    PROVE  /\ Begins(s, open_stream(s, id, state), id)
           /\ open_stream(s, id, state).last_recv_stream_id = s.last_recv_stream_id
           /\ open_stream(s, id, state).last_sent_stream_id = s.last_sent_stream_id
           /\ open_stream(s, id, state).streams[id].state = state
<1> DEFINE reserved == state = "RESERVED"
           mine == is_my_stream_id(s, id)
           one(b) == IF b THEN 1 ELSE 0
           a == [NoStream EXCEPT
                   !.state = state,
                   !.push = reserved,
                   !.shut = IF ~reserved THEN {} ELSE IF mine THEN {"RD"} ELSE {"WR"},
                   !.remote_window_size = s.remote_initial_window,
                   !.local_window_size = s.local_initial_window]
           p == s.num_incoming_reserved_streams + one(reserved /\ ~mine)
           o == s.num_outgoing_streams + one(~reserved /\ mine)
           i == s.num_incoming_streams + one(~reserved /\ ~mine)
           t == [s EXCEPT !.streams[id] = a, !.num_incoming_reserved_streams = p,
                          !.num_outgoing_streams = o, !.num_incoming_streams = i]
<1>1. a.state = state /\ a.recv_window_size = 0
      /\ a.remote_window_size = s.remote_initial_window
      /\ a.local_window_size = s.local_initial_window
  BY DEF NoStream
<1>2. open_stream(s, id, state) = t
  BY DEF open_stream
<1> HIDE DEF a, p, o, i
<1>3. /\ t.ob_reg = s.ob_reg /\ t.goaway_flags = s.goaway_flags
      /\ t.recv_window_size = s.recv_window_size
      /\ t.remote_window_size = s.remote_window_size
      /\ t.remote_initial_window = s.remote_initial_window
      /\ t.local_initial_window = s.local_initial_window
      /\ t.last_recv_stream_id = s.last_recv_stream_id
      /\ t.last_sent_stream_id = s.last_sent_stream_id
      /\ t.streams = [s.streams EXCEPT ![id] = a]
  BY DEF SessionType
<1> HIDE DEF t
<1>4. t.streams[id] = a /\ \A k \in StreamIds : k # id => t.streams[k] = s.streams[k]
  BY <1>3, FieldTypes
<1>5. s.last_recv_stream_id <= t.last_recv_stream_id
  BY <1>3, FieldTypes
<1> QED
  BY <1>1, <1>2, <1>3, <1>4, <1>5 DEF Begins

LEMMA MoreBegins ==
    ASSUME NEW s, NEW t, NEW X, NEW g, NEW d, Settles(s, t, {}, g, d)
    PROVE  Settles(s, t, X, g, d)
BY DEF Settles, Lives

\* A session that has been told to end, and has no stream, gets none.
StaysShut(s, t) ==
    "RECV" \in s.goaway_flags /\ (\A k \in StreamIds : ~Active(s, k))
        => \A k \in StreamIds : ~Active(t, k)

LEMMA StillShut ==
    ASSUME NEW s, NEW t, Lives(s, t, {})
    PROVE  StaysShut(s, t)
BY NoOthersActive DEF StaysShut

-----------------------------------------------------------------------------
(***************************************************************************)
(* Queues, and what the application submits.                               *)
(***************************************************************************)
LEMMA QuietFields ==
    ASSUME NEW srv \in BOOLEAN, NEW s \in SessionType(srv), NEW t \in SessionType(srv),
           t.streams = s.streams, Fixed(s, t), t.ob_reg = s.ob_reg,
           t.num_outgoing_streams = s.num_outgoing_streams,
           t.num_incoming_streams = s.num_incoming_streams,
           t.num_incoming_reserved_streams = s.num_incoming_reserved_streams,
           t.goaway_flags = s.goaway_flags,
           t.recv_window_size = s.recv_window_size,
           t.remote_window_size = s.remote_window_size,
           t.remote_initial_window = s.remote_initial_window,
           t.local_initial_window = s.local_initial_window
    PROVE  Keeps(s, t)
BY QueuesSelf, CalmOthers, SameFields

LEMMA TakenKeeps ==
    ASSUME NEW srv \in BOOLEAN, NEW s, SessionInv(srv, s)
    PROVE  /\ s.ob_urgent # <<>> => Keeps(s, [s EXCEPT !.ob_urgent = Tail(s.ob_urgent)])
           /\ s.ob_syn # <<>> => Keeps(s, [s EXCEPT !.ob_syn = Tail(s.ob_syn)])
<1>0. s \in SessionType(srv)
  BY DEF SessionInv, Sound
<1>1. ASSUME s.ob_urgent # <<>>
      PROVE  Keeps(s, [s EXCEPT !.ob_urgent = Tail(s.ob_urgent)])
  <2> DEFINE t == [s EXCEPT !.ob_urgent = Tail(s.ob_urgent)]
  <2>1. t \in SessionType(srv)
    BY <1>1, UrgentTaken DEF Moves, SessionInv, Sound
  <2>2. t.streams = s.streams /\ Fixed(s, t) /\ t.ob_reg = s.ob_reg
        /\ t.num_outgoing_streams = s.num_outgoing_streams
        /\ t.num_incoming_streams = s.num_incoming_streams
        /\ t.num_incoming_reserved_streams = s.num_incoming_reserved_streams
        /\ t.goaway_flags = s.goaway_flags
        /\ t.recv_window_size = s.recv_window_size
        /\ t.remote_window_size = s.remote_window_size
        /\ t.remote_initial_window = s.remote_initial_window
        /\ t.local_initial_window = s.local_initial_window
    BY <1>0 DEF SessionType, Fixed
  <2> HIDE DEF t
  <2>3. Keeps(s, t)
    BY <1>0, <2>1, <2>2, QuietFields
  <2> QED
    BY <2>3 DEF t
<1>2. ASSUME s.ob_syn # <<>>
      PROVE  Keeps(s, [s EXCEPT !.ob_syn = Tail(s.ob_syn)])
  <2> DEFINE t == [s EXCEPT !.ob_syn = Tail(s.ob_syn)]
  <2>1. t \in SessionType(srv)
    BY <1>2, SynTaken DEF Moves, SessionInv, Sound
  <2>2. t.streams = s.streams /\ Fixed(s, t) /\ t.ob_reg = s.ob_reg
        /\ t.num_outgoing_streams = s.num_outgoing_streams
        /\ t.num_incoming_streams = s.num_incoming_streams
        /\ t.num_incoming_reserved_streams = s.num_incoming_reserved_streams
        /\ t.goaway_flags = s.goaway_flags
        /\ t.recv_window_size = s.recv_window_size
        /\ t.remote_window_size = s.remote_window_size
        /\ t.remote_initial_window = s.remote_initial_window
        /\ t.local_initial_window = s.local_initial_window
    BY <1>0 DEF SessionType, Fixed
  <2> HIDE DEF t
  <2>3. Keeps(s, t)
    BY <1>0, <2>1, <2>2, QuietFields
  <2> QED
    BY <2>3 DEF t
<1> QED
  BY <1>1, <1>2

\* Only the queue of regular frames is another one.
OtherQueue(s, t) ==
    /\ t.streams = s.streams /\ t.goaway_flags = s.goaway_flags
    /\ t.last_recv_stream_id = s.last_recv_stream_id
    /\ t.recv_window_size = s.recv_window_size
    /\ t.remote_window_size = s.remote_window_size
    /\ t.remote_initial_window = s.remote_initial_window
    /\ t.local_initial_window = s.local_initial_window

LEMMA OtherQueueLives ==
    ASSUME NEW srv \in BOOLEAN, NEW s \in SessionType(srv), NEW t, OtherQueue(s, t)
    PROVE  Lives(s, t, {})
<1>1. s.last_recv_stream_id <= t.last_recv_stream_id
  BY FieldTypes DEF OtherQueue
<1> QED
  BY <1>1 DEF OtherQueue, Lives, Live

LEMMA RegularTakenSettles ==
    ASSUME NEW srv \in BOOLEAN, NEW s, SessionInv(srv, s), s.ob_reg # <<>>
    PROVE  Settles(s, [s EXCEPT !.ob_reg = Tail(s.ob_reg)], {},
                   Minus(Gives(Head(s.ob_reg))), Nothing)
<1> DEFINE t == [s EXCEPT !.ob_reg = Tail(s.ob_reg)]
           f == Head(s.ob_reg)
<1>0. s \in SessionType(srv) /\ t \in SessionType(srv)
  BY RegularTaken DEF SessionInv, Sound, Moves
<1>1. t.ob_reg = Tail(s.ob_reg) /\ OtherQueue(s, t)
  BY <1>0 DEF SessionType, OtherQueue
<1> HIDE DEF t
<1>2. Lives(s, t, {})
  BY <1>0, <1>1, OtherQueueLives
<1>3. SameSends(s, t)
  BY <1>1 DEF OtherQueue, SameSends
<1>4. ASSUME NEW k \in Levels PROVE Kept(s, t, k, Minus(Gives(f))[k])
  <2>1. s.ob_reg \in Seq(AllFrames)
    BY <1>0, LevelTypes
  <2>2. /\ Credit(s.ob_reg, k) = Increments(k)[f] + Credit(t.ob_reg, k)
        /\ Increments(k)[f] \in Nat /\ Credit(t.ob_reg, k) \in Nat
    BY <1>1, <2>1, CreditTail
  <2>3. Minus(Gives(f))[k] = -(Increments(k)[f])
    BY DEF Minus, Gives
  <2>4. Held(t, k) = Held(s, k) /\ Held(s, k) \in Nat
    BY <1>0, <1>1, LevelTypes DEF Held, OtherQueue
  <2> HIDE DEF f
  <2>5. Level(t, k) = Level(s, k) + Minus(Gives(f))[k] /\ Level(t, k) <= Level(s, k)
    BY <2>2, <2>3, <2>4 DEF Level
  <2> QED
    BY <2>5 DEF Kept
<1> QED
  BY <1>0, <1>2, <1>3, <1>4, OnlyHeld DEF t

\* A frame that gives nothing back is queued.
LEMMA FrameQueuedKeeps ==
    ASSUME NEW srv \in BOOLEAN, NEW s \in SessionType(srv), NEW t \in SessionType(srv),
           NEW f \in Regular(srv), f.type # "WINDOW_UPDATE",
           t.ob_reg = Append(s.ob_reg, f), OtherQueue(s, t)
    PROVE  Keeps(s, t)
<1>1. Lives(s, t, {})
  BY OtherQueueLives
<1>2. SameWindows(s, t)
  BY OtherFrameQueued DEF OtherQueue, SameWindows
<1> QED
  BY <1>1, <1>2, Unmoved

LEMMA RequestSubmittedKeeps ==
    ASSUME NEW srv \in BOOLEAN, ~srv, NEW s, SessionInv(srv, s),
           s.next_stream_id \in StreamIds
    PROVE  Keeps(s, submit_request(s))
<1> DEFINE f == Request(s.next_stream_id)
           t == submit_request(s)
<1>0. s \in SessionType(srv) /\ t \in SessionType(srv)
  BY RequestSubmitted DEF Moves, SessionInv, Sound
<1>1. f \in Regular(srv) /\ f.type = "HEADERS"
  BY DEF SessionInv, Fresh, Mine, Request, Requests, Regular
<1>2. t.ob_reg = Append(s.ob_reg, f) /\ OtherQueue(s, t)
  BY <1>0 DEF submit_request, Enqueue, SessionType, OtherQueue
<1> HIDE DEF t, f
<1>3. Keeps(s, t)
  BY <1>0, <1>1, <1>2, FrameQueuedKeeps
<1> QED
  BY <1>3 DEF t

LEMMA ResponseSubmittedKeeps ==
    ASSUME NEW srv \in BOOLEAN, srv, NEW s, SessionInv(srv, s), NEW id \in StreamIds,
           NEW n \in Nat
    PROVE  Keeps(s, submit_response(s, id, n))
<1> DEFINE f == Response(id, n)
           t == submit_response(s, id, n)
<1>0. s \in SessionType(srv) /\ t \in SessionType(srv)
  BY ResponseSubmitted DEF Moves, SessionInv, Sound
<1>1. f \in Regular(srv) /\ f.type = "HEADERS"
  BY DEF Response, Responses, Regular
<1>2. t.ob_reg = Append(s.ob_reg, f) /\ OtherQueue(s, t)
  BY <1>0 DEF submit_response, Enqueue, SessionType, OtherQueue
<1> HIDE DEF t, f
<1>3. Keeps(s, t)
  BY <1>0, <1>1, <1>2, FrameQueuedKeeps
<1> QED
  BY <1>3 DEF t

LEMMA SettingsSubmittedKeeps ==
    ASSUME NEW srv \in BOOLEAN, NEW s, SessionInv(srv, s), NEW f \in SettingsFrames
    PROVE  Keeps(s, submit_settings(s, f))
<1> DEFINE t == submit_settings(s, f)
<1>0. s \in SessionType(srv) /\ t \in SessionType(srv)
  BY SubmitSettings DEF SessionInv, Sound
<1>2. t.streams = s.streams /\ Fixed(s, t) /\ t.ob_reg = s.ob_reg
      /\ t.num_outgoing_streams = s.num_outgoing_streams
      /\ t.num_incoming_streams = s.num_incoming_streams
      /\ t.num_incoming_reserved_streams = s.num_incoming_reserved_streams
      /\ t.goaway_flags = s.goaway_flags
      /\ t.recv_window_size = s.recv_window_size
      /\ t.remote_window_size = s.remote_window_size
      /\ t.remote_initial_window = s.remote_initial_window
      /\ t.local_initial_window = s.local_initial_window
  BY <1>0 DEF submit_settings, Enqueue, SessionType, Fixed
<1> HIDE DEF t
<1>3. Keeps(s, t)
  BY <1>0, <1>2, QuietFields
<1> QED
  BY <1>3 DEF t

\* A promise that is submitted opens a stream.
LEMMA PromiseSubmittedSettles ==
    ASSUME NEW srv \in BOOLEAN, srv, NEW s, SessionInv(srv, s), NEW id \in StreamIds,
           s.next_stream_id \in StreamIds
    PROVE  Settles(s, submit_push_promise(s, id), {s.next_stream_id}, Nothing, Nothing)
<1> DEFINE k == s.next_stream_id
           t == [s EXCEPT !.next_stream_id = k + 2]
           u == open_stream(t, k, "RESERVED")
           f == PushPromise(id, k)
           v == [u EXCEPT !.ob_reg = Append(u.ob_reg, f)]
           r == submit_push_promise(s, id)
<1>1. /\ s \in SessionType(srv) /\ r \in SessionType(srv) /\ k \in Nat
      /\ Mine(srv, k) /\ s.streams[k].state = "IDLE"
  <2>1. k \in Nat /\ Mine(srv, k) /\ r \in SessionType(srv) /\ s \in SessionType(srv)
    BY PromiseSubmitted, IdsFinite DEF Moves, SessionInv, Sound, Fresh
  <2>2. s.next_stream_id <= s.next_stream_id
    BY <2>1
  <2> QED
    BY <2>1, <2>2 DEF SessionInv, Fresh
<1>2. t \in SessionType(srv)
  <2>1. k + 2 \in Nat
    BY <1>1
  <2> DEFINE m == k + 2
  <2> HIDE DEF m, k
  <2> QED
    BY <1>1, <2>1 DEF SessionType, m
<1>3. OtherQueue(s, t) /\ t.ob_reg = s.ob_reg
  BY <1>1 DEF SessionType, OtherQueue
<1>4. r = IF ~Active(s, id) THEN t ELSE v
  BY DEF submit_push_promise, Enqueue
<1> HIDE DEF t
<1>5. Keeps(s, t)
  <2>1. Lives(s, t, {}) /\ SameWindows(s, t)
    BY <1>1, <1>3, OtherQueueLives DEF OtherQueue, SameWindows
  <2> QED
    BY <1>1, <1>2, <2>1, Unmoved
<1>6. u \in SessionType(srv) /\ Begins(t, u, k) /\ t.streams[k].state = "IDLE"
  <2>1. k % 2 = 0
    BY <1>1 DEF Mine
  <2>2. t.streams[k].state = "IDLE"
    BY <1>1, <1>3 DEF OtherQueue
  <2>3. u \in SessionType(srv)
    <3>1. Sound(srv, t)
      <4>1. t = [s EXCEPT !.ob_reg = s.ob_reg, !.next_stream_id = k + 2]
        BY <1>1 DEF SessionType, t
      <4>2. /\ s.next_stream_id <= k + 2 /\ k + 2 \in Nat /\ Mine(srv, k + 2)
            /\ s.ob_reg \in Seq(Regular(srv))
        <5>1. s.next_stream_id <= k + 2 /\ k + 2 \in Nat
          BY <1>1
        <5>2. Mine(srv, k + 2)
          BY <1>1 DEF Mine
        <5>3. s.ob_reg \in Seq(Regular(srv))
          BY <1>1, FieldTypes
        <5> QED
          BY <5>1, <5>2, <5>3
      <4>3. \A i \in 1 .. Len(s.ob_reg) : GoawayOK(s, s.ob_reg[i])
        BY DEF SessionInv, Covered
      <4> DEFINE m == k + 2
      <4>4. InOrder(s.ob_reg, s.last_sent_stream_id, m)
        <5>1. InOrder(s.ob_reg, s.last_sent_stream_id, k) /\ s.last_sent_stream_id \in Nat
          BY <1>1, FieldTypes DEF SessionInv, Fresh
        <5>2. k \in Nat /\ m \in Nat /\ k <= m
          BY <1>1, <4>2
        <5> HIDE DEF k, m
        <5> QED
          BY <4>2, <5>1, <5>2, InOrderUpTo
      <4>5. s.next_stream_id <= m /\ m \in Nat /\ Mine(srv, m)
        BY <4>2
      <4> HIDE DEF k, m
      <4> QED
        BY <4>1, <4>2, <4>3, <4>4, <4>5, RegularReplaced DEF m, Moves, SessionInv
    <3> HIDE DEF k
    <3> QED
      BY <2>2, <3>1, OpenStream DEF Sound, k
  <2> HIDE DEF k
  <2> QED
    BY <1>2, <2>1, <2>2, <2>3, OpenStreamBegins DEF k
<1> HIDE DEF u
<1>7. Settles(t, u, {k}, Nothing, Nothing)
  BY <1>2, <1>6, StreamBegins
<1>8. Settles(s, u, {k}, Nothing, Nothing)
  <2>1. \A j \in Levels : Nothing[j] \in Int
    BY DEF Nothing
  <2> HIDE DEF k
  <2> QED
    BY <1>1, <1>2, <1>5, <1>6, <1>7, <2>1, ThenSettles
<1>9. ASSUME v \in SessionType(srv) PROVE Settles(s, v, {k}, Nothing, Nothing)
  <2>1. f \in Regular(srv) /\ f.type = "PUSH_PROMISE"
    BY <1>1 DEF PushPromise, Promises, Regular, Mine
  <2> HIDE DEF f, k
  <2>2. v.ob_reg = Append(u.ob_reg, f) /\ OtherQueue(u, v)
    BY <1>6 DEF SessionType, OtherQueue
  <2> HIDE DEF v
  <2>3. Keeps(u, v)
    BY <1>6, <1>9, <2>1, <2>2, FrameQueuedKeeps
  <2> QED
    BY <1>1, <1>6, <1>8, <1>9, <2>3, SettlesThen
<1> HIDE DEF v, r, k
<1>10. Settles(s, t, {k}, Nothing, Nothing)
  BY <1>5, MoreBegins DEF Keeps
<1>11. Settles(s, r, {k}, Nothing, Nothing)
  BY <1>1, <1>4, <1>9, <1>10
<1> QED
  BY <1>11 DEF r, k

-----------------------------------------------------------------------------
(***************************************************************************)
(* Frames that are received.                                               *)
(***************************************************************************)
LEMMA SeenKeeps ==
    ASSUME NEW srv \in BOOLEAN, NEW s, SessionInv(srv, s), NEW id \in StreamIds,
           s.last_recv_stream_id < id
    PROVE  Keeps(s, [s EXCEPT !.last_recv_stream_id = id])
<1> DEFINE t == [s EXCEPT !.last_recv_stream_id = id]
<1>1. /\ s \in SessionType(srv) /\ t \in SessionType(srv)
      /\ s.last_recv_stream_id \in Nat /\ id \in Nat
  BY PeerStreamSeen, FieldTypes, IdsFinite DEF SessionInv, Sound
<1>2. /\ t.streams = s.streams /\ t.goaway_flags = s.goaway_flags
      /\ t.last_recv_stream_id = id /\ t.ob_reg = s.ob_reg
      /\ t.recv_window_size = s.recv_window_size
      /\ t.remote_window_size = s.remote_window_size
      /\ t.remote_initial_window = s.remote_initial_window
      /\ t.local_initial_window = s.local_initial_window
  BY <1>1 DEF SessionType
<1> HIDE DEF t
<1>3. s.last_recv_stream_id <= t.last_recv_stream_id
  BY <1>1, <1>2
<1>4. Lives(s, t, {}) /\ SameWindows(s, t)
  BY <1>2, <1>3 DEF Lives, Live, SameWindows
<1>5. Keeps(s, t)
  BY <1>1, <1>4, Unmoved
<1> QED
  BY <1>5 DEF t

LEMMA PeerStreamSettles ==
    ASSUME NEW srv \in BOOLEAN, NEW s, SessionInv(srv, s), NEW id \in StreamIds,
           ~Mine(srv, id), s.last_recv_stream_id < id, allow_incoming_new_stream(s),
           NEW state \in {"OPENING", "RESERVED"}, state = "RESERVED" => id % 2 = 0
    PROVE  LET t == [open_stream([s EXCEPT !.last_recv_stream_id = id], id, state)
                       EXCEPT !.last_proc_stream_id = id] IN
           /\ SessionInv(srv, t) /\ Settles(s, t, {id}, Nothing, Nothing)
           /\ t.last_recv_stream_id = id
<1> DEFINE r == [s EXCEPT !.last_recv_stream_id = id]
           u == open_stream(r, id, state)
           t == [u EXCEPT !.last_proc_stream_id = id]
<1>1. /\ SessionInv(srv, t) /\ t \in SessionType(srv) /\ s \in SessionType(srv)
      /\ r \in SessionType(srv)
  BY PeerStream, PeerStreamSeen DEF SessionInv, Sound
<1>2. s.streams[id].state = "IDLE"
  BY DEF SessionInv, Fresh
<1>3. Keeps(s, r) /\ r.streams = s.streams /\ r.last_recv_stream_id = id
  BY <1>1, SeenKeeps DEF SessionType
<1> HIDE DEF r
<1>4. Begins(r, u, id) /\ u.last_recv_stream_id = id
  BY <1>1, <1>3, OpenStreamBegins
<1>5. \A j \in Levels : Nothing[j] \in Int
  BY DEF Nothing
<1>6. t = [u EXCEPT !.last_proc_stream_id = id]
  OBVIOUS
<1>7. /\ t.streams = u.streams /\ t.ob_reg = u.ob_reg /\ t.goaway_flags = u.goaway_flags
      /\ t.recv_window_size = u.recv_window_size
      /\ t.remote_window_size = u.remote_window_size
      /\ t.remote_initial_window = u.remote_initial_window
      /\ t.local_initial_window = u.local_initial_window
      /\ t.last_recv_stream_id = u.last_recv_stream_id
  BY <1>1 DEF SessionType, open_stream
<1> HIDE DEF t, u
<1>8. Begins(r, t, id)
  BY <1>4, <1>7 DEF Begins
<1>9. Settles(r, t, {id}, Nothing, Nothing)
  BY <1>1, <1>2, <1>3, <1>8, StreamBegins
<1>10. Settles(s, t, {id}, Nothing, Nothing)
  BY <1>1, <1>3, <1>5, <1>9, ThenSettles
<1> QED
  BY <1>1, <1>4, <1>7, <1>10 DEF t, u, r

\* What several handlers end with.
LEMMA EndsKeep ==
    ASSUME NEW srv \in BOOLEAN, NEW s, SessionInv(srv, s), NEW id \in StreamIds,
           NEW dir \in {"RD", "WR"}
    PROVE  /\ Keeps(s, terminate_session(s)) /\ terminate_session(s) \in SessionType(srv)
           /\ Keeps(s, add_rst_stream(s, id)) /\ add_rst_stream(s, id) \in SessionType(srv)
           /\ Keeps(s, close_stream(s, id)) /\ close_stream(s, id) \in SessionType(srv)
           /\ Keeps(s, shutdown(s, id, dir)) /\ shutdown(s, id, dir) \in SessionType(srv)
           /\ Keeps(s, s)
<1>1. s \in SessionType(srv) /\ Sound(srv, s)
  BY DEF SessionInv, Sound
<1>2. Keeps(s, terminate_session(s)) /\ Keeps(s, add_rst_stream(s, id))
      /\ terminate_session(s) \in SessionType(srv) /\ add_rst_stream(s, id) \in SessionType(srv)
  BY <1>1, TerminateKeeps, AddRstKeeps
<1>3. Keeps(s, close_stream(s, id)) /\ close_stream(s, id) \in SessionType(srv)
  BY <1>1, CloseStreamKeeps DEF Sound
<1>4. Keeps(s, shutdown(s, id, dir)) /\ shutdown(s, id, dir) \in SessionType(srv)
  BY <1>1, ShutdownKeeps DEF Sound
<1> QED
  BY <1>1, <1>2, <1>3, <1>4, KeepsSelf

LEMMA RequestReceivedSettles ==
    ASSUME NEW srv \in BOOLEAN, NEW s, SessionInv(srv, s), NEW f, f.id \in StreamIds,
           srv => ~Mine(srv, f.id)
    PROVE  Settles(s, on_request_headers_received(s, f), IF srv THEN {f.id} ELSE {},
                   Nothing, Nothing)
<1> DEFINE id == f.id
           t == [s EXCEPT !.last_recv_stream_id = id]
           u == [open_stream(t, id, "OPENING") EXCEPT !.last_proc_stream_id = id]
           r == on_request_headers_received(s, f)
<1>1. s.server = srv /\ s.last_recv_stream_id \in Nat /\ id \in Nat
      /\ s \in SessionType(srv)
  BY FieldTypes, IdsFinite DEF SessionInv, Sound
<1>2. CASE ~srv
  <2>1. Keeps(s, r)
    BY <1>1, <1>2, EndsKeep DEF on_request_headers_received
  <2> HIDE DEF r
  <2> QED
    BY <1>2, <2>1 DEF Keeps, r
<1>3. CASE srv /\ ~is_new_peer_stream_id(s, id)
  <2>1. Keeps(s, r)
    BY <1>1, <1>3, EndsKeep DEF on_request_headers_received
  <2> HIDE DEF r
  <2> QED
    BY <1>3, <2>1, MoreBegins DEF Keeps, r
<1>4. CASE srv /\ is_new_peer_stream_id(s, id)
  <2>0. s.last_recv_stream_id < id
    BY <1>4 DEF is_new_peer_stream_id
  <2>1. SessionInv(srv, t) /\ t \in SessionType(srv) /\ Keeps(s, t)
    BY <1>1, <1>4, <2>0, PeerStreamSeen, SeenKeeps DEF SessionInv, Sound
  <2>2. /\ Keeps(s, terminate_session(t))
        /\ Keeps(s, add_rst_stream(t, id))
    <3> HIDE DEF t
    <3>1. /\ Keeps(t, terminate_session(t)) /\ Keeps(t, add_rst_stream(t, id))
          /\ terminate_session(t) \in SessionType(srv)
          /\ add_rst_stream(t, id) \in SessionType(srv)
      BY <2>1, EndsKeep
    <3> QED
      BY <1>1, <2>1, <3>1, KeepsTwice
  <2>3. ASSUME allow_incoming_new_stream(s)
        PROVE  Settles(s, shutdown(u, id, "RD"), {id}, Nothing, Nothing)
    <3>1. SessionInv(srv, u) /\ Settles(s, u, {id}, Nothing, Nothing)
      BY <1>4, <2>0, <2>3, PeerStreamSettles
    <3> HIDE DEF u
    <3>2. /\ Keeps(u, shutdown(u, id, "RD")) /\ shutdown(u, id, "RD") \in SessionType(srv)
          /\ u \in SessionType(srv)
      BY <3>1, EndsKeep DEF SessionInv, Sound
    <3> QED
      BY <1>1, <3>1, <3>2, SettlesThen
  <2>4. \/ r = terminate_session(t)
        \/ r = t
        \/ r = add_rst_stream(t, id)
        \/ /\ allow_incoming_new_stream(s)
           /\ r = shutdown(u, id, "RD")
    BY <1>1, <1>4 DEF on_request_headers_received
  <2> HIDE DEF t, u, r
  <2>5. Settles(s, r, {id}, Nothing, Nothing)
    BY <2>1, <2>2, <2>3, <2>4, MoreBegins DEF Keeps
  <2> QED
    BY <1>4, <2>5 DEF r
<1> QED
  BY <1>1, <1>2, <1>3, <1>4

LEMMA HeadersEndKeeps ==
    ASSUME NEW srv \in BOOLEAN, NEW s, SessionInv(srv, s), NEW f, f.id \in StreamIds
    PROVE  /\ Keeps(s, end_stream_headers(s, f))
           /\ end_stream_headers(s, f) \in SessionType(srv)
BY EndsKeep DEF end_stream_headers, SessionInv, Sound

\* A stream that has begun goes on in another state.
GoesOn(s, t, id) ==
    /\ t.ob_reg = s.ob_reg /\ t.goaway_flags = s.goaway_flags
    /\ t.recv_window_size = s.recv_window_size
    /\ t.remote_window_size = s.remote_window_size
    /\ t.remote_initial_window = s.remote_initial_window
    /\ t.local_initial_window = s.local_initial_window
    /\ t.last_recv_stream_id = s.last_recv_stream_id
    /\ \A k \in StreamIds : k # id => t.streams[k] = s.streams[k]
    /\ s.streams[id].state \in Live
    /\ t.streams[id].state \in Live \ {"RESERVED"}
    /\ SameStreamWindows(s.streams[id], t.streams[id])

LEMMA GoesOnKeeps ==
    ASSUME NEW srv \in BOOLEAN, NEW s \in SessionType(srv), NEW t \in SessionType(srv),
           NEW id \in StreamIds, GoesOn(s, t, id)
    PROVE  Keeps(s, t)
<1>1. SameWindows(s, t)
  BY DEF SameWindows, GoesOn, SameStreamWindows
<1>2. s.last_recv_stream_id <= t.last_recv_stream_id
  BY FieldTypes DEF GoesOn
<1>3. Lives(s, t, {})
  BY <1>2 DEF GoesOn, Lives, Live
<1> QED
  BY <1>1, <1>3, Unmoved

LEMMA ResponseReceivedKeeps ==
    ASSUME NEW srv \in BOOLEAN, NEW s, SessionInv(srv, s), NEW f, f.id \in StreamIds,
           s.streams[f.id].state = "OPENING"
    PROVE  Keeps(s, on_response_headers_received(s, f))
<1> DEFINE a == [s.streams[f.id] EXCEPT !.state = "OPENED"]
           t == [s EXCEPT !.streams[f.id] = a]
           u == [s EXCEPT !.streams[f.id] = a, !.last_sent_stream_id = s.last_sent_stream_id]
<1>1. s \in SessionType(srv) /\ Sound(srv, s) /\ s.last_sent_stream_id \in Nat
  BY FieldTypes DEF SessionInv, Sound
<1>2. Active(s, f.id) /\ s.streams[f.id].push = FALSE
  BY <1>1, StreamTypes DEF Active, Sound, PushOK
<1>3. /\ a \in StreamType /\ a.state = "OPENED" /\ a.push = FALSE
      /\ SameStreamWindows(s.streams[f.id], a)
  <2>1. s.streams[f.id] \in StreamType
    BY <1>1, StreamTypes
  <2> QED
    BY <1>2, <2>1 DEF StreamType, SameStreamWindows
<1>4. t = u
  BY <1>1 DEF SessionType
<1>5. SessionInv(srv, u) /\ u \in SessionType(srv)
  <2> HIDE DEF a
  <2>1. Sound(srv, u) /\ Advances(s, u)
    BY <1>1, <1>2, <1>3, StateChanged
  <2> QED
    BY <2>1, AdvancesMoves DEF Moves, Sound
<1> HIDE DEF a
<1>6. Keeps(s, u)
  <2>1. GoesOn(s, t, f.id)
    BY <1>1, <1>3 DEF GoesOn, SessionType, Live
  <2> HIDE DEF t, u
  <2> QED
    BY <1>1, <1>4, <1>5, <2>1, GoesOnKeeps
<1>7. \/ on_response_headers_received(s, f) = terminate_session(s)
      \/ on_response_headers_received(s, f) = end_stream_headers(t, f)
  BY DEF on_response_headers_received, a
<1> HIDE DEF t, u
<1>8. Keeps(s, end_stream_headers(t, f))
  BY <1>1, <1>4, <1>5, <1>6, HeadersEndKeeps, KeepsTwice
<1> QED
  BY <1>7, <1>8, EndsKeep

LEMMA PushResponseReceivedKeeps ==
    ASSUME NEW srv \in BOOLEAN, NEW s, SessionInv(srv, s), NEW f, f.id \in StreamIds,
           s.streams[f.id].state = "RESERVED"
    PROVE  Keeps(s, on_push_response_headers_received(s, f))
<1> DEFINE a == [s.streams[f.id] EXCEPT !.state = "OPENED", !.push = FALSE]
           n == s.num_incoming_streams + 1
           m == s.num_incoming_reserved_streams - 1
           t == [s EXCEPT !.streams[f.id] = a, !.num_incoming_reserved_streams = m,
                          !.num_incoming_streams = n]
<1>1. s \in SessionType(srv) /\ Sound(srv, s) /\ s.server = srv
  BY FieldTypes DEF SessionInv, Sound
<1>2. ~srv => ~Mine(srv, f.id)
  BY DEF Active, Sound, PushOK, SessionInv
<1>3. /\ a \in StreamType /\ a.state = "OPENED" /\ a.push = FALSE
      /\ SameStreamWindows(s.streams[f.id], a)
  <2>1. s.streams[f.id] \in StreamType
    BY <1>1, StreamTypes
  <2> QED
    BY <2>1 DEF StreamType, SameStreamWindows
<1>4. ASSUME ~srv PROVE Keeps(s, end_stream_headers(t, f))
  <2>1. SessionInv(srv, t) /\ t \in SessionType(srv)
    <3> HIDE DEF a
    <3>1. Sound(srv, t) /\ Advances(s, t)
      BY <1>1, <1>2, <1>3, <1>4, PromiseReceived
    <3> HIDE DEF t
    <3> QED
      BY <3>1, AdvancesMoves DEF Moves, Sound
  <2>2. GoesOn(s, t, f.id)
    <3> HIDE DEF a, n, m
    <3> QED
      BY <1>1, <1>3 DEF GoesOn, SessionType, Live
  <2> HIDE DEF t
  <2>3. Keeps(s, t)
    BY <1>1, <2>1, <2>2, GoesOnKeeps
  <2> QED
    BY <1>1, <2>1, <2>3, HeadersEndKeeps, KeepsTwice
<1>5. \/ on_push_response_headers_received(s, f) = terminate_session(s)
      \/ on_push_response_headers_received(s, f) = s
      \/ on_push_response_headers_received(s, f) = add_rst_stream(s, f.id)
      \/ ~srv /\ on_push_response_headers_received(s, f) = end_stream_headers(t, f)
  <2>1. t = [s EXCEPT !.streams[f.id].state = "OPENED", !.streams[f.id].push = FALSE,
                      !.num_incoming_reserved_streams = @ - 1,
                      !.num_incoming_streams = @ + 1]
    BY <1>1, FieldTypes, ZenonT(40) DEF SessionType
  <2> HIDE DEF t
  <2> QED
    BY <1>1, <2>1 DEF on_push_response_headers_received
<1> HIDE DEF t
<1> QED
  BY <1>4, <1>5, EndsKeep

LEMMA HeadersReceivedSettles ==
    ASSUME NEW srv \in BOOLEAN, NEW s, SessionInv(srv, s), NEW f, f.id \in StreamIds,
           srv => ~Mine(srv, f.id)
    PROVE  Settles(s, process_headers_frame(s, f), IF srv THEN {f.id} ELSE {},
                   Nothing, Nothing)
<1>1. CASE ~Active(s, f.id)
  BY <1>1, RequestReceivedSettles DEF process_headers_frame
<1>2. CASE Active(s, f.id)
  <2>1. Keeps(s, process_headers_frame(s, f))
    BY <1>2, ResponseReceivedKeeps, PushResponseReceivedKeeps, EndsKeep
       DEF process_headers_frame
  <2> QED
    BY <2>1, MoreBegins DEF Keeps
<1> QED
  BY <1>1, <1>2

\* A promise begins a stream only while another one is there.
LEMMA PromiseReceivedSettles ==
    ASSUME NEW srv \in BOOLEAN, NEW s, SessionInv(srv, s), NEW f \in Promises
    PROVE  LET t == on_push_promise_received(s, f) IN
           \/ Keeps(s, t)
           \/ /\ Settles(s, t, {f.promised}, Nothing, Nothing)
              /\ ~srv /\ s.last_recv_stream_id < f.promised /\ Active(s, f.id)
<1> DEFINE id == f.promised
           t == [s EXCEPT !.last_recv_stream_id = id]
           u == [open_stream(t, id, "RESERVED") EXCEPT !.last_proc_stream_id = id]
           r == on_push_promise_received(s, f)
<1>1. s.server = srv /\ s.last_recv_stream_id \in Nat /\ s \in SessionType(srv)
  BY FieldTypes DEF SessionInv, Sound
<1>2. id \in StreamIds /\ id \in Nat /\ (~srv => ~Mine(srv, id)) /\ id % 2 = 0
      /\ f.id \in StreamIds
  BY IdsFinite DEF Promises, Mine, StreamIds
<1>3. ASSUME ~srv, s.last_recv_stream_id < id
      PROVE  Keeps(s, terminate_session(t)) /\ Keeps(s, add_rst_stream(t, id))
  <2>1. SessionInv(srv, t) /\ t \in SessionType(srv) /\ Keeps(s, t)
    BY <1>2, <1>3, PeerStreamSeen, SeenKeeps DEF SessionInv, Sound
  <2> HIDE DEF t
  <2>2. /\ Keeps(t, terminate_session(t)) /\ Keeps(t, add_rst_stream(t, id))
        /\ terminate_session(t) \in SessionType(srv)
        /\ add_rst_stream(t, id) \in SessionType(srv)
    BY <1>2, <2>1, EndsKeep
  <2> QED
    BY <1>1, <2>1, <2>2, KeepsTwice
<1>4. ASSUME ~srv, s.last_recv_stream_id < id, allow_incoming_new_stream(s)
      PROVE  Settles(s, u, {id}, Nothing, Nothing)
  BY <1>2, <1>4, PeerStreamSettles
<1>5. \/ r = terminate_session(s)
      \/ r = s
      \/ /\ ~srv /\ s.last_recv_stream_id < id /\ allow_incoming_new_stream(s)
         /\ \/ r = add_rst_stream(t, id)
            \/ r = terminate_session(t)
            \/ r = u /\ Active(s, f.id)
  BY <1>1, <1>2 DEF on_push_promise_received, is_new_peer_stream_id, enable_push
<1> HIDE DEF t, u, r
<1>6. \/ Keeps(s, r)
      \/ /\ Settles(s, r, {id}, Nothing, Nothing)
         /\ ~srv /\ s.last_recv_stream_id < id /\ Active(s, f.id)
  BY <1>2, <1>3, <1>4, <1>5, EndsKeep
<1> QED
  BY <1>6 DEF r

LEMMA GoawayReceivedKeeps ==
    ASSUME NEW srv \in BOOLEAN, NEW s, SessionInv(srv, s), NEW f \in Goaways
    PROVE  Keeps(s, on_goaway_received(s, f))
<1> DEFINE t == [s EXCEPT !.goaway_flags = s.goaway_flags \cup {"RECV"},
                          !.remote_last_stream_id = f.last]
           ids == {id \in StreamIds : id > f.last /\ is_my_stream_id(t, id) = ~FALSE}
<1>1. s \in SessionType(srv) /\ Sound(srv, s)
  BY DEF SessionInv, Sound
<1>2. Keeps(s, t) /\ Sound(srv, t) /\ t \in SessionType(srv)
  <2>1. t \in SessionType(srv)
    BY <1>1 DEF SessionType, Goaways
  <2>2. /\ t.streams = s.streams /\ t.ob_reg = s.ob_reg /\ Fixed(s, t)
        /\ t.num_outgoing_streams = s.num_outgoing_streams
        /\ t.num_incoming_streams = s.num_incoming_streams
        /\ t.num_incoming_reserved_streams = s.num_incoming_reserved_streams
        /\ t.goaway_flags = s.goaway_flags \cup {"RECV"}
        /\ t.recv_window_size = s.recv_window_size
        /\ t.remote_window_size = s.remote_window_size
        /\ t.remote_initial_window = s.remote_initial_window
        /\ t.local_initial_window = s.local_initial_window
    BY <1>1 DEF SessionType, Fixed
  <2> HIDE DEF t
  <2>3. Calm(s, t)
    BY <1>1, <2>1, <2>2, QueuesSelf, CalmOthers
  <2>4. Lives(s, t, {})
    BY <1>1, <2>1, <2>2, <2>3, CalmLives DEF FlagsStay
  <2>5. SameWindows(s, t)
    BY <2>2 DEF SameWindows
  <2> QED
    BY <1>1, <2>1, <2>3, <2>4, <2>5, CalmSound, Unmoved
<1>3. \/ on_goaway_received(s, f) = terminate_session(s)
      \/ on_goaway_received(s, f) = close_streams(t, ids)
  BY DEF on_goaway_received, close_stream_on_goaway
<1> HIDE DEF t
<1>4. ids \in SUBSET StreamIds
  OBVIOUS
<1> HIDE DEF ids
<1>5. Keeps(t, close_streams(t, ids)) /\ close_streams(t, ids) \in SessionType(srv)
  BY <1>2, <1>4, CloseStreamsKeeps DEF Sound
<1>6. Keeps(s, terminate_session(s))
  BY <1>1, TerminateKeeps
<1> QED
  BY <1>1, <1>2, <1>3, <1>5, <1>6, KeepsTwice

\* A session that ends gives nothing back.
LEMMA LostAnyway ==
    ASSUME NEW s, NEW t, NEW X, NEW g, NEW d, Settles(s, t, X, g, d),
           "TERM_ON_SEND" \in t.goaway_flags, NEW h
    PROVE  Settles(s, t, X, h, d)
BY DEF Settles, Kept, Lost

\* DATA that is received is counted by the connection and by its stream, but
\* for what belongs to no stream or to one being reset.
LEMMA DataReceivedSettles ==
    ASSUME NEW srv \in BOOLEAN, NEW s, SessionInv(srv, s), NEW f \in DataFrames
    PROVE  Settles(s, on_data_received(s, f), {}, Takes(f), Nothing)
<1> DEFINE n == f.length
           id == f.id
           r == on_data_received(s, f)
<1>1. /\ id \in StreamIds /\ n \in Nat /\ f.end \in BOOLEAN /\ (~f.end) \in BOOLEAN
      /\ f \in AllFrames /\ f.type = "DATA" /\ s \in SessionType(srv)
  BY DEF DataFrames, AllFrames, Frames, SessionInv, Sound
<1>2. id # 0 /\ id \in Levels /\ 0 \in Levels
  BY <1>1, SizeAssumption DEF StreamIds, Levels
<1>3. \A k \in Levels : Takes(f)[k] = IF k = 0 \/ k = id THEN n ELSE 0
  BY <1>1, FrameValue DEF Takes
<1>4. ASSUME NEW t \in SessionType(srv)
      PROVE  LET c == update_recv_connection_window_size(t, n) IN
             /\ c \in SessionType(srv) /\ Settles(t, c, {}, At(0, n), Nothing)
             /\ Calm(t, c)
  BY <1>1, UpdateConnectionSettles, UpdateConnection
<1>5. \A k \in Levels : At(0, n)[k] \in Int /\ At(id, n)[k] \in Int /\ Nothing[k] = 0
  BY <1>1 DEF At, Nothing
<1>6. CASE data_not_allowed(s, f)
  <2> DEFINE t == terminate_session(s)
             c == update_recv_connection_window_size(t, n)
  <2>1. t \in SessionType(srv) /\ Keeps(s, t) /\ "TERM_ON_SEND" \in t.goaway_flags
    BY <1>1, TerminateKeeps
  <2>2. r = c
    BY <1>6 DEF on_data_received, ignore_data
  <2> HIDE DEF t
  <2>3. c \in SessionType(srv) /\ Settles(t, c, {}, At(0, n), Nothing)
    BY <1>4, <2>1
  <2> HIDE DEF c
  <2>4. Settles(s, c, {}, At(0, n), Nothing)
    <3>1. \A k \in Levels : At(0, n)[k] \in Int /\ Nothing[k] \in Int
      BY <1>5
    <3> QED
      BY <1>1, <2>1, <2>3, <3>1, ThenSettles
  <2>5. "TERM_ON_SEND" \in c.goaway_flags
    BY <2>1, <2>3 DEF Settles, Lives
  <2> HIDE DEF r
  <2> QED
    BY <2>2, <2>4, <2>5, LostAnyway DEF r
<1>7. CASE ~data_not_allowed(s, f) /\ (~Active(s, id) \/ s.streams[id].state = "CLOSING")
  <2> DEFINE c == update_recv_connection_window_size(s, n)
  <2>1. r = c
    BY <1>7 DEF on_data_received, ignore_data
  <2>2. Settles(s, c, {}, At(0, n), Nothing)
    BY <1>1, <1>4
  <2> HIDE DEF c, r
  <2>3. ASSUME NEW k \in Levels PROVE Kept(s, c, k, Takes(f)[k])
    <3>1. Kept(s, c, k, At(0, n)[k]) /\ Lives(s, c, {})
      BY <2>2 DEF Settles
    <3>2. CASE k = id
      <4>1. s.streams[id].state \in {"IDLE", "CLOSED", "CLOSING"}
        BY <1>7 DEF Active
      <4>2. CASE s.streams[id].state = "IDLE"
        BY <1>1, <3>1, <3>2, <4>2 DEF Kept, Idle
      <4>3. CASE s.streams[id].state \in {"CLOSED", "CLOSING"}
        BY <1>1, <3>1, <3>2, <4>3 DEF Kept, Lost, Lives
      <4> QED
        BY <4>1, <4>2, <4>3
    <3>3. CASE k # id
      <4>1. At(0, n)[k] = Takes(f)[k]
        BY <1>3, <3>3 DEF At
      <4> QED
        BY <3>1, <4>1
    <3> QED
      BY <3>2, <3>3
  <2>4. Settles(s, c, {}, Takes(f), Nothing)
    BY <2>2, <2>3 DEF Settles
  <2> QED
    BY <2>1, <2>4 DEF r
<1>8. CASE ~data_not_allowed(s, f) /\ Active(s, id) /\ s.streams[id].state # "CLOSING"
  <2> DEFINE c == update_recv_connection_window_size(s, n)
             u == update_recv_stream_window_size(c, id, n, ~f.end)
  <2>1. c \in SessionType(srv) /\ Settles(s, c, {}, At(0, n), Nothing) /\ Calm(s, c)
    BY <1>1, <1>4
  <2>2. r \in {u, shutdown(u, id, "RD")}
    BY <1>8 DEF on_data_received
  <2>3. SessionInv(srv, c)
    BY <2>1, CalmMoves DEF Moves
  <2> HIDE DEF c, r
  <2>4. Active(c, id)
    BY <1>1, <1>8, <2>1 DEF Calm, Active
  <2>5. u \in SessionType(srv) /\ Settles(c, u, {}, At(id, n), Nothing) /\ SessionInv(srv, u)
    <3>1. u \in SessionType(srv) /\ Settles(c, u, {}, At(id, n), Nothing)
      BY <1>1, <2>1, <2>4, UpdateStreamSettles
    <3>2. Calm(c, u)
      BY <1>1, <2>1, UpdateStream
    <3> HIDE DEF u
    <3> QED
      BY <2>3, <3>1, <3>2, CalmMoves DEF Moves
  <2> HIDE DEF u
  <2>6. Settles(s, u, {}, Takes(f), Nothing)
    <3>1. \A k \in Levels : Takes(f)[k] = At(0, n)[k] + At(id, n)[k]
      BY <1>1, <1>2, <1>3 DEF At
    <3>2. \A k \in Levels : /\ At(0, n)[k] \in Int /\ At(id, n)[k] \in Int
                            /\ Takes(f)[k] = At(0, n)[k] + At(id, n)[k]
                            /\ Nothing[k] \in Int /\ Nothing[k] \in Int
                            /\ Nothing[k] = Nothing[k] + Nothing[k]
      BY <1>5, <3>1
    <3> QED
      BY ONLY <1>1, <2>1, <2>5, <3>2, SettlesTwice, srv \in BOOLEAN
  <2>7. Keeps(u, shutdown(u, id, "RD")) /\ shutdown(u, id, "RD") \in SessionType(srv)
    BY <1>1, <2>5, EndsKeep
  <2>8. Settles(s, shutdown(u, id, "RD"), {}, Takes(f), Nothing)
    BY <1>1, <2>5, <2>6, <2>7, SettlesThen
  <2> QED
    BY <2>2, <2>6, <2>8 DEF r
<1> QED
  BY <1>6, <1>7, <1>8

-----------------------------------------------------------------------------
(***************************************************************************)
(* Frames that are sent.                                                   *)
(***************************************************************************)
LEMMA SoundSame ==
    ASSUME NEW srv \in BOOLEAN, NEW s, Sound(srv, s), NEW t \in SessionType(srv),
           t.streams = s.streams,
           t.num_outgoing_streams = s.num_outgoing_streams,
           t.num_incoming_streams = s.num_incoming_streams,
           t.num_incoming_reserved_streams = s.num_incoming_reserved_streams
    PROVE  Sound(srv, t)
<1>1. t.server = srv /\ s.server = srv
  BY FieldTypes DEF Sound
<1>2. \A j \in StreamIds : /\ Active(t, j) <=> Active(s, j)
                           /\ is_my_stream_id(t, j) <=> is_my_stream_id(s, j)
  BY <1>1 DEF Active, is_my_stream_id
<1>3. PushOK(srv, t)
  BY <1>2 DEF PushOK, Sound
<1>4. /\ {j \in StreamIds : Outgoing(t, j)} = {j \in StreamIds : Outgoing(s, j)}
      /\ {j \in StreamIds : Incoming(t, j)} = {j \in StreamIds : Incoming(s, j)}
      /\ {j \in StreamIds : ReservedRemote(t, j)} = {j \in StreamIds : ReservedRemote(s, j)}
  BY <1>2 DEF Outgoing, Incoming, ReservedRemote
<1> QED
  BY <1>3, <1>4 DEF CountersMatch, Sound

\* The stream of a request is open when its HEADERS are sent, and closed when
\* they are dropped.
LEMMA RequestSentSettles ==
    ASSUME NEW srv \in BOOLEAN, NEW s, SessionInv(srv, s), NEW f \in Requests,
           ~srv, s.streams[f.id].state = "IDLE", NEW u, u = open_stream(s, f.id, "INITIAL"),
           SessionInv(srv, u), u.streams[f.id].push = FALSE
    PROVE  /\ Settles(s, headers_sent(u, f), {f.id}, Nothing, Nothing)
           /\ Settles(s, close_stream(u, f.id), {f.id}, Nothing, Nothing)
           /\ ~Active(close_stream(u, f.id), f.id)
           /\ headers_sent(u, f).streams[f.id].state # "IDLE"
<1> DEFINE id == f.id
           a == [u.streams[id] EXCEPT !.state = "OPENING", !.push = FALSE]
           w == [u EXCEPT !.streams[id] = a, !.last_sent_stream_id = id]
<1>1. /\ s \in SessionType(srv) /\ u \in SessionType(srv) /\ Sound(srv, u)
      /\ id \in StreamIds /\ id \in Nat /\ f.size = 0 /\ f.cat = "REQUEST" /\ id % 2 = 1
  <2>1. id \in StreamIds /\ f.size = 0 /\ f.cat = "REQUEST" /\ id % 2 = 1
    BY DEF Requests
  <2> QED
    BY <2>1, IdsFinite DEF SessionInv, Sound
<1>2. Begins(s, u, id) /\ u.streams[id].state = "INITIAL"
      /\ u.last_recv_stream_id = s.last_recv_stream_id
  BY <1>1, OpenStreamBegins
<1>3. /\ a \in StreamType /\ a.state = "OPENING" /\ a.push = FALSE
      /\ SameStreamWindows(u.streams[id], a)
  <2>1. u.streams[id] \in StreamType
    BY <1>1, StreamTypes
  <2> QED
    BY <2>1 DEF StreamType, SameStreamWindows
<1>4. SessionInv(srv, w) /\ w \in SessionType(srv)
  <2>1. Active(u, id)
    BY <1>2 DEF Active
  <2> HIDE DEF a, id
  <2>2. Sound(srv, w) /\ Advances(u, w)
    BY <1>1, <1>2, <1>3, <2>1, StateChanged DEF id
  <2> HIDE DEF w
  <2> QED
    BY <2>2, AdvancesMoves DEF Moves, Sound
<1>5. w = [u EXCEPT !.streams[id].state = "OPENING", !.streams[id].push = FALSE,
                    !.num_outgoing_streams = u.num_outgoing_streams,
                    !.last_sent_stream_id = id]
  <2>1. [u EXCEPT !.streams[id] = a, !.num_outgoing_streams = u.num_outgoing_streams,
                  !.last_sent_stream_id = id]
          = [u EXCEPT !.streams[id].state = "OPENING", !.streams[id].push = FALSE,
                      !.num_outgoing_streams = u.num_outgoing_streams,
                      !.last_sent_stream_id = id]
    BY <1>1, FieldTypes, ZenonT(40) DEF SessionType
  <2> HIDE DEF a
  <2> QED
    BY <1>1, <2>1 DEF SessionType
<1>6. headers_sent(u, f) = shutdown(w, id, "WR")
  <2> HIDE DEF w
  <2> QED
    BY <1>1, <1>5 DEF headers_sent
<1>7. Begins(s, w, id) /\ w.streams[id].state = "OPENING"
  <2>1. /\ w.ob_reg = u.ob_reg /\ w.goaway_flags = u.goaway_flags
        /\ w.recv_window_size = u.recv_window_size
        /\ w.remote_window_size = u.remote_window_size
        /\ w.remote_initial_window = u.remote_initial_window
        /\ w.local_initial_window = u.local_initial_window
        /\ w.last_recv_stream_id = u.last_recv_stream_id
        /\ w.streams = [u.streams EXCEPT ![id] = a]
    <3> HIDE DEF a, id
    <3> QED
      BY <1>1 DEF SessionType
  <2> HIDE DEF w
  <2>2. w.streams[id] = a /\ \A k \in StreamIds : k # id => w.streams[k] = u.streams[k]
    <3> HIDE DEF a, id
    <3> QED
      BY <1>1, <2>1, FieldTypes
  <2> HIDE DEF a, id
  <2> QED
    BY <1>2, <1>3, <2>1, <2>2 DEF Begins, SameStreamWindows
<1> HIDE DEF w, a
<1>8. Settles(s, w, {id}, Nothing, Nothing)
  BY <1>1, <1>4, <1>7, StreamBegins
<1>9. Settles(s, u, {id}, Nothing, Nothing)
  BY <1>1, <1>2, StreamBegins
<1>10. /\ Keeps(w, shutdown(w, id, "WR")) /\ shutdown(w, id, "WR") \in SessionType(srv)
       /\ Keeps(u, close_stream(u, id)) /\ close_stream(u, id) \in SessionType(srv)
       /\ ~Active(close_stream(u, id), id)
  BY <1>1, <1>4, EndsKeep, CloseStreamKeeps
<1>11. Settles(s, shutdown(w, id, "WR"), {id}, Nothing, Nothing)
  BY <1>1, <1>4, <1>8, <1>10, SettlesThen
<1>12. Settles(s, close_stream(u, id), {id}, Nothing, Nothing)
  BY <1>1, <1>9, <1>10, SettlesThen
<1>13. shutdown(w, id, "WR").streams[id].state # "IDLE"
  BY <1>1, <1>7, <1>10 DEF Keeps, Settles, Lives
<1> QED
  BY <1>6, <1>10, <1>11, <1>12, <1>13

LEMMA ResponseSentKeeps ==
    ASSUME NEW srv \in BOOLEAN, NEW s, SessionInv(srv, s), NEW f \in Responses, MaySend(s, f)
    PROVE  Keeps(s, headers_sent(s, f))
<1>1. s \in SessionType(srv) /\ Sound(srv, s)
  BY DEF SessionInv, Sound
<1>2. /\ f.id \in StreamIds /\ f.id \in Nat /\ f.size \in Nat
      /\ f.cat = "HEADERS" /\ f.type = "HEADERS"
  BY IdsFinite DEF Responses
<1>3. /\ Active(s, f.id) /\ "WR" \notin s.streams[f.id].shut
      /\ s.streams[f.id].state \in {"RESERVED", "OPENING", "OPENED"}
  BY <1>2 DEF MaySend, predicate_for_stream_send
<1> DEFINE push == s.streams[f.id].push
           a == [s.streams[f.id] EXCEPT !.state = "OPENED", !.push = FALSE]
           n == IF push THEN s.num_outgoing_streams + 1 ELSE s.num_outgoing_streams
           t == [s EXCEPT !.streams[f.id].state = "OPENED",
                          !.streams[f.id].push = FALSE,
                          !.num_outgoing_streams = n,
                          !.last_sent_stream_id = s.last_sent_stream_id]
           u == [s EXCEPT !.streams[f.id] = a, !.num_outgoing_streams = n]
<1>4. /\ a \in StreamType /\ a.state = "OPENED" /\ a.push = FALSE
      /\ SameStreamWindows(s.streams[f.id], a)
  <2>1. s.streams[f.id] \in StreamType
    BY <1>1, <1>2, StreamTypes
  <2> QED
    BY <2>1 DEF StreamType, SameStreamWindows
<1>5. push \in BOOLEAN /\ (push => Mine(srv, f.id)) /\ n \in Int
  <2>1. push \in BOOLEAN /\ (push => Mine(srv, f.id))
    BY <1>1, <1>2, <1>3, StreamTypes DEF Sound, PushOK
  <2> QED
    BY <1>1, <2>1, FieldTypes
<1>6. t = u
  <2>1. [s EXCEPT !.streams[f.id] = a, !.num_outgoing_streams = n,
                  !.last_sent_stream_id = s.last_sent_stream_id] = t
    BY <1>1, <1>2, FieldTypes, ZenonT(40) DEF SessionType
  <2> HIDE DEF a, n, t
  <2> QED
    BY <1>1, <2>1 DEF SessionType
<1>7. Sound(srv, u)
  <2>1. ASSUME push = TRUE PROVE Sound(srv, u)
    <3> HIDE DEF a
    <3>1. n = s.num_outgoing_streams + 1
      BY <2>1
    <3> HIDE DEF n
    <3> QED
      BY <1>1, <1>2, <1>3, <1>4, <1>5, <2>1, <3>1, PromiseSent
  <2>2. ASSUME push = FALSE PROVE Sound(srv, u)
    <3> DEFINE w == [s EXCEPT !.streams[f.id] = a,
                              !.last_sent_stream_id = s.last_sent_stream_id]
    <3>1. Sound(srv, w)
      <4> HIDE DEF a
      <4> QED
        BY <1>1, <1>2, <1>3, <1>4, <2>2, StateChanged, FieldTypes
    <3>2. n = s.num_outgoing_streams
      BY <2>2
    <3>3. w = u
      <4> HIDE DEF a, n
      <4> QED
        BY <1>1, <3>2 DEF SessionType
    <3> HIDE DEF u, w
    <3> QED
      BY <3>1, <3>3
  <2> QED
    BY <1>5, <2>1, <2>2
<1>8. GoesOn(s, u, f.id)
  <2> HIDE DEF a, n
  <2>1. /\ u.ob_reg = s.ob_reg /\ u.goaway_flags = s.goaway_flags
        /\ u.recv_window_size = s.recv_window_size
        /\ u.remote_window_size = s.remote_window_size
        /\ u.remote_initial_window = s.remote_initial_window
        /\ u.local_initial_window = s.local_initial_window
        /\ u.last_recv_stream_id = s.last_recv_stream_id
        /\ u.streams = [s.streams EXCEPT ![f.id] = a]
    BY <1>1 DEF SessionType
  <2> HIDE DEF u
  <2>2. u.streams[f.id] = a /\ \A k \in StreamIds : k # f.id => u.streams[k] = s.streams[k]
    BY <1>1, <1>2, <2>1, FieldTypes
  <2> QED
    BY <1>3, <1>4, <2>1, <2>2 DEF GoesOn, Live
<1>9. headers_sent(s, f) = IF f.size = 0 THEN shutdown(t, f.id, "WR")
                           ELSE [t EXCEPT !.streams[f.id].item = f.size]
  BY <1>2 DEF headers_sent
<1> HIDE DEF t, u
<1>10. Keeps(s, u) /\ u \in SessionType(srv)
  BY <1>1, <1>2, <1>7, <1>8, GoesOnKeeps DEF Sound
<1>11. Keeps(s, shutdown(u, f.id, "WR"))
  BY <1>1, <1>2, <1>7, <1>10, ShutdownKeeps, KeepsTwice DEF Sound
<1> DEFINE b == [u.streams[f.id] EXCEPT !.item = f.size]
           v == [u EXCEPT !.streams[f.id] = b]
<1>12. Keeps(s, v)
  <2>1. u.streams[f.id] \in StreamType
    BY <1>2, <1>10, StreamTypes
  <2>2. b \in StreamType /\ SameLife(u.streams[f.id], b)
        /\ SameStreamWindows(u.streams[f.id], b)
    BY <1>2, <2>1 DEF StreamType, SameLife, SameStreamWindows
  <2> HIDE DEF b
  <2>3. v \in SessionType(srv) /\ Calm(u, v)
    BY <1>2, <1>10, <2>2, StreamLives
  <2>4. Keeps(u, v)
    BY <1>2, <1>10, <2>2, <2>3, StreamKeeps
  <2> HIDE DEF v
  <2> QED
    BY <1>1, <1>10, <2>3, <2>4, KeepsTwice
<1> QED
  BY <1>6, <1>9, <1>11, <1>12

LEMMA GoawaySentKeeps ==
    ASSUME NEW srv \in BOOLEAN, NEW s, SessionInv(srv, s), NEW f \in Goaways, GoawayOK(s, f)
    PROVE  Keeps(s, goaway_sent(s, f))
<1> DEFINE t == [s EXCEPT !.goaway_flags = s.goaway_flags \cup {"TERM_SENT", "SENT"},
                          !.local_last_stream_id = f.last]
           ids == {id \in StreamIds : id > f.last /\ is_my_stream_id(t, id) = ~TRUE}
<1>1. s \in SessionType(srv) /\ f.last \in Nat /\ "TERM_ON_SEND" \in s.goaway_flags
      /\ Sound(srv, s)
  BY DEF SessionInv, Sound, Goaways, GoawayOK
<1>2. t \in SessionType(srv)
  <2>1. s.goaway_flags \cup {"TERM_SENT", "SENT"}
          \in SUBSET {"TERM_ON_SEND", "TERM_SENT", "SENT", "RECV"}
    BY <1>1, FieldTypes
  <2> QED
    BY <1>1, <2>1 DEF SessionType
<1>3. /\ t.streams = s.streams /\ t.ob_reg = s.ob_reg
      /\ t.goaway_flags = s.goaway_flags \cup {"TERM_SENT", "SENT"}
      /\ t.last_recv_stream_id = s.last_recv_stream_id
      /\ t.num_outgoing_streams = s.num_outgoing_streams
      /\ t.num_incoming_streams = s.num_incoming_streams
      /\ t.num_incoming_reserved_streams = s.num_incoming_reserved_streams
      /\ t.recv_window_size = s.recv_window_size
      /\ t.remote_window_size = s.remote_window_size
      /\ t.remote_initial_window = s.remote_initial_window
      /\ t.local_initial_window = s.local_initial_window
  BY <1>1 DEF SessionType
<1>4. goaway_sent(s, f) = close_streams(t, ids)
  BY DEF goaway_sent, close_stream_on_goaway
<1> HIDE DEF t
<1>5. Sound(srv, t)
  BY <1>1, <1>2, <1>3, SoundSame
<1>6. Lives(s, t, {}) /\ SameWindows(s, t)
  <2>1. s.last_recv_stream_id <= t.last_recv_stream_id
    BY <1>1, <1>3, FieldTypes
  <2> QED
    BY <1>1, <1>3, <2>1 DEF Lives, Live, SameWindows
<1>7. Keeps(s, t)
  BY <1>1, <1>2, <1>6, Unmoved
<1>9. ids \in SUBSET StreamIds
  OBVIOUS
<1> HIDE DEF ids
<1>10. Keeps(t, close_streams(t, ids)) /\ close_streams(t, ids) \in SessionType(srv)
  BY <1>5, <1>9, CloseStreamsKeeps DEF Sound
<1> QED
  BY <1>1, <1>2, <1>4, <1>7, <1>10, KeepsTwice

LEMMA PromiseGoesKeeps ==
    ASSUME NEW srv \in BOOLEAN, NEW s, SessionInv(srv, s), NEW id \in StreamIds
    PROVE  Keeps(s, [s EXCEPT !.last_sent_stream_id = id])
<1> DEFINE t == [s EXCEPT !.last_sent_stream_id = id]
<1>1. s \in SessionType(srv) /\ t \in SessionType(srv)
  BY IdsFinite DEF SessionInv, Sound, SessionType
<1>2. t.streams = s.streams /\ t.ob_reg = s.ob_reg
      /\ t.last_recv_stream_id = s.last_recv_stream_id
      /\ t.goaway_flags = s.goaway_flags
      /\ t.recv_window_size = s.recv_window_size
      /\ t.remote_window_size = s.remote_window_size
      /\ t.remote_initial_window = s.remote_initial_window
      /\ t.local_initial_window = s.local_initial_window
  BY <1>1 DEF SessionType
<1> HIDE DEF t
<1>3. Lives(s, t, {}) /\ SameWindows(s, t)
  <2>1. s.last_recv_stream_id <= t.last_recv_stream_id
    BY <1>1, <1>2, FieldTypes
  <2> QED
    BY <1>1, <1>2, <2>1 DEF Lives, Live, SameWindows
<1> QED
  BY <1>1, <1>3, Unmoved DEF t

\* A frame of a queue, other than a request, is sent or dropped.
LEMMA FrameSentKeeps ==
    ASSUME NEW srv \in BOOLEAN, NEW s, SessionInv(srv, s),
           NEW f \in Frames(srv) \ (DataFrames \cup Requests), GoawayOK(s, f)
    PROVE  /\ MaySend(s, f) => Keeps(s, after_frame_sent(s, f))
           /\ ~MaySend(s, f) => Keeps(s, not_sent(s, f))
<1>1. s \in SessionType(srv) /\ Keeps(s, s)
  BY KeepsSelf DEF SessionInv, Sound
<1>3. CASE f \in Responses
  <2>1. f.type = "HEADERS" /\ f.cat # "REQUEST" /\ f.id \in StreamIds
    BY <1>3 DEF Responses
  <2> QED
    BY <1>3, <2>1, ResponseSentKeeps, EndsKeep DEF after_frame_sent, not_sent
<1>4. CASE f \in Promises
  <2>1. f.type = "PUSH_PROMISE" /\ f.promised \in StreamIds
    BY <1>4 DEF Promises
  <2> QED
    BY <2>1, PromiseGoesKeeps, EndsKeep DEF after_frame_sent, not_sent
<1>5. CASE f \in Resets
  <2>1. f.type = "RST_STREAM" /\ f.id \in StreamIds
    BY <1>5 DEF Resets
  <2> QED
    BY <1>1, <2>1, EndsKeep DEF after_frame_sent, not_sent
<1>6. CASE f \in Updates
  <2>1. f.type = "WINDOW_UPDATE"
    BY <1>6 DEF Updates
  <2>2. Keeps(s, window_update_sent(s, f))
    BY <1>1, <1>6, WindowUpdateSentKeeps
  <2> QED
    BY <1>1, <2>1, <2>2 DEF after_frame_sent, not_sent
<1>7. CASE f \in SettingsFrames
  <2>1. f.type = "SETTINGS"
    BY <1>7 DEF SettingsFrames
  <2> QED
    BY <1>1, <2>1 DEF after_frame_sent, not_sent
<1>8. CASE f \in Acks
  <2>1. f.type = "ACK"
    BY <1>8 DEF Acks
  <2> QED
    BY <1>1, <2>1 DEF after_frame_sent, not_sent
<1>9. CASE f \in Goaways
  <2>1. f.type = "GOAWAY"
    BY <1>9 DEF Goaways
  <2> QED
    BY <1>1, <1>9, <2>1, GoawaySentKeeps DEF after_frame_sent, not_sent
<1> QED
  BY <1>3, <1>4, <1>5, <1>6, <1>7, <1>8, <1>9 DEF Frames, Regular

-----------------------------------------------------------------------------
(***************************************************************************)
(* DATA that is sent, and bodies that cannot be read.                      *)
(***************************************************************************)
LEMMA DataSentSettles ==
    ASSUME NEW srv \in BOOLEAN, NEW s, SessionInv(srv, s), NEW id \in StreamIds,
           NEW f, f = NextData(s, id), f.length > 0
    PROVE  /\ f \in DataFrames /\ f.id = id
           /\ Settles(s, data_sent(s, f), {}, Nothing, Minus(Takes(f)))
<1> DEFINE stream == s.streams[id]
           n == f.length
           a == [stream EXCEPT !.remote_window_size = stream.remote_window_size - n,
                               !.item = stream.item - n]
           t == [s EXCEPT !.remote_window_size = s.remote_window_size - n,
                          !.streams[id] = a]
<1>1. s \in SessionType(srv) /\ stream \in StreamType /\ s.remote_window_size \in Int
      /\ stream.remote_window_size \in Int /\ stream.item \in Nat /\ Sound(srv, s)
  BY FieldTypes, StreamTypes DEF SessionInv, Sound
<1>2. f.id = id /\ f.type = "DATA" /\ n \in Nat /\ n <= stream.item /\ f \in DataFrames
  <2> DEFINE m == Min2(Min2(stream.item, MaxFrameSize),
                       Min2(stream.remote_window_size, s.remote_window_size))
  <2>1. f = [type |-> "DATA", id |-> id, length |-> m, end |-> m = stream.item]
    BY DEF NextData, Data
  <2>2. m \in Int /\ m <= stream.item
    BY <1>1, SizeAssumption DEF Min2
  <2>3. f.length > 0
    OBVIOUS
  <2> HIDE DEF m
  <2>4. f.length = m /\ f.id = id /\ f.type = "DATA" /\ (m = stream.item) \in BOOLEAN
    BY <2>1
  <2>5. m \in Nat
    BY <2>2, <2>3, <2>4
  <2>6. f \in DataFrames
    BY <2>1, <2>4, <2>5 DEF DataFrames
  <2> QED
    BY <2>2, <2>4, <2>5, <2>6
<1>3. stream.item - n \in Nat /\ stream.remote_window_size - n \in Int
      /\ s.remote_window_size - n \in Int
  BY <1>1, <1>2
<1>4. a \in StreamType /\ SameLife(stream, a) /\ a.recv_window_size = stream.recv_window_size
      /\ a.local_window_size = stream.local_window_size
      /\ a.remote_window_size = stream.remote_window_size - n
  <2>1. a \in StreamType /\ SameLife(stream, a)
    BY <1>1, <1>3, WindowFields, WindowFieldsOnly
  <2> QED
    BY <1>1, <2>1 DEF StreamType
<1>5. data_sent(s, f) = IF f.end THEN shutdown(t, id, "WR") ELSE t
  <2>1. t = [s EXCEPT !.remote_window_size = @ - n,
                      !.streams[id].remote_window_size = @ - n,
                      !.streams[id].item = @ - n]
    <3> DEFINE b == [stream EXCEPT !.remote_window_size = @ - n, !.item = @ - n]
               v == [s EXCEPT !.remote_window_size = @ - n, !.streams[id] = b]
    <3>1. b = a
      BY <1>1 DEF StreamType
    <3>2. v = t
      <4> HIDE DEF a, b
      <4> QED
        BY <3>1
    <3>3. v = [s EXCEPT !.remote_window_size = @ - n,
                        !.streams[id].remote_window_size = @ - n,
                        !.streams[id].item = @ - n]
      BY <1>1, FieldTypes, ZenonT(40) DEF SessionType
    <3> QED
      BY <3>2, <3>3
  <2> HIDE DEF t
  <2> QED
    BY <1>2, <2>1 DEF data_sent
<1>6. /\ t \in SessionType(srv)
      /\ t.ob_reg = s.ob_reg /\ t.goaway_flags = s.goaway_flags
      /\ t.last_recv_stream_id = s.last_recv_stream_id
      /\ t.recv_window_size = s.recv_window_size
      /\ t.remote_window_size = s.remote_window_size - n
      /\ t.remote_initial_window = s.remote_initial_window
      /\ t.local_initial_window = s.local_initial_window
      /\ t.num_outgoing_streams = s.num_outgoing_streams
      /\ t.num_incoming_streams = s.num_incoming_streams
      /\ t.num_incoming_reserved_streams = s.num_incoming_reserved_streams
      /\ t.server = s.server
      /\ t.streams = [s.streams EXCEPT ![id] = a]
  <2> HIDE DEF a
  <2> QED
    BY <1>1, <1>3, <1>4 DEF SessionType
<1> HIDE DEF t
<1>7. t.streams[id] = a /\ \A k \in StreamIds : k # id => t.streams[k] = s.streams[k]
  BY <1>1, <1>6, FieldTypes
<1> HIDE DEF a
<1>8. Sound(srv, t)
  <2> DEFINE u == [s EXCEPT !.streams[id] = a]
  <2>1. u \in SessionType(srv) /\ Calm(s, u)
    BY <1>1, <1>4, StreamLives
  <2>2. Sound(srv, u)
    BY <1>1, <2>1, CalmSound
  <2>3. /\ t.streams = u.streams
        /\ t.num_outgoing_streams = u.num_outgoing_streams
        /\ t.num_incoming_streams = u.num_incoming_streams
        /\ t.num_incoming_reserved_streams = u.num_incoming_reserved_streams
    BY <1>1, <1>6 DEF SessionType
  <2> HIDE DEF u
  <2> QED
    BY <1>6, <2>2, <2>3, SoundSame
<1>9. Settles(s, t, {}, Nothing, Minus(Takes(f)))
  <2>0. t.streams[id].state = s.streams[id].state
    BY <1>4, <1>7 DEF SameLife
  <2>1. Lives(s, t, {})
    <3>1. s.last_recv_stream_id <= t.last_recv_stream_id
      BY <1>1, <1>6, FieldTypes
    <3>2. \A k \in StreamIds : t.streams[k].state = s.streams[k].state
      BY <1>7, <2>0
    <3> QED
      BY <1>6, <3>1, <3>2 DEF Lives, Live
  <2>2. Aligned(s) => Aligned(t)
    <3>1. \A k \in StreamIds : /\ t.streams[k].local_window_size = s.streams[k].local_window_size
                               /\ Active(t, k) <=> Active(s, k)
      BY <1>4, <1>7, <2>0 DEF Active
    <3> QED
      BY <1>6, <3>1 DEF Aligned
  <2>3. ASSUME NEW k \in Levels
        PROVE  Kept(s, t, k, 0) /\ Granted(s, t, k, Minus(Takes(f))[k])
    <3>1. Level(s, k) \in Nat /\ Sendable(s, k) \in Int /\ (k = 0 \/ k \in StreamIds)
      BY <1>1, LevelTypes DEF Levels
    <3>2. Level(t, k) = Level(s, k)
      BY <1>4, <1>6, <1>7, <3>1 DEF Level, Held
    <3>3. Idle(s, k) <=> Idle(t, k)
      BY <1>7, <2>0 DEF Idle
    <3>4. Minus(Takes(f))[k] = IF k = 0 \/ k = id THEN -n ELSE 0
      <4>1. f \in AllFrames
        BY <1>2 DEF AllFrames, Frames
      <4>2. Takes(f)[k] = IF k = 0 \/ id = k THEN n ELSE 0
        BY <1>2, <4>1, FrameValue DEF Takes
      <4>3. Minus(Takes(f))[k] = -(Takes(f)[k])
        BY DEF Minus
      <4> QED
        BY <1>2, <4>2, <4>3
    <3>5. 0 \notin StreamIds
      BY DEF StreamIds
    <3>6. Sendable(t, k) = Sendable(s, k) + Minus(Takes(f))[k]
      <4>1. s.remote_initial_window \in Int /\ InitialWindow \in Int
        BY <1>1, FieldTypes, SizeAssumption
      <4>2. CASE k = 0
        BY <1>1, <1>2, <1>6, <3>4, <4>1, <4>2 DEF Sendable
      <4>3. CASE k = id
        BY <1>1, <1>2, <1>4, <1>6, <1>7, <3>4, <3>5, <4>1, <4>3 DEF Sendable
      <4>4. CASE k # 0 /\ k # id
        <5>1. Sendable(t, k) = Sendable(s, k) /\ Minus(Takes(f))[k] = 0
          BY <1>6, <1>7, <3>1, <3>4, <4>4 DEF Sendable
        <5> QED
          BY <3>1, <5>1
      <4> QED
        BY <4>2, <4>3, <4>4
    <3> QED
      BY <3>1, <3>2, <3>3, <3>6 DEF Kept, Granted
  <2> QED
    BY <2>1, <2>2, <2>3 DEF Settles, Nothing
<1>10. Settles(s, shutdown(t, id, "WR"), {}, Nothing, Minus(Takes(f)))
  <2>1. Keeps(t, shutdown(t, id, "WR")) /\ shutdown(t, id, "WR") \in SessionType(srv)
    BY <1>8, ShutdownKeeps DEF Sound
  <2> QED
    BY <1>1, <1>6, <1>9, <2>1, SettlesThen
<1> QED
  BY <1>2, <1>5, <1>9, <1>10

LEMMA ReadFailsKeeps ==
    ASSUME NEW srv \in BOOLEAN, NEW s, SessionInv(srv, s), NEW id \in StreamIds
    PROVE  /\ Keeps(s, detach_item(s, id)) /\ Keeps(s, defer_item(s, id))
           /\ Keeps(s, add_rst_stream(detach_item(s, id), id))
<1> DEFINE t == detach_item(s, id)
<1>1. s \in SessionType(srv) /\ t \in SessionType(srv) /\ Keeps(s, t)
      /\ Keeps(s, defer_item(s, id))
  BY ItemKeeps DEF SessionInv, Sound
<1>2. SessionInv(srv, t)
  BY ReadFailed DEF Moves
<1> HIDE DEF t
<1>3. Keeps(t, add_rst_stream(t, id)) /\ add_rst_stream(t, id) \in SessionType(srv)
  BY <1>2, EndsKeep
<1>4. Keeps(s, add_rst_stream(t, id))
  BY <1>1, <1>3, KeepsTwice
<1> QED
  BY <1>1, <1>4 DEF t

LEMMA ResetReceivedKeeps ==
    ASSUME NEW srv \in BOOLEAN, NEW s, SessionInv(srv, s), NEW f, f.id \in StreamIds
    PROVE  Keeps(s, on_rst_stream_received(s, f))
BY EndsKeep DEF on_rst_stream_received
-----------------------------------------------------------------------------
(***************************************************************************)
(* A frame is received.                                                    *)
(***************************************************************************)
\* The streams a frame may begin, and what it does to the windows.
BegunBy(srv, s, f) ==
    {k \in StreamIds :
       \/ srv /\ f.type = "HEADERS" /\ k = f.id
       \/ /\ ~srv /\ f.type = "PUSH_PROMISE" /\ k = f.promised
          /\ s.last_recv_stream_id < k /\ f.id \in StreamIds /\ Active(s, f.id)}

Accepts(srv, s, f, t) ==
    \E X \in SUBSET BegunBy(srv, s, f) :
        /\ Lives(s, t, X)
        /\ X = {} \/ ~srv => StaysShut(s, t)
        /\ Aligned(s) => Aligned(t)
        /\ \A k \in Levels : Kept(s, t, k, Takes(f)[k])
        /\ (f.type = "WINDOW_UPDATE" => UpdateExpected(srv, s, f)) =>
              \A k \in Levels : Granted(s, t, k, Gives(f)[k])

LEMMA SettlesAccepts ==
    ASSUME NEW srv \in BOOLEAN, NEW s, NEW f, NEW t, NEW X \in SUBSET BegunBy(srv, s, f),
           Settles(s, t, X, Takes(f), Gives(f))
    PROVE  Accepts(srv, s, f, t)
<1>1. X = {} \/ ~srv => StaysShut(s, t)
  <2>1. CASE X = {}
    BY <2>1, StillShut DEF Settles
  <2>2. CASE X # {} /\ ~srv
    <3>1. Active(s, f.id) /\ f.id \in StreamIds
      BY <2>2 DEF BegunBy
    <3> QED
      BY <3>1 DEF StaysShut
  <2> QED
    BY <2>1, <2>2
<1> QED
  BY <1>1 DEF Accepts, Settles

LEMMA KeepsAccepts ==
    ASSUME NEW srv \in BOOLEAN, NEW s, NEW f \in AllFrames, NEW t, NEW X,
           Settles(s, t, X, Nothing, Nothing), X \subseteq BegunBy(srv, s, f),
           f.type \notin {"DATA", "WINDOW_UPDATE"}
    PROVE  Accepts(srv, s, f, t)
<1>1. Takes(f) = Nothing /\ Gives(f) = Nothing
  BY GivesNat
<1> QED
  BY <1>1, SettlesAccepts

\* An update the session does not expect ends it.
LEMMA UpdateUnexpected ==
    ASSUME NEW srv \in BOOLEAN, NEW s, SessionInv(srv, s), NEW f \in Updates,
           ~UpdateExpected(srv, s, f)
    PROVE  on_window_update_received(s, f) = terminate_session(s)
<1>1. f.id \in StreamIds /\ f.id # 0 /\ f.id \in Nat /\ s \in SessionType(srv)
      /\ s.last_sent_stream_id \in Nat
  <2>1. f.id \in StreamIds /\ f.id # 0
    BY DEF UpdateExpected, Updates
  <2>2. s \in SessionType(srv)
    BY DEF SessionInv, Sound
  <2> QED
    BY <2>1, <2>2, IdsFinite, FieldTypes
<1>2. CASE s.streams[f.id].state = "RESERVED" /\ ~Mine(srv, f.id)
  <2>1. ~is_my_stream_id(s, f.id) /\ Active(s, f.id)
    BY <1>1, <1>2, MineIs DEF Active
  <2> QED
    BY <1>1, <1>2, <2>1 DEF on_window_update_received
<1>3. CASE Mine(srv, f.id) /\ ~(f.id <= s.last_sent_stream_id)
  <2>1. is_my_stream_id(s, f.id)
    BY <1>1, <1>3, MineIs
  <2>2. detect_idle_stream(s, f.id)
    BY <1>1, <1>3, <2>1 DEF detect_idle_stream
  <2> QED
    BY <1>1, <2>2 DEF on_window_update_received
<1> QED
  BY <1>1, <1>2, <1>3 DEF UpdateExpected

LEMMA FrameReceivedAccepts ==
    ASSUME NEW srv \in BOOLEAN, NEW s, SessionInv(srv, s), NEW f \in Frames(~srv)
    PROVE  Accepts(srv, s, f, receive(s, f))
<1>1. s \in SessionType(srv) /\ f \in AllFrames
  BY IsFrame DEF SessionInv, Sound
<1>2. CASE f \in Requests /\ srv
  <2>1. f.type = "HEADERS" /\ f.id \in StreamIds /\ ~Mine(srv, f.id)
    BY <1>2, IdsFinite DEF Requests, Mine
  <2>2. Settles(s, process_headers_frame(s, f), {f.id}, Nothing, Nothing)
    BY <1>2, <2>1, HeadersReceivedSettles
  <2>3. {f.id} \subseteq BegunBy(srv, s, f) /\ receive(s, f) = process_headers_frame(s, f)
    BY <1>2, <2>1 DEF BegunBy, receive
  <2> QED
    BY <1>1, <2>1, <2>2, <2>3, KeepsAccepts
<1>3. CASE f \in Responses /\ ~srv
  <2>1. f.type = "HEADERS" /\ f.id \in StreamIds
    BY <1>3 DEF Responses
  <2>2. Settles(s, process_headers_frame(s, f), {}, Nothing, Nothing)
    BY <1>3, <2>1, HeadersReceivedSettles
  <2>3. receive(s, f) = process_headers_frame(s, f)
    BY <2>1 DEF receive
  <2>4. {} \subseteq BegunBy(srv, s, f) /\ f.type \notin {"DATA", "WINDOW_UPDATE"}
    BY <2>1
  <2> QED
    BY <1>1, <2>2, <2>3, <2>4, KeepsAccepts
<1>4. CASE f \in Promises
  <2> DEFINE t == on_push_promise_received(s, f)
  <2>1. f.type = "PUSH_PROMISE" /\ f.id \in StreamIds /\ f.promised \in StreamIds
    BY <1>4 DEF Promises
  <2>2. receive(s, f) = t
    BY <2>1 DEF receive
  <2>3. \/ Keeps(s, t)
        \/ /\ Settles(s, t, {f.promised}, Nothing, Nothing)
           /\ ~srv /\ s.last_recv_stream_id < f.promised /\ Active(s, f.id)
    BY <1>4, PromiseReceivedSettles
  <2> HIDE DEF t
  <2>4. CASE Keeps(s, t)
    BY <1>1, <2>1, <2>2, <2>4, KeepsAccepts DEF Keeps
  <2>5. CASE /\ Settles(s, t, {f.promised}, Nothing, Nothing)
             /\ ~srv /\ s.last_recv_stream_id < f.promised /\ Active(s, f.id)
    <3>1. {f.promised} \subseteq BegunBy(srv, s, f)
      BY <2>1, <2>5 DEF BegunBy
    <3> QED
      BY <1>1, <2>1, <2>2, <2>5, <3>1, KeepsAccepts
  <2> QED
    BY <2>3, <2>4, <2>5
<1>5. ASSUME NEW t, Keeps(s, t), receive(s, f) = t, f.type \notin {"DATA", "WINDOW_UPDATE"}
      PROVE  Accepts(srv, s, f, receive(s, f))
  BY <1>1, <1>5, KeepsAccepts DEF Keeps
<1>6. CASE f \in Resets
  <2>1. f.type = "RST_STREAM" /\ f.id \in StreamIds
    BY <1>6 DEF Resets
  <2> QED
    BY <1>5, <2>1, ResetReceivedKeeps DEF receive
<1>7. CASE f \in DataFrames
  <2>1. f.type = "DATA"
    BY <1>7 DEF DataFrames
  <2>2. Settles(s, on_data_received(s, f), {}, Takes(f), Gives(f))
    BY <1>1, <1>7, <2>1, DataReceivedSettles, GivesNat
  <2>3. receive(s, f) = on_data_received(s, f)
    BY <2>1 DEF receive
  <2> QED
    BY <2>2, <2>3, SettlesAccepts
<1>8. CASE f \in Updates
  <2>1. f.type = "WINDOW_UPDATE"
    BY <1>8 DEF Updates
  <2>2. receive(s, f) = on_window_update_received(s, f)
    BY <2>1 DEF receive
  <2>3. CASE UpdateExpected(srv, s, f)
    <3>1. Settles(s, on_window_update_received(s, f), {}, Takes(f), Gives(f))
      BY <1>1, <1>8, <2>1, <2>3, UpdateReceivedSettles, GivesNat
    <3> QED
      BY <2>2, <3>1, SettlesAccepts
  <2>4. CASE ~UpdateExpected(srv, s, f)
    <3>1. Keeps(s, receive(s, f))
      BY <1>1, <1>8, <2>2, <2>4, UpdateUnexpected, TerminateKeeps
    <3>2. Takes(f) = Nothing
      BY <1>1, <2>1, GivesNat
    <3>3. StaysShut(s, receive(s, f))
      BY <3>1, StillShut DEF Keeps, Settles
    <3> QED
      BY <2>1, <2>4, <3>1, <3>2, <3>3 DEF Accepts, Keeps, Settles
  <2> QED
    BY <2>3, <2>4
<1>9. CASE f \in SettingsFrames
  <2>1. f.type = "SETTINGS"
    BY <1>9 DEF SettingsFrames
  <2> QED
    BY <1>1, <1>5, <1>9, <2>1, SettingsReceivedKeeps DEF receive
<1>10. CASE f \in Acks
  <2>1. f.type = "ACK"
    BY <1>10 DEF Acks
  <2> QED
    BY <1>1, <1>5, <2>1, AckKeeps DEF receive
<1>11. CASE f \in Goaways
  <2>1. f.type = "GOAWAY"
    BY <1>11 DEF Goaways
  <2> QED
    BY <1>5, <1>11, <2>1, GoawayReceivedKeeps DEF receive
<1> QED
  BY <1>2, <1>3, <1>4, <1>6, <1>7, <1>8, <1>9, <1>10, <1>11 DEF Frames, Regular

\* DATA of a promise that has not arrived ends the session.
LEMMA DataUnexpected ==
    ASSUME NEW srv \in BOOLEAN, NEW s, SessionInv(srv, s), NEW f \in DataFrames,
           ~Mine(srv, f.id), s.last_recv_stream_id < f.id
    PROVE  "TERM_ON_SEND" \in receive(s, f).goaway_flags
<1> DEFINE t == terminate_session(s)
<1>1. s \in SessionType(srv) /\ f.id \in Nat /\ f.length \in Nat /\ f.type = "DATA"
  BY IdsFinite DEF SessionInv, Sound, DataFrames
<1>2. detect_idle_stream(s, f.id)
  BY <1>1, MineIs DEF detect_idle_stream
<1>3. receive(s, f) = update_recv_connection_window_size(t, f.length)
  BY <1>1, <1>2 DEF receive, on_data_received, data_not_allowed, ignore_data
<1>4. t \in SessionType(srv) /\ "TERM_ON_SEND" \in t.goaway_flags
  BY <1>1, TerminateKeeps
<1> HIDE DEF t
<1>5. t.goaway_flags \subseteq update_recv_connection_window_size(t, f.length).goaway_flags
  BY <1>1, <1>4, UpdateConnectionSettles DEF Settles, Lives
<1> QED
  BY <1>3, <1>4, <1>5

-----------------------------------------------------------------------------
(***************************************************************************)
(* A frame is taken from a queue, and sent or dropped.                     *)
(***************************************************************************)
\* Only streams of one's own begin.
OwnStep(srv, s, t) ==
    /\ \E X \in SUBSET {k \in StreamIds : Mine(srv, k)} : Lives(s, t, X)
    /\ ~srv => StaysShut(s, t)
    /\ Aligned(s) => Aligned(t)

EvenReserved(s) == \A k \in StreamIds : s.streams[k].state = "RESERVED" => k % 2 = 0

\* The step of a session that puts a frame on the wire, and one that puts
\* none: the update it drops, if any, is for a stream that is lost, or for one
\* that has not begun.
Sends(srv, s, f, t) ==
    /\ OwnStep(srv, s, t)
    /\ \A k \in Levels : /\ Kept(s, t, k, Minus(Gives(f))[k])
                         /\ Granted(s, t, k, Minus(Takes(f))[k])
                         /\ Gives(f)[k] <= Credit(s.ob_reg, k)
    /\ ~srv /\ f.type = "HEADERS" => t.streams[f.id].state # "IDLE"
    /\ f.type = "PUSH_PROMISE" => f.promised <= t.last_sent_stream_id
    /\ f.type = "DATA" => ~Idle(s, f.id)

Stays(srv, s, t) ==
    /\ OwnStep(srv, s, t)
    /\ ~srv /\ EvenReserved(s) /\ ~is_closing(t) => \A k \in Levels : Kept(s, t, k, 0)
    /\ \A k \in Levels : Granted(s, t, k, 0)

LEMMA SettlesOwn ==
    ASSUME NEW srv \in BOOLEAN, NEW s, NEW t, NEW g, NEW d, Settles(s, t, {}, g, d)
    PROVE  OwnStep(srv, s, t)
<1>1. Lives(s, t, {}) /\ StaysShut(s, t) /\ (Aligned(s) => Aligned(t))
  BY StillShut DEF Settles
<1>2. {} \in SUBSET {k \in StreamIds : Mine(srv, k)}
  OBVIOUS
<1> QED
  BY <1>1, <1>2 DEF OwnStep

LEMMA KeepsStays ==
    ASSUME NEW srv \in BOOLEAN, NEW s, NEW t, Keeps(s, t)
    PROVE  Stays(srv, s, t)
<1>1. OwnStep(srv, s, t)
  BY SettlesOwn DEF Keeps
<1> QED
  BY <1>1 DEF Stays, Keeps, Settles, Nothing

\* A frame that is no request, taken from any of the queues.
LEMMA FrameSends ==
    ASSUME NEW srv \in BOOLEAN, NEW s \in SessionType(srv), NEW r, SessionInv(srv, r),
           NEW f \in Frames(srv) \ (DataFrames \cup Requests), GoawayOK(r, f),
           PromiseIsNext(r, f), Settles(s, r, {}, Minus(Gives(f)), Nothing),
           \A k \in Levels : Gives(f)[k] <= Credit(s.ob_reg, k)
    PROVE  /\ MaySend(r, f) => Sends(srv, s, f, after_frame_sent(r, f))
           /\ ~MaySend(r, f) => Stays(srv, s, not_sent(r, f))
<1>1. r \in SessionType(srv) /\ f \in AllFrames /\ f.type # "DATA"
      /\ (srv \/ f.type # "HEADERS")
  BY IsFrame DEF SessionInv, Sound, Frames, Regular, Requests, Responses, Promises, Resets,
     Updates, Goaways, SettingsFrames, Acks
<1>2. CASE MaySend(r, f)
  <2> DEFINE t == after_frame_sent(r, f)
  <2>1. Keeps(r, t) /\ t \in SessionType(srv)
    BY <1>2, FrameSentKeeps, FrameSent DEF Moves, SessionInv, Sound
  <2>2. f.type = "PUSH_PROMISE" => f.promised <= t.last_sent_stream_id
    <3>1. ASSUME f.type = "PUSH_PROMISE" PROVE f.promised <= t.last_sent_stream_id
      <4>1. f \in Promises
        BY <3>1 DEF Frames, Regular, Requests, Responses, Resets, Updates, Goaways,
                    SettingsFrames, Acks, DataFrames
      <4>2. f.promised \in Nat
        BY <4>1, IdsFinite DEF Promises
      <4>3. t.last_sent_stream_id = f.promised
        BY <1>1, <3>1 DEF after_frame_sent, SessionType
      <4> QED
        BY <4>2, <4>3
    <3> QED
      BY <3>1
  <2> HIDE DEF t
  <2>3. Settles(s, t, {}, Minus(Gives(f)), Nothing)
    BY <1>1, <2>1, SettlesThen
  <2>4. Minus(Takes(f)) = Nothing
    BY <1>1, GivesNat
  <2>5. OwnStep(srv, s, t)
    BY <2>3, SettlesOwn
  <2>6. Sends(srv, s, f, t)
    BY <1>1, <2>2, <2>3, <2>4, <2>5 DEF Sends, Settles
  <2> QED
    BY <1>2, <2>6 DEF t
<1>3. CASE ~MaySend(r, f)
  <2> DEFINE t == not_sent(r, f)
  <2>1. Keeps(r, t) /\ t \in SessionType(srv)
    BY <1>3, FrameSentKeeps, FrameSent DEF Moves, SessionInv, Sound
  <2>2. f.type = "WINDOW_UPDATE" => t = r
    BY DEF not_sent
  <2> HIDE DEF t
  <2>3. Settles(s, t, {}, Minus(Gives(f)), Nothing)
    BY <1>1, <2>1, SettlesThen
  <2>4. OwnStep(srv, s, t)
    BY <2>3, SettlesOwn
  <2>5. \A k \in Levels : Granted(s, t, k, 0)
    BY <2>3 DEF Settles, Nothing
  <2>6. ASSUME ~srv, EvenReserved(s), ~is_closing(t), NEW k \in Levels
        PROVE  Kept(s, t, k, 0)
    <3>1. CASE f.type # "WINDOW_UPDATE"
      <4>1. Minus(Gives(f)) = Nothing
        BY <1>1, <3>1, GivesNat
      <4> QED
        BY <2>3, <4>1 DEF Settles, Nothing
    <3>2. CASE f.type = "WINDOW_UPDATE"
      <4>1. /\ f.id # 0
            /\ \/ ~Active(r, f.id)
               \/ r.streams[f.id].state = "CLOSING"
               \/ r.streams[f.id].state = "RESERVED" /\ is_my_stream_id(r, f.id)
        BY <1>3, <2>2, <2>6, <3>2 DEF MaySend
      <4>2. f.id \in StreamIds /\ f.id \in Nat /\ f.id \in Levels
        <5>1. f \in Updates
          BY <3>2 DEF Frames, Regular, Requests, Responses, Promises, Resets, Goaways,
                      SettingsFrames, Acks, DataFrames
        <5>2. f.id \in StreamIds
          BY <4>1, <5>1 DEF Updates
        <5> QED
          BY <5>2, IdsFinite DEF Levels
      <4>3. Kept(s, t, k, Minus(Gives(f))[k])
        BY <2>3 DEF Settles
      <4>4. Minus(Gives(f))[k] = 0 - (IF f.id = k THEN f.increment ELSE 0)
        <5>1. Gives(f)[k] = IF f.id = k THEN f.increment ELSE 0
          BY <1>1, <3>2, FrameValue DEF Gives
        <5> QED
          BY <1>1, <5>1, GivesNat DEF Minus
      <4>5. CASE k # f.id
        BY <4>3, <4>4, <4>5
      <4>6. CASE k = f.id
        <5>1. CASE Active(r, k) /\ r.streams[k].state # "CLOSING"
          <6>1. r.streams[k].state = "RESERVED" /\ is_my_stream_id(r, k)
            BY <4>1, <4>6, <5>1
          <6>2. s.streams[k].state = "RESERVED" \/ k % 2 = 0
            BY <2>2, <2>3, <3>2, <4>2, <4>6, <6>1 DEF Settles, Lives
          <6> QED
            BY <1>1, <4>2, <4>6, <6>1, <6>2, <2>6, MineIs DEF EvenReserved, Mine
        <5>2. CASE r.streams[k].state \in {"CLOSING", "CLOSED"}
          <6>1. Lost(t, k)
            BY <2>2, <3>2, <4>2, <4>6, <5>2 DEF Lost
          <6> QED
            BY <6>1 DEF Kept
        <5>3. CASE r.streams[k].state = "IDLE"
          <6>1. Idle(s, k)
            BY <2>2, <2>3, <3>2, <4>2, <4>6, <5>3 DEF Settles, Lives, Idle
          <6> QED
            BY <4>3, <6>1 DEF Kept
        <5> QED
          BY <5>1, <5>2, <5>3 DEF Active
      <4> QED
        BY <4>5, <4>6
    <3> QED
      BY <3>1, <3>2
  <2>7. Stays(srv, s, t)
    BY <2>4, <2>5, <2>6 DEF Stays
  <2> QED
    BY <1>3, <2>7 DEF t
<1> QED
  BY <1>2, <1>3

\* The three queues.
LEMMA UrgentSends ==
    ASSUME NEW srv \in BOOLEAN, NEW s, SessionInv(srv, s), s.ob_urgent # <<>>,
           NEW f, f = Head(s.ob_urgent),
           NEW r, r = prepare([s EXCEPT !.ob_urgent = Tail(s.ob_urgent)], f)
    PROVE  /\ f \in Frames(srv)
           /\ MaySend(r, f) => Sends(srv, s, f, after_frame_sent(r, f))
           /\ ~MaySend(r, f) => Stays(srv, s, not_sent(r, f))
<1> DEFINE q == [s EXCEPT !.ob_urgent = Tail(s.ob_urgent)]
<1>1. Moves(srv, s, q) /\ f \in SettingsFrames \cup Acks /\ Keeps(s, q)
  BY UrgentTaken, TakenKeeps
<1> HIDE DEF q
<1>2. f.type \in {"SETTINGS", "ACK"}
  BY <1>1 DEF SettingsFrames, Acks
<1>3. r = q
  BY <1>2 DEF prepare, q
<1>4. f \in Frames(srv) \ (DataFrames \cup Requests) /\ GoawayOK(r, f) /\ PromiseIsNext(r, f)
  BY <1>1, <1>2 DEF Frames, DataFrames, Requests, GoawayOK, PromiseIsNext
<1>5. s \in SessionType(srv) /\ SessionInv(srv, r) /\ f \in AllFrames
  BY <1>1, <1>3, <1>4, IsFrame DEF SessionInv, Sound, Moves
<1>6. Settles(s, r, {}, Minus(Gives(f)), Nothing)
  BY <1>1, <1>2, <1>3, <1>5, GivesNat DEF Keeps
<1>7. \A k \in Levels : Gives(f)[k] <= Credit(s.ob_reg, k)
  <2>1. \A k \in Levels : Gives(f)[k] = 0 /\ Credit(s.ob_reg, k) \in Nat
    BY <1>2, <1>5, GivesNat, LevelTypes DEF Nothing
  <2> QED
    BY <2>1
<1> QED
  BY <1>4, <1>5, <1>6, <1>7, FrameSends

LEMMA SynSends ==
    ASSUME NEW srv \in BOOLEAN, NEW s, SessionInv(srv, s), s.ob_syn # <<>>,
           NEW f, f = Head(s.ob_syn),
           NEW r, r = prepare([s EXCEPT !.ob_syn = Tail(s.ob_syn)], f)
    PROVE  /\ f \in Frames(srv)
           /\ MaySend(r, f) => Sends(srv, s, f, after_frame_sent(r, f))
           /\ ~MaySend(r, f) => Stays(srv, s, not_sent(r, f))
<1> DEFINE q == [s EXCEPT !.ob_syn = Tail(s.ob_syn)]
<1>1. Moves(srv, s, q) /\ f \in Resets /\ Keeps(s, q)
  BY SynTaken, TakenKeeps
<1> HIDE DEF q
<1>2. f.type = "RST_STREAM"
  BY <1>1 DEF Resets
<1>3. r = q
  BY <1>2 DEF prepare, q
<1>4. f \in Frames(srv) \ (DataFrames \cup Requests) /\ GoawayOK(r, f) /\ PromiseIsNext(r, f)
  BY <1>1, <1>2 DEF Frames, DataFrames, Requests, GoawayOK, PromiseIsNext
<1>5. s \in SessionType(srv) /\ SessionInv(srv, r) /\ f \in AllFrames
  BY <1>1, <1>3, <1>4, IsFrame DEF SessionInv, Sound, Moves
<1>6. Settles(s, r, {}, Minus(Gives(f)), Nothing)
  BY <1>1, <1>2, <1>3, <1>5, GivesNat DEF Keeps
<1>7. \A k \in Levels : Gives(f)[k] <= Credit(s.ob_reg, k)
  <2>1. \A k \in Levels : Gives(f)[k] = 0 /\ Credit(s.ob_reg, k) \in Nat
    BY <1>2, <1>5, GivesNat, LevelTypes DEF Nothing
  <2> QED
    BY <2>1
<1> QED
  BY <1>4, <1>5, <1>6, <1>7, FrameSends

LEMMA RegularSends ==
    ASSUME NEW srv \in BOOLEAN, NEW s, SessionInv(srv, s), s.ob_reg # <<>>,
           NEW f, f = Head(s.ob_reg),
           NEW r, r = prepare([s EXCEPT !.ob_reg = Tail(s.ob_reg)], f)
    PROVE  /\ f \in Frames(srv)
           /\ MaySend(r, f) => Sends(srv, s, f, after_frame_sent(r, f))
           /\ ~MaySend(r, f) => Stays(srv, s, not_sent(r, f))
<1> DEFINE q == [s EXCEPT !.ob_reg = Tail(s.ob_reg)]
<1>1. /\ Moves(srv, s, q)
      /\ f \in Regular(srv)
      /\ GoawayOK(q, f)
      /\ ~srv /\ f.type = "HEADERS" =>
           /\ f.id < q.next_stream_id
           /\ q.streams[f.id].state = "IDLE"
           /\ \A i \in 1 .. Len(q.ob_reg) :
                q.ob_reg[i].type = "HEADERS" => q.ob_reg[i].id # f.id
      /\ srv /\ f.type = "PUSH_PROMISE" => PromiseIsNext(q, f)
  BY RegularTaken DEF PromiseIsNext
<1>2. Settles(s, q, {}, Minus(Gives(f)), Nothing)
  BY RegularTakenSettles
<1>3. /\ f \in Frames(srv) \ DataFrames /\ f \in AllFrames /\ s \in SessionType(srv)
      /\ SessionInv(srv, q) /\ q \in SessionType(srv)
  BY <1>1, IsFrame
     DEF Frames, DataFrames, Regular, Requests, Responses, Promises, Updates, Goaways,
         SessionInv, Sound, Moves
<1>4. r = prepare(q, f)
  OBVIOUS
<1>5. \A k \in Levels : Gives(f)[k] <= Credit(s.ob_reg, k)
  <2> SUFFICES ASSUME NEW k \in Levels PROVE Gives(f)[k] <= Credit(s.ob_reg, k)
    OBVIOUS
  <2>1. /\ Credit(s.ob_reg, k) = Increments(k)[f] + Credit(Tail(s.ob_reg), k)
        /\ Increments(k)[f] \in Nat /\ Credit(Tail(s.ob_reg), k) \in Nat
    BY <1>3, LevelTypes, CreditTail
  <2> QED
    BY <2>1 DEF Gives
<1> HIDE DEF q
<1>6. CASE f \in Requests
  <2>1. /\ f.id \in StreamIds /\ Mine(srv, f.id) /\ ~srv
        /\ f.type = "HEADERS" /\ f.cat = "REQUEST"
    BY <1>1, <1>6 DEF Requests, Mine, Regular, Responses, Promises, Updates, Goaways
  <2>2. r = open_stream(q, f.id, "INITIAL")
    BY <1>4, <2>1 DEF prepare
  <2>3. /\ f.id < q.next_stream_id /\ q.streams[f.id].state = "IDLE"
        /\ \A i \in 1 .. Len(q.ob_reg) : q.ob_reg[i].type = "HEADERS" => q.ob_reg[i].id # f.id
    BY <1>1, <2>1
  <2>4. SessionInv(srv, r) /\ r.streams[f.id].push = FALSE
        /\ r.streams[f.id].state = "INITIAL"
    <3> DEFINE w == open_stream(q, f.id, "INITIAL")
    <3>1. /\ Moves(srv, q, w)
          /\ w.streams[f.id].state = "INITIAL" /\ w.streams[f.id].push = FALSE
      BY <1>3, <2>1, <2>3, RequestPrepared
    <3>2. r = w
      BY <2>2
    <3> HIDE DEF w
    <3> QED
      BY <3>1, <3>2 DEF Moves
  <2>5. /\ Settles(q, headers_sent(r, f), {f.id}, Nothing, Nothing)
        /\ Settles(q, close_stream(r, f.id), {f.id}, Nothing, Nothing)
        /\ ~Active(close_stream(r, f.id), f.id)
        /\ headers_sent(r, f).streams[f.id].state # "IDLE"
    BY <1>3, <1>6, <2>1, <2>2, <2>3, <2>4, RequestSentSettles
  <2>6. /\ headers_sent(r, f) \in SessionType(srv)
        /\ close_stream(r, f.id) \in SessionType(srv)
    BY <1>6, <2>1, <2>4, RequestSent, EndsMove DEF Moves, SessionInv, Sound
  <2>7. Keeps(s, q) /\ Minus(Gives(f)) = Nothing /\ Minus(Takes(f)) = Nothing
    BY <1>2, <1>3, <2>1, GivesNat DEF Keeps
  <2>8. \A k \in Levels : Nothing[k] \in Int
    BY DEF Nothing
  <2>9. r.goaway_flags = s.goaway_flags
    <3>1. r.goaway_flags = q.goaway_flags
      BY <1>3, <2>1, <2>2, OpenStreamBegins DEF Begins
    <3>2. q.goaway_flags = s.goaway_flags
      BY <1>3 DEF q, SessionType
    <3> QED
      BY <3>1, <3>2
  <2>10. {f.id} \in SUBSET {k \in StreamIds : Mine(srv, k)}
    BY <2>1
  <2>11. CASE MaySend(r, f)
    <3> DEFINE t == headers_sent(r, f)
    <3>1. t = after_frame_sent(r, f)
      BY <2>1 DEF after_frame_sent
    <3> HIDE DEF t
    <3>2. Settles(s, t, {f.id}, Nothing, Nothing)
      BY <1>3, <2>5, <2>6, <2>7, <2>8, ThenSettles DEF t
    <3>3. "RECV" \notin s.goaway_flags
      BY <2>1, <2>9, <2>11 DEF MaySend
    <3>4. OwnStep(srv, s, t)
      BY <2>10, <3>2, <3>3 DEF OwnStep, Settles, StaysShut
    <3>5. Sends(srv, s, f, t)
      BY <1>5, <2>1, <2>5, <2>7, <3>2, <3>4 DEF Sends, Settles, t
    <3> QED
      BY <1>3, <2>11, <3>1, <3>5
  <2>12. CASE ~MaySend(r, f)
    <3> DEFINE t == close_stream(r, f.id)
    <3>1. t = not_sent(r, f)
      BY <2>1 DEF not_sent
    <3> HIDE DEF t
    <3>2. Settles(s, t, {f.id}, Nothing, Nothing)
      BY <1>3, <2>5, <2>6, <2>7, <2>8, ThenSettles DEF t
    <3>3. StaysShut(s, t)
      <4>1. Lives(s, t, {f.id}) /\ ~Active(t, f.id)
        BY <2>5, <3>2 DEF Settles, t
      <4>2. \A k \in StreamIds : Active(t, k) => Active(s, k)
        BY <4>1 DEF Lives, Active
      <4> QED
        BY <4>2 DEF StaysShut
    <3>4. OwnStep(srv, s, t)
      BY <2>10, <3>2, <3>3 DEF OwnStep, Settles
    <3>5. Stays(srv, s, t)
      BY <3>2, <3>4 DEF Stays, Settles, Nothing
    <3> QED
      BY <1>3, <2>12, <3>1, <3>5
  <2> QED
    BY <2>11, <2>12
<1>7. CASE f \notin Requests
  <2>1. ~(f.type = "HEADERS" /\ f.cat = "REQUEST")
    BY <1>1, <1>7 DEF Regular, Responses, Promises, Updates, Goaways
  <2>2. r = q
    BY <1>4, <2>1 DEF prepare
  <2>3. PromiseIsNext(r, f)
    <3>1. f.type = "PUSH_PROMISE" => srv
      BY <1>1 DEF Regular, Requests, Updates, Goaways
    <3> QED
      BY <1>1, <2>2, <3>1 DEF PromiseIsNext
  <2> QED
    BY <1>1, <1>2, <1>3, <1>5, <1>7, <2>2, <2>3, FrameSends
<1> QED
  BY <1>6, <1>7

\* DATA whose turn it is.
LEMMA DataSends ==
    ASSUME NEW srv \in BOOLEAN, NEW s, SessionInv(srv, s), NEW id \in DataQueued(s),
           NEW f, f = NextData(s, id), f.length > 0
    PROVE  f \in Frames(srv) /\ Sends(srv, s, f, data_sent(s, f))
<1> DEFINE t == data_sent(s, f)
<1>1. id \in StreamIds /\ Active(s, id) /\ s \in SessionType(srv)
  BY DEF DataQueued, ActiveStreams, SessionInv, Sound
<1>2. f \in DataFrames /\ f.id = id /\ Settles(s, t, {}, Nothing, Minus(Takes(f)))
  BY <1>1, DataSentSettles
<1> HIDE DEF t
<1>3. f \in Frames(srv) /\ f.type = "DATA" /\ f \in AllFrames
  BY <1>2, IsFrame DEF Frames, DataFrames
<1>4. Gives(f) = Nothing /\ Minus(Gives(f)) = Nothing
  BY <1>3, GivesNat
<1>5. \A k \in Levels : Gives(f)[k] <= Credit(s.ob_reg, k)
  <2>1. \A k \in Levels : Gives(f)[k] = 0 /\ Credit(s.ob_reg, k) \in Nat
    BY <1>1, <1>4, LevelTypes DEF Nothing
  <2> QED
    BY <2>1
<1>6. ~Idle(s, f.id)
  BY <1>1, <1>2 DEF Idle, Active
<1>7. OwnStep(srv, s, t)
  BY <1>2, SettlesOwn
<1>8. Sends(srv, s, f, t)
  BY <1>2, <1>3, <1>4, <1>5, <1>6, <1>7 DEF Sends, Settles
<1> QED
  BY <1>3, <1>8 DEF t

\* A promise that is submitted begins a stream, and nothing is on the wire.
LEMMA PromiseStays ==
    ASSUME NEW srv \in BOOLEAN, srv, NEW s, SessionInv(srv, s), NEW id \in StreamIds,
           s.next_stream_id \in StreamIds
    PROVE  Stays(srv, s, submit_push_promise(s, id))
<1> DEFINE t == submit_push_promise(s, id)
<1>1. Settles(s, t, {s.next_stream_id}, Nothing, Nothing)
  BY PromiseSubmittedSettles
<1>2. {s.next_stream_id} \in SUBSET {k \in StreamIds : Mine(srv, k)}
  BY DEF SessionInv, Fresh
<1> HIDE DEF t
<1>3. Stays(srv, s, t)
  BY <1>1, <1>2 DEF Stays, OwnStep, Settles, Nothing
<1> QED
  BY <1>3 DEF t

-----------------------------------------------------------------------------
(***************************************************************************)
(* Both sessions and the frames between them: c and s are the sessions of  *)
(* client and server, v and w the frames they have sent.                   *)
(***************************************************************************)
Members(q) == {q[i] : i \in 1 .. Len(q)}

\* What the client has counted or gives back, and what is to be as much as
\* the server has sent.
Back(c, v, k) == Level(c, k) + Credit(v, k)
Balance(c, s, v, w, k) == Sendable(s, k) + Payload(w, k) + Back(c, v, k)

\* The client may still get a frame of the stream that counts.
Waiting(c, k) ==
    \/ c.streams[k].state \in Live
    \/ c.streams[k].state = "IDLE" /\ k % 2 = 0 /\ c.last_recv_stream_id < k

\* A session that has sent a GOAWAY had decided to end.
FlagsOK(c) == c.goaway_flags \cap {"SENT", "TERM_SENT"} # {} => "TERM_ON_SEND" \in c.goaway_flags

\* Which streams have begun on which side.
IdsOK(c, s, v, w) ==
    /\ \A k \in StreamIds : k % 2 = 1 /\ Idle(c, k) => Idle(s, k)
    /\ \A k \in StreamIds : k % 2 = 0 /\ ~Idle(c, k) => k <= s.last_sent_stream_id
    /\ \A f \in Members(v) : f.type = "HEADERS" => ~Idle(c, f.id)
    /\ \A f \in Members(w) : f.type = "PUSH_PROMISE" => f.promised <= s.last_sent_stream_id
    /\ EvenReserved(c) /\ EvenReserved(s)

\* No unit is lost, of the connection or of a stream; and where a side has
\* not begun a stream there is nothing on its way.
WindowsOK(c, s, v, w) ==
    /\ Aligned(c)
    /\ Balance(c, s, v, w, 0) = 0
    /\ \A k \in StreamIds :
         /\ Idle(c, k) => Back(c, v, k) = 0
         /\ Idle(s, k) => Payload(w, k) = 0 /\ (~Lost(c, k) => Back(c, v, k) = 0)
         /\ s.streams[k].state \in Live /\ Waiting(c, k) => Balance(c, s, v, w, k) = 0

\* What a step adds to the one side is what it takes from the wire.
Due(v, v2, w, w2, k) == Payload(w, k) - Payload(w2, k) + Credit(v, k) - Credit(v2, k)

ClientMoves(c, c2, v, v2, w, w2) ==
    /\ \E X : /\ Lives(c, c2, X)
              /\ \A k \in X : k % 2 = 0 =>
                   /\ c.last_recv_stream_id < k
                   /\ \E f \in Members(w) : f.type = "PUSH_PROMISE" /\ f.promised = k
    /\ StaysShut(c, c2)
    /\ Aligned(c) => Aligned(c2)
    /\ \A f \in Members(v2) : f \in Members(v) \/ (f.type = "HEADERS" => ~Idle(c2, f.id))
    /\ Members(w2) \subseteq Members(w)

ClientTrades(c, c2, v, v2, w, w2) ==
    \A k \in Levels :
        /\ Kept(c, c2, k, Due(v, v2, w, w2, k))
        /\ Credit(v2, k) <= Credit(v, k) + Credit(c.ob_reg, k)
        /\ Payload(w2, k) <= Payload(w, k)
        /\ Idle(c, k) /\ k % 2 = 0 /\ c.last_recv_stream_id < k =>
              Payload(w2, k) = Payload(w, k)

ServerMoves(c, s, s2, v, v2, w, w2) ==
    /\ \E X : Lives(s, s2, X) /\ \A k \in X : k % 2 = 0 \/ ~Idle(c, k)
    /\ s.last_sent_stream_id <= s2.last_sent_stream_id
    /\ Members(v2) \subseteq Members(v)
    /\ \A f \in Members(w2) :
         f \in Members(w) \/ (f.type = "PUSH_PROMISE" => f.promised <= s2.last_sent_stream_id)

ServerTrades(s, s2, v, v2, w, w2) ==
    \A k \in Levels :
        /\ Granted(s, s2, k, Due(v, v2, w, w2, k))
        /\ Credit(v2, k) <= Credit(v, k)
        /\ Idle(s, k) => Payload(w2, k) <= Payload(w, k)

Numbers(c, s, v, w) ==
    \A k \in Levels :
        /\ Credit(c.ob_reg, k) \in Nat /\ Held(c, k) \in Nat /\ Level(c, k) \in Nat
        /\ Sendable(s, k) \in Int /\ Credit(v, k) \in Nat /\ Payload(w, k) \in Nat

LEMMA NumbersType ==
    ASSUME NEW a \in BOOLEAN, NEW b \in BOOLEAN,
           NEW c \in SessionType(a), NEW s \in SessionType(b),
           NEW v \in Seq(AllFrames), NEW w \in Seq(AllFrames)
    PROVE  Numbers(c, s, v, w)
BY LevelTypes, CreditNat DEF Numbers

LEMMA StreamLevels ==
    /\ 0 \in Levels /\ 0 \notin StreamIds /\ StreamIds \subseteq Levels
    /\ \A k \in StreamIds : k \in Nat /\ (k % 2 = 0 \/ k % 2 = 1)
BY IdsFinite DEF Levels, StreamIds

\* A client that is not closing was not closing before.
LEMMA ClosingStays ==
    ASSUME NEW c, NEW d, NEW X, FlagsOK(c), Lives(c, d, X), StaysShut(c, d), is_closing(c)
    PROVE  is_closing(d)
<1>1. c.goaway_flags \subseteq d.goaway_flags
  BY DEF Lives
<1>2. CASE "TERM_ON_SEND" \in c.goaway_flags
  BY <1>1, <1>2 DEF is_closing
<1>3. CASE "TERM_ON_SEND" \notin c.goaway_flags
  <2>1. ~want_read(c) /\ c.goaway_flags \cap {"SENT", "TERM_SENT"} = {}
    BY <1>3 DEF is_closing, FlagsOK
  <2>2. "RECV" \in c.goaway_flags /\ ActiveStreams(c) = {}
    BY <2>1 DEF want_read
  <2>3. ActiveStreams(d) = {} /\ "RECV" \in d.goaway_flags
    BY <1>1, <2>2 DEF StaysShut, ActiveStreams
  <2>4. ~want_read(d) /\ ~want_write(d)
    BY <2>3 DEF want_read, want_write
  <2> QED
    BY <2>4 DEF is_closing
<1> QED
  BY <1>2, <1>3

LEMMA FlagsStayOK ==
    ASSUME NEW c, NEW d, NEW X, FlagsOK(c), Lives(c, d, X)
    PROVE  FlagsOK(d)
BY DEF FlagsOK, Lives

\* A step of the client, and what it leaves of the ids.
LEMMA ClientIds ==
    ASSUME NEW c, NEW d, NEW s, NEW v, NEW v2, NEW w, NEW w2,
           IdsOK(c, s, v, w), ClientMoves(c, d, v, v2, w, w2)
    PROVE  IdsOK(d, s, v2, w2)
<1>1. PICK X : /\ Lives(c, d, X)
               /\ \A k \in X : k % 2 = 0 =>
                    /\ c.last_recv_stream_id < k
                    /\ \E f \in Members(w) : f.type = "PUSH_PROMISE" /\ f.promised = k
  BY DEF ClientMoves
<1>2. \A k \in StreamIds : Idle(d, k) => Idle(c, k)
  BY <1>1 DEF Lives, Idle
<1>3. ASSUME NEW k \in StreamIds, k % 2 = 0, ~Idle(d, k)
      PROVE  k <= s.last_sent_stream_id
  <2>1. CASE Idle(c, k)
    <3>1. k \in X
      BY <1>1, <1>3, <2>1 DEF Lives, Idle
    <3>2. PICK f \in Members(w) : f.type = "PUSH_PROMISE" /\ f.promised = k
      BY <1>1, <1>3, <3>1
    <3> QED
      BY <3>2 DEF IdsOK
  <2>2. CASE ~Idle(c, k)
    BY <1>3, <2>2 DEF IdsOK
  <2> QED
    BY <2>1, <2>2
<1>4. ASSUME NEW f \in Members(v2), f.type = "HEADERS"
      PROVE  ~Idle(d, f.id)
  <2>1. CASE f \in Members(v)
    <3>1. ~Idle(c, f.id)
      BY <1>4, <2>1 DEF IdsOK
    <3> QED
      BY <1>2, <3>1 DEF Idle
  <2> QED
    BY <1>4, <2>1 DEF ClientMoves
<1>5. EvenReserved(d)
  BY <1>1 DEF EvenReserved, Lives, IdsOK
<1>6. Members(w2) \subseteq Members(w)
  BY DEF ClientMoves
<1> QED
  BY <1>2, <1>3, <1>4, <1>5, <1>6 DEF IdsOK

LEMMA ServerIds ==
    ASSUME NEW c, NEW s, NEW t, NEW v, NEW v2, NEW w, NEW w2,
           s.last_sent_stream_id \in Nat, t.last_sent_stream_id \in Nat,
           \A f \in Members(w) : f.type = "PUSH_PROMISE" => f.promised \in Nat,
           IdsOK(c, s, v, w), ServerMoves(c, s, t, v, v2, w, w2)
    PROVE  IdsOK(c, t, v2, w2)
<1>1. PICK X : Lives(s, t, X) /\ \A k \in X : k % 2 = 0 \/ ~Idle(c, k)
  BY DEF ServerMoves
<1>2. s.last_sent_stream_id <= t.last_sent_stream_id
  BY DEF ServerMoves
<1>3. ASSUME NEW k \in StreamIds, k % 2 = 1, Idle(c, k) PROVE Idle(t, k)
  <2>1. Idle(s, k)
    BY <1>3 DEF IdsOK
  <2>2. k \notin X
    BY <1>1, <1>3
  <2> QED
    BY <1>1, <2>1, <2>2 DEF Lives, Idle
<1>4. ASSUME NEW k \in StreamIds, k % 2 = 0, ~Idle(c, k) PROVE k <= t.last_sent_stream_id
  <2>1. k <= s.last_sent_stream_id /\ k \in Nat
    BY <1>4, StreamLevels DEF IdsOK
  <2> QED
    BY <1>2, <2>1
<1>5. ASSUME NEW f \in Members(w2), f.type = "PUSH_PROMISE"
      PROVE  f.promised <= t.last_sent_stream_id
  <2>1. CASE f \in Members(w)
    <3>1. f.promised <= s.last_sent_stream_id /\ f.promised \in Nat
      BY <1>5, <2>1 DEF IdsOK
    <3> QED
      BY <1>2, <3>1
  <2> QED
    BY <1>5, <2>1 DEF ServerMoves
<1>6. EvenReserved(t)
  BY <1>1 DEF EvenReserved, Lives, IdsOK
<1>7. Members(v2) \subseteq Members(v)
  BY DEF ServerMoves
<1> QED
  BY <1>3, <1>4, <1>5, <1>6, <1>7 DEF IdsOK

\* A step of the client, and what it leaves of the windows.
LEMMA ClientWindows ==
    ASSUME NEW c, NEW d, NEW s, NEW v, NEW v2, NEW w, NEW w2,
           Numbers(c, s, v, w), Numbers(d, s, v2, w2),
           c.last_recv_stream_id \in Nat, d.last_recv_stream_id \in Nat,
           IdsOK(c, s, v, w), WindowsOK(c, s, v, w),
           ClientMoves(c, d, v, v2, w, w2), ClientTrades(c, d, v, v2, w, w2),
           "TERM_ON_SEND" \notin d.goaway_flags
    PROVE  WindowsOK(d, s, v2, w2)
<1>1. PICK X : /\ Lives(c, d, X)
               /\ \A k \in X : k % 2 = 0 => c.last_recv_stream_id < k
  BY DEF ClientMoves
<1> DEFINE due(k) == Due(v, v2, w, w2, k)
<1>2. ASSUME NEW k \in Levels
      PROVE  /\ Level(c, k) \in Nat /\ Level(d, k) \in Nat /\ Sendable(s, k) \in Int
             /\ Credit(v, k) \in Nat /\ Credit(v2, k) \in Nat
             /\ Payload(w, k) \in Nat /\ Payload(w2, k) \in Nat
             /\ Credit(c.ob_reg, k) <= Level(c, k) /\ Credit(c.ob_reg, k) \in Nat
             /\ due(k) = Payload(w, k) - Payload(w2, k) + Credit(v, k) - Credit(v2, k)
             /\ Kept(c, d, k, due(k))
             /\ Credit(v2, k) <= Credit(v, k) + Credit(c.ob_reg, k)
             /\ Payload(w2, k) <= Payload(w, k)
             /\ Idle(c, k) /\ k % 2 = 0 /\ c.last_recv_stream_id < k =>
                   Payload(w2, k) = Payload(w, k)
  <2>1. Credit(c.ob_reg, k) \in Nat /\ Held(c, k) \in Nat
    BY DEF Numbers
  <2>2. Credit(c.ob_reg, k) <= Level(c, k)
    BY <2>1 DEF Level
  <2>3. due(k) = Payload(w, k) - Payload(w2, k) + Credit(v, k) - Credit(v2, k)
    BY DEF Due
  <2> QED
    BY <2>1, <2>2, <2>3 DEF Numbers, ClientTrades
<1> HIDE DEF due
<1>3. ASSUME NEW k \in Levels, Back(c, v, k) = 0
      PROVE  Level(c, k) = 0 /\ Credit(v, k) = 0 /\ Credit(v2, k) = 0
  BY <1>2, <1>3 DEF Back
<1>4. ASSUME NEW k \in Levels, Back(c, v, k) = 0, Idle(c, k), ~Lost(d, k)
      PROVE  Back(d, v2, k) = 0
  BY <1>2, <1>3, <1>4 DEF Back, Kept
<1>5. ASSUME NEW k \in Levels, ~Idle(c, k), ~Lost(d, k)
      PROVE  Level(d, k) = Level(c, k) + due(k)
  BY <1>2, <1>5 DEF Kept
<1>6. ASSUME NEW k \in Levels, ~Idle(c, k), ~Lost(d, k), Balance(c, s, v, w, k) = 0
      PROVE  Balance(d, s, v2, w2, k) = 0
  BY <1>2, <1>5, <1>6 DEF Balance, Back
<1>7. Aligned(d)
  BY DEF WindowsOK, ClientMoves
<1>8. Balance(d, s, v2, w2, 0) = 0
  <2>1. ~Idle(c, 0) /\ ~Lost(d, 0) /\ 0 \in Levels
    BY StreamLevels DEF Idle, Lost
  <2> QED
    BY <1>6, <2>1 DEF WindowsOK
<1>9. ASSUME NEW k \in StreamIds, Idle(d, k) PROVE Back(d, v2, k) = 0
  <2>1. Idle(c, k) /\ ~Lost(d, k) /\ k \in Levels
    BY <1>1, <1>9, StreamLevels DEF Lives, Idle, Lost
  <2> QED
    BY <1>4, <2>1 DEF WindowsOK
<1>10. ASSUME NEW k \in StreamIds, Idle(s, k)
       PROVE  Payload(w2, k) = 0 /\ (~Lost(d, k) => Back(d, v2, k) = 0)
  <2>1. Payload(w, k) = 0 /\ k \in Levels
    BY <1>10, StreamLevels DEF WindowsOK
  <2>2. Payload(w2, k) = 0
    BY <1>2, <2>1
  <2>3. ASSUME ~Lost(d, k) PROVE Back(d, v2, k) = 0
    <3>1. ~Lost(c, k)
      BY <1>1, <2>3 DEF Lives, Lost
    <3>2. Back(c, v, k) = 0
      BY <1>10, <3>1 DEF WindowsOK
    <3>3. CASE Idle(c, k)
      BY <1>4, <2>1, <2>3, <3>2, <3>3
    <3>4. CASE ~Idle(c, k)
      <4>1. Level(d, k) = 0 /\ Credit(v2, k) = 0
        BY <1>2, <1>3, <1>5, <2>1, <2>2, <2>3, <3>2, <3>4
      <4> QED
        BY <4>1 DEF Back
    <3> QED
      BY <3>3, <3>4
  <2> QED
    BY <2>2, <2>3
<1>11. ASSUME NEW k \in StreamIds, s.streams[k].state \in Live, Waiting(d, k)
       PROVE  Balance(d, s, v2, w2, k) = 0
  <2>1. ~Lost(d, k) /\ k \in Levels /\ ~Idle(s, k)
    BY <1>11, StreamLevels DEF Waiting, Lost, Live, Idle
  <2>2. CASE ~Idle(c, k)
    <3>1. Waiting(c, k)
      BY <1>1, <1>11, <2>2 DEF Lives, Waiting, Idle, Live
    <3> QED
      BY <1>6, <1>11, <2>1, <2>2, <3>1 DEF WindowsOK
  <2>3. CASE Idle(c, k)
    <3>1. k % 2 = 0
      BY <2>1, <2>3, StreamLevels DEF IdsOK
    <3>2. c.last_recv_stream_id < k
      <4>1. CASE d.streams[k].state \in Live
        <5>1. k \in X
          BY <1>1, <2>3, <4>1 DEF Lives, Idle, Live
        <5> QED
          BY <1>1, <3>1, <5>1
      <4>2. CASE d.last_recv_stream_id < k
        <5>1. c.last_recv_stream_id <= d.last_recv_stream_id
          BY <1>1 DEF Lives
        <5> QED
          BY <4>2, <5>1, StreamLevels
      <4> QED
        BY <1>11, <4>1, <4>2 DEF Waiting
    <3>3. Waiting(c, k) /\ Payload(w2, k) = Payload(w, k)
      BY <1>2, <2>1, <2>3, <3>1, <3>2 DEF Waiting, Idle
    <3>4. Back(c, v, k) = 0 /\ Balance(c, s, v, w, k) = 0
      BY <1>11, <2>3, <3>3 DEF WindowsOK
    <3>5. Back(d, v2, k) = 0
      BY <1>4, <2>1, <2>3, <3>4
    <3> QED
      BY <3>3, <3>4, <3>5 DEF Balance
  <2> QED
    BY <2>2, <2>3
<1> QED
  BY <1>7, <1>8, <1>9, <1>10, <1>11 DEF WindowsOK

LEMMA ServerWindows ==
    ASSUME NEW c, NEW s, NEW t, NEW v, NEW v2, NEW w, NEW w2,
           Numbers(c, s, v, w), Numbers(c, t, v2, w2), WindowsOK(c, s, v, w),
           ServerMoves(c, s, t, v, v2, w, w2), ServerTrades(s, t, v, v2, w, w2),
           "TERM_ON_SEND" \notin c.goaway_flags
    PROVE  WindowsOK(c, t, v2, w2)
<1>1. PICK X : Lives(s, t, X)
  BY DEF ServerMoves
<1> DEFINE due(k) == Due(v, v2, w, w2, k)
<1>2. ASSUME NEW k \in Levels
      PROVE  /\ Level(c, k) \in Nat /\ Sendable(s, k) \in Int /\ Sendable(t, k) \in Int
             /\ Credit(v, k) \in Nat /\ Credit(v2, k) \in Nat
             /\ Payload(w, k) \in Nat /\ Payload(w2, k) \in Nat
             /\ due(k) = Payload(w, k) - Payload(w2, k) + Credit(v, k) - Credit(v2, k)
             /\ Granted(s, t, k, due(k))
             /\ Credit(v2, k) <= Credit(v, k)
             /\ Idle(s, k) => Payload(w2, k) <= Payload(w, k)
  <2>1. due(k) = Payload(w, k) - Payload(w2, k) + Credit(v, k) - Credit(v2, k)
    BY DEF Due
  <2> QED
    BY <2>1 DEF Numbers, ServerTrades
<1> HIDE DEF due
<1>3. ASSUME NEW k \in Levels, Back(c, v, k) = 0 PROVE Back(c, v2, k) = 0
  BY <1>2, <1>3 DEF Back
<1>4. ASSUME NEW k \in Levels, ~Idle(s, k), ~Shut(t, k), Balance(c, s, v, w, k) = 0
      PROVE  Balance(c, t, v2, w2, k) = 0
  <2>1. Sendable(t, k) = Sendable(s, k) + due(k)
    BY <1>2, <1>4 DEF Granted
  <2> QED
    BY <1>2, <1>4, <2>1 DEF Balance, Back
<1>5. Aligned(c)
  BY DEF WindowsOK
<1>6. Balance(c, t, v2, w2, 0) = 0
  <2>1. ~Idle(s, 0) /\ ~Shut(t, 0) /\ 0 \in Levels
    BY StreamLevels DEF Idle, Shut
  <2> QED
    BY <1>4, <2>1 DEF WindowsOK
<1>7. ASSUME NEW k \in StreamIds, Idle(c, k) PROVE Back(c, v2, k) = 0
  BY <1>3, <1>7, StreamLevels DEF WindowsOK
<1>8. ASSUME NEW k \in StreamIds, Idle(t, k)
      PROVE  Payload(w2, k) = 0 /\ (~Lost(c, k) => Back(c, v2, k) = 0)
  <2>1. Idle(s, k) /\ k \in Levels
    BY <1>1, <1>8, StreamLevels DEF Lives, Idle
  <2>2. Payload(w, k) = 0 /\ (~Lost(c, k) => Back(c, v, k) = 0)
    BY <2>1 DEF WindowsOK
  <2> QED
    BY <1>2, <1>3, <2>1, <2>2
<1>9. ASSUME NEW k \in StreamIds, t.streams[k].state \in Live, Waiting(c, k)
      PROVE  Balance(c, t, v2, w2, k) = 0
  <2>1. ~Lost(c, k) /\ k \in Levels /\ ~Idle(t, k) /\ ~Shut(t, k)
    BY <1>9, StreamLevels DEF Waiting, Lost, Live, Idle, Shut
  <2>2. CASE ~Idle(s, k)
    <3>1. s.streams[k].state \in Live
      BY <1>1, <1>9, <2>2 DEF Lives, Idle
    <3> QED
      BY <1>4, <1>9, <2>1, <2>2, <3>1 DEF WindowsOK
  <2>3. CASE Idle(s, k)
    <3>1. Payload(w, k) = 0 /\ Back(c, v, k) = 0
      BY <2>1, <2>3 DEF WindowsOK
    <3>2. Payload(w2, k) = 0 /\ Back(c, v2, k) = 0
      BY <1>2, <1>3, <2>1, <2>3, <3>1
    <3>3. Sendable(t, k) = 0
      BY <1>2, <2>1, <2>3 DEF Granted
    <3> QED
      BY <3>2, <3>3 DEF Balance
  <2> QED
    BY <2>2, <2>3
<1> QED
  BY <1>5, <1>6, <1>7, <1>8, <1>9 DEF WindowsOK

LEMMA MembersOf ==
    ASSUME NEW T, NEW q \in Seq(T)
    PROVE  /\ Members(q) \subseteq T
           /\ \A f \in T : Members(Append(q, f)) \subseteq Members(q) \cup {f}
           /\ q # <<>> => Head(q) \in Members(q) /\ Members(Tail(q)) \subseteq Members(q)
<1>1. Members(q) \subseteq T
  BY ElementOfSeq DEF Members
<1>2. ASSUME NEW f \in T PROVE Members(Append(q, f)) \subseteq Members(q) \cup {f}
  <2>1. \A i \in 1 .. Len(Append(q, f)) :
          (i \in 1 .. Len(q) /\ Append(q, f)[i] = q[i]) \/ Append(q, f)[i] = f
    OBVIOUS
  <2> QED
    BY <2>1 DEF Members
<1>3. ASSUME q # <<>>
      PROVE  Head(q) \in Members(q) /\ Members(Tail(q)) \subseteq Members(q)
  <2>1. Head(q) = q[1] /\ 1 \in 1 .. Len(q)
    BY <1>3
  <2>2. \A i \in 1 .. Len(Tail(q)) : i + 1 \in 1 .. Len(q) /\ Tail(q)[i] = q[i + 1]
    BY <1>3, Taken
  <2> QED
    BY <2>1, <2>2 DEF Members
<1> QED
  BY <1>1, <1>2, <1>3

\* The client sends a frame, sends none, or receives one.
LEMMA ClientSent ==
    ASSUME NEW a \in BOOLEAN, ~a, NEW c, NEW d, SessionInv(a, c), NEW f \in AllFrames,
           NEW v \in Seq(AllFrames), NEW w \in Seq(AllFrames), Sends(a, c, f, d)
    PROVE  /\ ClientMoves(c, d, v, v, w, w)
           /\ ClientMoves(c, d, v, Append(v, f), w, w)
           /\ ClientTrades(c, d, v, Append(v, f), w, w)
<1> DEFINE z == Append(v, f)
<1>1. z \in Seq(AllFrames) /\ Members(z) \subseteq Members(v) \cup {f}
  BY MembersOf
<1>2. \A k \in Levels : /\ Credit(z, k) = Credit(v, k) + Gives(f)[k]
                        /\ Gives(f)[k] \in Nat
                        /\ Credit(v, k) \in Nat /\ Payload(w, k) \in Nat
  BY CreditAppend, CreditNat DEF Gives
<1> HIDE DEF z
<1>3. PICK X \in SUBSET {k \in StreamIds : Mine(a, k)} : Lives(c, d, X)
  BY DEF Sends, OwnStep
<1>4. \A k \in X : ~(k % 2 = 0)
  BY <1>3 DEF Mine
<1>5. StaysShut(c, d) /\ (Aligned(c) => Aligned(d))
  BY DEF Sends, OwnStep
<1>6. \A g \in Members(z) : g \in Members(v) \/ (g.type = "HEADERS" => ~Idle(d, g.id))
  BY <1>1 DEF Sends, Idle
<1>7. ASSUME NEW k \in Levels
      PROVE  /\ Kept(c, d, k, Due(v, z, w, w, k))
             /\ Credit(z, k) <= Credit(v, k) + Credit(c.ob_reg, k)
  <2>1. Due(v, z, w, w, k) = Minus(Gives(f))[k]
    BY <1>2 DEF Due, Minus
  <2>2. Gives(f)[k] <= Credit(c.ob_reg, k) /\ Kept(c, d, k, Minus(Gives(f))[k])
    BY DEF Sends
  <2>3. Credit(c.ob_reg, k) \in Nat
    BY LevelTypes DEF SessionInv, Sound
  <2> QED
    BY <1>2, <2>1, <2>2, <2>3
<1>8. ClientTrades(c, d, v, z, w, w)
  BY <1>2, <1>7 DEF ClientTrades
<1>9. ClientMoves(c, d, v, z, w, w)
  BY <1>3, <1>4, <1>5, <1>6 DEF ClientMoves
<1>10. ClientMoves(c, d, v, v, w, w)
  BY <1>3, <1>4, <1>5 DEF ClientMoves
<1> QED
  BY <1>8, <1>9, <1>10 DEF z

LEMMA ClientStayed ==
    ASSUME NEW a \in BOOLEAN, ~a, NEW c, NEW d, SessionInv(a, c), EvenReserved(c),
           NEW v \in Seq(AllFrames), NEW w \in Seq(AllFrames), Stays(a, c, d)
    PROVE  /\ ClientMoves(c, d, v, v, w, w)
           /\ ~is_closing(d) => ClientTrades(c, d, v, v, w, w)
<1>1. PICK X \in SUBSET {k \in StreamIds : Mine(a, k)} : Lives(c, d, X)
  BY DEF Stays, OwnStep
<1>2. \A k \in X : ~(k % 2 = 0)
  BY <1>1 DEF Mine
<1>3. StaysShut(c, d) /\ (Aligned(c) => Aligned(d))
  BY DEF Stays, OwnStep
<1>4. ASSUME NEW k \in Levels
      PROVE  /\ Due(v, v, w, w, k) = 0 /\ Credit(v, k) <= Credit(v, k) + Credit(c.ob_reg, k)
             /\ Payload(w, k) <= Payload(w, k)
  <2>1. Credit(v, k) \in Nat /\ Payload(w, k) \in Nat /\ Credit(c.ob_reg, k) \in Nat
    BY CreditNat, LevelTypes DEF SessionInv, Sound
  <2> QED
    BY <2>1 DEF Due
<1>5. ~is_closing(d) => ClientTrades(c, d, v, v, w, w)
  BY <1>4 DEF ClientTrades, Stays
<1>6. ClientMoves(c, d, v, v, w, w)
  BY <1>1, <1>2, <1>3 DEF ClientMoves
<1> QED
  BY <1>5, <1>6

LEMMA ClientTook ==
    ASSUME NEW a \in BOOLEAN, ~a, NEW c, NEW d, SessionInv(a, c),
           NEW v \in Seq(AllFrames), NEW w \in Seq(AllFrames), w # <<>>,
           Head(w) \in Frames(~a), d = receive(c, Head(w))
    PROVE  /\ ClientMoves(c, d, v, v, w, Tail(w))
           /\ "TERM_ON_SEND" \notin d.goaway_flags => ClientTrades(c, d, v, v, w, Tail(w))
<1> DEFINE f == Head(w)
           z == Tail(w)
<1>1. /\ f \in Frames(~a) /\ f \in AllFrames /\ z \in Seq(AllFrames)
      /\ f \in Members(w) /\ Members(z) \subseteq Members(w)
  BY IsFrame, MembersOf
<1>2. \A k \in Levels : /\ Payload(w, k) = Takes(f)[k] + Payload(z, k)
                        /\ Takes(f)[k] \in Nat /\ Payload(z, k) \in Nat
                        /\ Credit(v, k) \in Nat /\ Credit(c.ob_reg, k) \in Nat
  BY CreditTail, CreditNat, LevelTypes DEF Takes, SessionInv, Sound
<1>3. Accepts(a, c, f, d)
  BY <1>1, FrameReceivedAccepts
<1>4. d = receive(c, f)
  OBVIOUS
<1> HIDE DEF f, z
<1>5. PICK X \in SUBSET BegunBy(a, c, f) :
        /\ Lives(c, d, X)
        /\ StaysShut(c, d)
        /\ Aligned(c) => Aligned(d)
        /\ \A k \in Levels : Kept(c, d, k, Takes(f)[k])
  BY <1>3 DEF Accepts
<1>6. \A k \in X : /\ c.last_recv_stream_id < k
                   /\ f.type = "PUSH_PROMISE" /\ f.promised = k
  BY <1>5 DEF BegunBy
<1>7. ClientMoves(c, d, v, v, w, z)
  BY <1>1, <1>5, <1>6 DEF ClientMoves
<1>8. ASSUME "TERM_ON_SEND" \notin d.goaway_flags, NEW k \in Levels
      PROVE  /\ Kept(c, d, k, Due(v, v, w, z, k))
             /\ Credit(v, k) <= Credit(v, k) + Credit(c.ob_reg, k)
             /\ Payload(z, k) <= Payload(w, k)
             /\ Idle(c, k) /\ k % 2 = 0 /\ c.last_recv_stream_id < k =>
                   Payload(z, k) = Payload(w, k)
  <2>1. Due(v, v, w, z, k) = Takes(f)[k]
    BY <1>2 DEF Due
  <2>2. ASSUME Idle(c, k), k % 2 = 0, c.last_recv_stream_id < k
        PROVE  Payload(z, k) = Payload(w, k)
    <3>1. k \in StreamIds /\ k # 0
      BY <2>2, StreamLevels DEF Idle
    <3>2. ~(f.type = "DATA" /\ f.id = k)
      <4>1. ASSUME f.type = "DATA", f.id = k PROVE FALSE
        <5>1. f \in DataFrames
          BY <1>1, <4>1, FramesOfType
        <5>2. ~Mine(a, f.id) /\ c.last_recv_stream_id < f.id
          BY <2>2, <4>1, <3>1, StreamLevels DEF Mine
        <5> QED
          BY <1>4, <1>8, <5>1, <5>2, DataUnexpected
      <4> QED
        BY <4>1
    <3>3. Takes(f)[k] = 0
      <4>1. Lengths(k)[f] = 0
        BY <1>1, <3>1, <3>2, FrameValue
      <4> QED
        BY <4>1 DEF Takes
    <3> QED
      BY <1>2, <3>3
  <2> QED
    BY <1>2, <1>5, <2>1, <2>2
<1>9. "TERM_ON_SEND" \notin d.goaway_flags => ClientTrades(c, d, v, v, w, z)
  BY <1>8 DEF ClientTrades
<1> QED
  BY <1>7, <1>9 DEF z

\* The same of the server.
LEMMA ServerSent ==
    ASSUME NEW b \in BOOLEAN, b, NEW c, NEW s, NEW t, SessionInv(b, s), NEW f \in AllFrames,
           NEW v \in Seq(AllFrames), NEW w \in Seq(AllFrames), Sends(b, s, f, t),
           s.last_sent_stream_id <= t.last_sent_stream_id
    PROVE  /\ ServerMoves(c, s, t, v, v, w, w)
           /\ ServerMoves(c, s, t, v, v, w, Append(w, f))
           /\ ServerTrades(s, t, v, v, w, Append(w, f))
<1> DEFINE z == Append(w, f)
<1>1. z \in Seq(AllFrames) /\ Members(z) \subseteq Members(w) \cup {f}
  BY MembersOf
<1>2. \A k \in Levels : /\ Payload(z, k) = Payload(w, k) + Takes(f)[k]
                        /\ Takes(f)[k] \in Nat
                        /\ Credit(v, k) \in Nat /\ Payload(w, k) \in Nat
  BY CreditAppend, CreditNat DEF Takes
<1> HIDE DEF z
<1>3. PICK X \in SUBSET {k \in StreamIds : Mine(b, k)} : Lives(s, t, X)
  BY DEF Sends, OwnStep
<1>4. \A k \in X : k % 2 = 0
  BY <1>3 DEF Mine
<1>5. \A g \in Members(z) :
        g \in Members(w) \/ (g.type = "PUSH_PROMISE" => g.promised <= t.last_sent_stream_id)
  BY <1>1 DEF Sends
<1>6. ASSUME NEW k \in Levels
      PROVE  /\ Granted(s, t, k, Due(v, v, w, z, k))
             /\ Credit(v, k) <= Credit(v, k)
             /\ Idle(s, k) => Payload(z, k) <= Payload(w, k)
  <2>1. Due(v, v, w, z, k) = Minus(Takes(f))[k]
    BY <1>2 DEF Due, Minus
  <2>2. Granted(s, t, k, Minus(Takes(f))[k])
    BY DEF Sends
  <2>3. ASSUME Idle(s, k) PROVE Payload(z, k) <= Payload(w, k)
    <3>1. k # 0 /\ ~(f.type = "DATA" /\ f.id = k)
      BY <2>3, StreamLevels DEF Idle, Sends
    <3>2. Lengths(k)[f] = 0
      BY <3>1, FrameValue
    <3> QED
      BY <1>2, <3>2 DEF Takes
  <2> QED
    BY <1>2, <2>1, <2>2, <2>3
<1>7. ServerTrades(s, t, v, v, w, z)
  BY <1>6 DEF ServerTrades
<1>8. ServerMoves(c, s, t, v, v, w, z)
  BY <1>3, <1>4, <1>5 DEF ServerMoves
<1>9. ServerMoves(c, s, t, v, v, w, w)
  BY <1>3, <1>4 DEF ServerMoves
<1> QED
  BY <1>7, <1>8, <1>9 DEF z

LEMMA ServerStayed ==
    ASSUME NEW b \in BOOLEAN, b, NEW c, NEW s, NEW t,
           NEW v \in Seq(AllFrames), NEW w \in Seq(AllFrames), Stays(b, s, t),
           s.last_sent_stream_id <= t.last_sent_stream_id
    PROVE  ServerMoves(c, s, t, v, v, w, w) /\ ServerTrades(s, t, v, v, w, w)
<1>1. PICK X \in SUBSET {k \in StreamIds : Mine(b, k)} : Lives(s, t, X)
  BY DEF Stays, OwnStep
<1>2. \A k \in X : k % 2 = 0
  BY <1>1 DEF Mine
<1>3. ASSUME NEW k \in Levels
      PROVE  /\ Due(v, v, w, w, k) = 0 /\ Credit(v, k) <= Credit(v, k)
             /\ Payload(w, k) <= Payload(w, k)
  <2>1. Credit(v, k) \in Nat /\ Payload(w, k) \in Nat
    BY CreditNat
  <2> QED
    BY <2>1 DEF Due
<1>4. ServerTrades(s, t, v, v, w, w)
  BY <1>3 DEF ServerTrades, Stays
<1>5. ServerMoves(c, s, t, v, v, w, w)
  BY <1>1, <1>2 DEF ServerMoves
<1> QED
  BY <1>4, <1>5

\* An update the server gets is for the connection, or for a stream that it
\* has announced: the client gives nothing back of any other.
LEMMA UpdatesExpected ==
    ASSUME NEW b \in BOOLEAN, b, NEW a \in BOOLEAN, NEW c, NEW s,
           SessionInv(a, c), SessionInv(b, s),
           NEW v \in Seq(AllFrames), NEW w, v # <<>>, Head(v).type = "WINDOW_UPDATE",
           IdsOK(c, s, v, w), WindowsOK(c, s, v, w)
    PROVE  UpdateExpected(b, s, Head(v))
<1> DEFINE f == Head(v)
<1>1. f \in AllFrames /\ \A k \in Levels :
        Credit(v, k) = Increments(k)[f] + Credit(Tail(v), k)
        /\ Increments(k)[f] \in Nat /\ Credit(Tail(v), k) \in Nat
  BY MembersOf, CreditTail
<1>2. f.type = "WINDOW_UPDATE"
  OBVIOUS
<1> HIDE DEF f
<1>3. f \in Updates /\ f.increment \in Nat
  BY <1>1, <1>2, FramesOfType
<1>4. ASSUME f.id # 0, f.increment # 0, Mine(b, f.id), ~(f.id <= s.last_sent_stream_id)
      PROVE  FALSE
  <2> DEFINE k == f.id
  <2>1. k \in StreamIds /\ k % 2 = 0
    BY <1>3, <1>4 DEF Updates, Mine
  <2>2. Idle(c, k)
    BY <1>4, <2>1 DEF IdsOK
  <2>3. Back(c, v, k) = 0 /\ k \in Levels
    BY <2>1, <2>2, StreamLevels DEF WindowsOK
  <2>4. Level(c, k) \in Nat
    BY <2>3, LevelTypes DEF SessionInv, Sound
  <2>5. Increments(k)[f] = 0
    BY <1>1, <2>3, <2>4 DEF Back
  <2> QED
    BY <1>1, <1>2, <1>4, <2>5, FrameValue
<1>5. ASSUME f.id # 0, s.streams[f.id].state = "RESERVED" PROVE Mine(b, f.id)
  BY <1>3, <1>5 DEF Updates, IdsOK, EvenReserved, Mine
<1>6. UpdateExpected(b, s, f)
  BY <1>4, <1>5 DEF UpdateExpected
<1> QED
  BY <1>6 DEF f

LEMMA ServerTook ==
    ASSUME NEW b \in BOOLEAN, b, NEW a \in BOOLEAN, NEW c, NEW s, NEW t,
           SessionInv(a, c), SessionInv(b, s),
           NEW v \in Seq(AllFrames), NEW w \in Seq(AllFrames), v # <<>>,
           Head(v) \in Frames(~b), t = receive(s, Head(v)), IdsOK(c, s, v, w),
           s.last_sent_stream_id <= t.last_sent_stream_id
    PROVE  /\ ServerMoves(c, s, t, v, Tail(v), w, w)
           /\ WindowsOK(c, s, v, w) => ServerTrades(s, t, v, Tail(v), w, w)
<1> DEFINE f == Head(v)
           z == Tail(v)
<1>1. /\ f \in Frames(~b) /\ f \in AllFrames /\ z \in Seq(AllFrames)
      /\ f \in Members(v) /\ Members(z) \subseteq Members(v)
  BY IsFrame, MembersOf
<1>2. \A k \in Levels : /\ Credit(v, k) = Gives(f)[k] + Credit(z, k)
                        /\ Gives(f)[k] \in Nat /\ Credit(z, k) \in Nat
                        /\ Payload(w, k) \in Nat
  BY CreditTail, CreditNat DEF Gives
<1>3. Accepts(b, s, f, t)
  BY <1>1, FrameReceivedAccepts
<1>4. WindowsOK(c, s, v, w) /\ f.type = "WINDOW_UPDATE" => UpdateExpected(b, s, f)
  BY UpdatesExpected
<1> HIDE DEF f, z
<1>5. PICK X \in SUBSET BegunBy(b, s, f) :
        /\ Lives(s, t, X)
        /\ (f.type = "WINDOW_UPDATE" => UpdateExpected(b, s, f)) =>
              \A k \in Levels : Granted(s, t, k, Gives(f)[k])
  BY <1>3 DEF Accepts
<1>6. \A k \in X : k % 2 = 0 \/ ~Idle(c, k)
  BY <1>1, <1>5 DEF BegunBy, IdsOK
<1>7. ServerMoves(c, s, t, v, z, w, w)
  BY <1>1, <1>5, <1>6 DEF ServerMoves
<1>8. ASSUME WindowsOK(c, s, v, w), NEW k \in Levels
      PROVE  /\ Granted(s, t, k, Due(v, z, w, w, k))
             /\ Credit(z, k) <= Credit(v, k)
             /\ Payload(w, k) <= Payload(w, k)
  <2>1. Due(v, z, w, w, k) = Gives(f)[k]
    BY <1>2 DEF Due
  <2>2. Granted(s, t, k, Gives(f)[k])
    BY <1>4, <1>5, <1>8
  <2>3. Credit(z, k) <= Credit(v, k) /\ Payload(w, k) <= Payload(w, k)
    BY <1>2
  <2> QED
    BY <2>1, <2>2, <2>3
<1>9. WindowsOK(c, s, v, w) => ServerTrades(s, t, v, z, w, w)
  BY <1>8 DEF ServerTrades
<1> QED
  BY <1>7, <1>9 DEF z
-----------------------------------------------------------------------------
(***************************************************************************)
(* The inductive invariant, and the steps of the connection.               *)
(***************************************************************************)
Running == alive["client"] /\ alive["server"]
Open == Running /\ ~is_closing(client)

WindowsInv ==
    /\ ConnectionInv
    /\ FlagsOK(client)
    /\ IdsOK(client, server, wire["client"], wire["server"])
    /\ Open => WindowsOK(client, server, wire["client"], wire["server"])

\* A step of the connection is a step of one of the two sides.
ClientTurn ==
    /\ server' = server
    /\ ClientMoves(client, client', wire["client"], wire'["client"],
                   wire["server"], wire'["server"])
    /\ Open' => ClientTrades(client, client', wire["client"], wire'["client"],
                             wire["server"], wire'["server"])

ServerTurn ==
    /\ client' = client
    /\ ServerMoves(client, server, server', wire["client"], wire'["client"],
                   wire["server"], wire'["server"])
    /\ Open' => ServerTrades(server, server', wire["client"], wire'["client"],
                             wire["server"], wire'["server"])

Turn == (Running' => Running) /\ (ClientTurn \/ ServerTurn)

LEMMA SideFacts ==
    /\ ConnectionInv =>
         /\ SessionInv(Srv("client"), client) /\ SessionInv(Srv("server"), server)
         /\ client \in SessionType(Srv("client")) /\ server \in SessionType(Srv("server"))
         /\ wire["client"] \in Seq(AllFrames) /\ wire["server"] \in Seq(AllFrames)
         /\ wire["client"] \in Seq(Frames(Srv("client")))
         /\ wire["server"] \in Seq(Frames(Srv("server")))
    /\ ConnectionInv' =>
         /\ client' \in SessionType(Srv("client")) /\ server' \in SessionType(Srv("server"))
         /\ wire'["client"] \in Seq(AllFrames) /\ wire'["server"] \in Seq(AllFrames)
<1>1. ConnectionInv =>
        /\ SessionInv(Srv("client"), client) /\ SessionInv(Srv("server"), server)
        /\ wire["client"] \in Seq(Frames(Srv("client")))
        /\ wire["server"] \in Seq(Frames(Srv("server")))
  BY Sides DEF ConnectionInv, SessionsOK, WireOK, client, server
<1>2. ConnectionInv' =>
        /\ SessionInv(Srv("client"), client') /\ SessionInv(Srv("server"), server')
        /\ wire'["client"] \in Seq(Frames(Srv("client")))
        /\ wire'["server"] \in Seq(Frames(Srv("server")))
  BY Sides DEF ConnectionInv, SessionsOK, WireOK, client, server
<1>3. \A q : /\ q \in Seq(Frames(Srv("client"))) => q \in Seq(AllFrames)
             /\ q \in Seq(Frames(Srv("server"))) => q \in Seq(AllFrames)
  BY Sides, QueueType
<1>4. \A b \in BOOLEAN : \A s : SessionInv(b, s) => s \in SessionType(b)
  BY DEF SessionInv, Sound
<1> QED
  BY <1>1, <1>2, <1>3, <1>4, Sides

LEMMA TurnKeeps ==
    ASSUME WindowsInv, ConnectionInv', Turn
    PROVE  WindowsInv'
<1> DEFINE c == client
           d == client'
           s == server
           t == server'
           v == wire["client"]
           w == wire["server"]
           v2 == wire'["client"]
           w2 == wire'["server"]
<1>1. /\ c \in SessionType(Srv("client")) /\ s \in SessionType(Srv("server"))
      /\ v \in Seq(AllFrames) /\ w \in Seq(AllFrames)
      /\ d \in SessionType(Srv("client")) /\ t \in SessionType(Srv("server"))
      /\ v2 \in Seq(AllFrames) /\ w2 \in Seq(AllFrames)
  BY SideFacts DEF WindowsInv
<1>2. /\ c.last_recv_stream_id \in Nat /\ d.last_recv_stream_id \in Nat
      /\ s.last_sent_stream_id \in Nat /\ t.last_sent_stream_id \in Nat
  BY <1>1, Sides, FieldTypes
<1>3. Numbers(c, s, v, w) /\ Numbers(d, s, v2, w2) /\ Numbers(c, t, v2, w2)
  BY <1>1, Sides, NumbersType
<1>4. \A f \in Members(w) : f.type = "PUSH_PROMISE" => f.promised \in Nat
  <2>1. Members(w) \subseteq AllFrames
    BY <1>1, MembersOf
  <2>2. \A f \in AllFrames : f.type = "PUSH_PROMISE" => f.promised \in Nat
    BY IdsFinite DEF AllFrames, Frames, Regular, Requests, Responses, Promises, Resets, Updates,
       Goaways, SettingsFrames, Acks, DataFrames
  <2> QED
    BY <2>1, <2>2
<1>5. FlagsOK(c) /\ IdsOK(c, s, v, w) /\ (Open => WindowsOK(c, s, v, w))
  BY DEF WindowsInv
<1>6. (Running' => Running) /\ (Open <=> Running /\ ~is_closing(c))
      /\ (Open' <=> Running' /\ ~is_closing(d))
  BY DEF Turn, Open
<1>7. /\ ClientTurn => /\ t = s /\ ClientMoves(c, d, v, v2, w, w2)
                       /\ Open' => ClientTrades(c, d, v, v2, w, w2)
      /\ ServerTurn => /\ d = c /\ ServerMoves(c, s, t, v, v2, w, w2)
                       /\ Open' => ServerTrades(s, t, v, v2, w, w2)
  BY DEF ClientTurn, ServerTurn
<1>8. FlagsOK(d) /\ IdsOK(d, t, v2, w2) /\ (Open' => WindowsOK(d, t, v2, w2)) => WindowsInv'
  BY DEF WindowsInv
<1> HIDE DEF c, d, s, t, v, w, v2, w2
<1>9. is_closing(d) \/ "TERM_ON_SEND" \notin d.goaway_flags
  BY DEF is_closing
<1>10. CASE ClientTurn
  <2>1. PICK X : Lives(c, d, X) /\ StaysShut(c, d)
    BY <1>7, <1>10 DEF ClientMoves
  <2>2. FlagsOK(d) /\ (is_closing(c) => is_closing(d))
    BY <1>5, <2>1, ClosingStays, FlagsStayOK
  <2>3. IdsOK(d, t, v2, w2)
    BY <1>5, <1>7, <1>10, ClientIds
  <2>4. ASSUME Open' PROVE WindowsOK(d, t, v2, w2)
    <3>1. Open /\ "TERM_ON_SEND" \notin d.goaway_flags
      BY <1>6, <1>9, <2>2, <2>4
    <3>2. ClientMoves(c, d, v, v2, w, w2) /\ ClientTrades(c, d, v, v2, w, w2) /\ t = s
      BY <1>7, <1>10, <2>4
    <3>3. WindowsOK(d, s, v2, w2)
      BY <1>2, <1>3, <1>5, <3>1, <3>2, ClientWindows
    <3> QED
      BY <3>2, <3>3
  <2> QED
    BY <1>8, <2>2, <2>3, <2>4
<1>11. CASE ServerTurn
  <2>1. d = c /\ ServerMoves(c, s, t, v, v2, w, w2)
    BY <1>7, <1>11
  <2>2. IdsOK(c, t, v2, w2)
    BY <1>2, <1>4, <1>5, <2>1, ServerIds
  <2>3. ASSUME Open' PROVE WindowsOK(c, t, v2, w2)
    <3>1. Open /\ "TERM_ON_SEND" \notin c.goaway_flags
      BY <1>6, <1>9, <2>1, <2>3
    <3>2. ServerTrades(s, t, v, v2, w, w2)
      BY <1>7, <1>11, <2>3
    <3> QED
      BY <1>3, <1>5, <2>1, <3>1, <3>2, ServerWindows
  <2> QED
    BY <1>5, <1>8, <2>1, <2>2, <2>3
<1> QED
  BY <1>10, <1>11 DEF Turn

\* One end moves, and the other does not.
LEMMA OneEnd ==
    ASSUME ConnectionInv, NEW e \in Ends, NEW t, Becomes(e, t)
    PROVE  /\ e = "client" => client' = t /\ server' = server
           /\ e = "server" => server' = t /\ client' = client
           /\ session[e] = IF e = "client" THEN client ELSE server
<1>1. DOMAIN session = Ends /\ "client" \in Ends /\ "server" \in Ends
  BY DEF ConnectionInv, SessionsOK, Ends
<1>2. session' = [session EXCEPT ![e] = t]
  BY DEF Becomes
<1> QED
  BY <1>1, <1>2 DEF client, server, Ends

LEMMA LastSent ==
    ASSUME ConnectionInv, Onward
    PROVE  server.last_sent_stream_id <= (server').last_sent_stream_id
<1>1. server \in SessionType(Srv("server")) /\ Srv("server")
  BY SideFacts, Sides
<1>2. server.server
  BY <1>1, Sides, FieldTypes
<1>3. Later(server, server')
  BY DEF Onward, server, Ends
<1> QED
  BY <1>2, <1>3 DEF Later

\* An end sends a frame, or takes a step that leaves the wire as it is.
LEMMA EndSends ==
    ASSUME WindowsInv, Onward, NEW e \in Ends, NEW f \in Frames(Srv(e)), NEW t,
           Sends(Srv(e), session[e], f, t), Becomes(e, t), Put(e, f), UNCHANGED alive
    PROVE  Turn
<1>1. /\ SessionInv(Srv("client"), client) /\ SessionInv(Srv("server"), server)
      /\ wire["client"] \in Seq(AllFrames) /\ wire["server"] \in Seq(AllFrames)
      /\ f \in AllFrames /\ DOMAIN wire = Ends /\ ConnectionInv
  BY SideFacts, Sides, IsFrame DEF WindowsInv, ConnectionInv, WireOK
<1>2. Running' => alive[Peer(e)]
  BY DEF Running, Peer
<1>3. Running' => Running
  BY DEF Running
<1>4. Put(e, f)
  OBVIOUS
<1>5. CASE e = "client"
  <2>1. client' = t /\ server' = server /\ session[e] = client
    BY <1>1, <1>5, OneEnd
  <2>2. /\ wire'["server"] = wire["server"]
        /\ \/ wire'["client"] = Append(wire["client"], f)
           \/ ~Running' /\ wire'["client"] = wire["client"]
    BY <1>1, <1>2, <1>4, <1>5 DEF Put, Ends
  <2>3. /\ ClientMoves(client, t, wire["client"], wire["client"],
                       wire["server"], wire["server"])
        /\ ClientMoves(client, t, wire["client"], Append(wire["client"], f),
                       wire["server"], wire["server"])
        /\ ClientTrades(client, t, wire["client"], Append(wire["client"], f),
                        wire["server"], wire["server"])
    <3>1. Sends(Srv("client"), client, f, t)
      BY <1>5, <2>1
    <3> QED
      BY <1>1, <3>1, Sides, ClientSent
  <2>4. ClientTurn
    BY <2>1, <2>2, <2>3 DEF ClientTurn, Open
  <2> QED
    BY <1>3, <2>4 DEF Turn
<1>6. CASE e = "server"
  <2>1. server' = t /\ client' = client /\ session[e] = server
    BY <1>1, <1>6, OneEnd
  <2>2. /\ wire'["client"] = wire["client"]
        /\ \/ wire'["server"] = Append(wire["server"], f)
           \/ ~Running' /\ wire'["server"] = wire["server"]
    BY <1>1, <1>2, <1>4, <1>6 DEF Put, Ends
  <2>3. /\ ServerMoves(client, server, t, wire["client"], wire["client"],
                       wire["server"], wire["server"])
        /\ ServerMoves(client, server, t, wire["client"], wire["client"],
                       wire["server"], Append(wire["server"], f))
        /\ ServerTrades(server, t, wire["client"], wire["client"],
                        wire["server"], Append(wire["server"], f))
    <3>1. Sends(Srv("server"), server, f, t)
      BY <1>6, <2>1
    <3>2. server.last_sent_stream_id <= t.last_sent_stream_id
      BY <1>1, <2>1, LastSent
    <3> QED
      BY <1>1, <3>1, <3>2, Sides, ServerSent
  <2>4. ServerTurn
    BY <2>1, <2>2, <2>3 DEF ServerTurn, Open
  <2> QED
    BY <1>3, <2>4 DEF Turn
<1> QED
  BY <1>5, <1>6 DEF Ends

LEMMA EndStays ==
    ASSUME WindowsInv, Onward, NEW e \in Ends, NEW t,
           Stays(Srv(e), session[e], t), Becomes(e, t), UNCHANGED <<wire, alive>>
    PROVE  Turn
<1>1. /\ SessionInv(Srv("client"), client) /\ SessionInv(Srv("server"), server)
      /\ wire["client"] \in Seq(AllFrames) /\ wire["server"] \in Seq(AllFrames)
      /\ EvenReserved(client) /\ ConnectionInv
  BY SideFacts DEF WindowsInv, IdsOK
<1>2. Running' => Running
  BY DEF Running
<1>3. CASE e = "client"
  <2>1. client' = t /\ server' = server /\ session[e] = client
    BY <1>1, <1>3, OneEnd
  <2>2. Stays(Srv("client"), client, t)
    BY <1>3, <2>1
  <2>3. /\ ClientMoves(client, t, wire["client"], wire["client"],
                       wire["server"], wire["server"])
        /\ ~is_closing(t) => ClientTrades(client, t, wire["client"], wire["client"],
                                          wire["server"], wire["server"])
    BY <1>1, <2>2, Sides, ClientStayed
  <2>4. ClientTurn
    BY <2>1, <2>3 DEF ClientTurn, Open
  <2> QED
    BY <1>2, <2>4 DEF Turn
<1>4. CASE e = "server"
  <2>1. server' = t /\ client' = client /\ session[e] = server
    BY <1>1, <1>4, OneEnd
  <2>2. Stays(Srv("server"), server, t)
    BY <1>4, <2>1
  <2>3. server.last_sent_stream_id <= t.last_sent_stream_id
    BY <1>1, <2>1, LastSent
  <2>4. /\ ServerMoves(client, server, t, wire["client"], wire["client"],
                       wire["server"], wire["server"])
        /\ ServerTrades(server, t, wire["client"], wire["client"],
                        wire["server"], wire["server"])
    BY <1>1, <2>2, <2>3, Sides, ServerStayed
  <2>5. ServerTurn
    BY <2>1, <2>4 DEF ServerTurn
  <2> QED
    BY <1>2, <2>5 DEF Turn
<1> QED
  BY <1>3, <1>4 DEF Ends

LEMMA EndKeeps ==
    ASSUME WindowsInv, Onward, NEW e \in Ends, NEW t,
           Keeps(session[e], t), Becomes(e, t), UNCHANGED <<wire, alive>>
    PROVE  Turn
BY Sides, KeepsStays, EndStays

LEMMA EndReceives ==
    ASSUME WindowsInv, Onward, NEW e \in Ends, Receive(e)
    PROVE  Turn
<1>1. /\ SessionInv(Srv("client"), client) /\ SessionInv(Srv("server"), server)
      /\ wire["client"] \in Seq(AllFrames) /\ wire["server"] \in Seq(AllFrames)
      /\ wire["client"] \in Seq(Frames(Srv("client")))
      /\ wire["server"] \in Seq(Frames(Srv("server")))
      /\ DOMAIN wire = Ends /\ ConnectionInv
      /\ IdsOK(client, server, wire["client"], wire["server"])
      /\ Open => WindowsOK(client, server, wire["client"], wire["server"])
  BY SideFacts, Sides DEF WindowsInv, ConnectionInv, WireOK
<1> DEFINE t == receive(session[e], Head(wire[Peer(e)]))
<1>2. /\ Becomes(e, t) /\ UNCHANGED alive /\ wire[Peer(e)] # <<>>
      /\ wire' = [wire EXCEPT ![Peer(e)] = Tail(wire[Peer(e)])]
  BY DEF Receive
<1>3. Running' => Running
  BY <1>2 DEF Running
<1>4. t = receive(session[e], Head(wire[Peer(e)]))
  OBVIOUS
<1> HIDE DEF t
<1>5. CASE e = "client"
  <2>1. client' = t /\ server' = server /\ session[e] = client
    BY <1>1, <1>2, <1>5, OneEnd
  <2>2. /\ wire'["client"] = wire["client"] /\ wire'["server"] = Tail(wire["server"])
        /\ wire["server"] # <<>> /\ t = receive(client, Head(wire["server"]))
    BY <1>1, <1>2, <1>4, <1>5, <2>1 DEF Ends, Peer
  <2>3. Head(wire["server"]) \in Frames(~Srv("client"))
    <3>1. Head(wire["server"]) \in Frames(Srv("server")) /\ Srv("server") = ~Srv("client")
      BY <1>1, <2>2, Taken DEF Srv
    <3> QED
      BY <3>1
  <2>4. /\ ClientMoves(client, t, wire["client"], wire["client"],
                       wire["server"], Tail(wire["server"]))
        /\ "TERM_ON_SEND" \notin t.goaway_flags =>
              ClientTrades(client, t, wire["client"], wire["client"],
                           wire["server"], Tail(wire["server"]))
    BY <1>1, <2>2, <2>3, Sides, ClientTook
  <2>5. ~is_closing(t) => "TERM_ON_SEND" \notin t.goaway_flags
    BY DEF is_closing
  <2>6. ClientTurn
    BY <2>1, <2>2, <2>4, <2>5 DEF ClientTurn, Open
  <2> QED
    BY <1>3, <2>6 DEF Turn
<1>6. CASE e = "server"
  <2>1. server' = t /\ client' = client /\ session[e] = server
    BY <1>1, <1>2, <1>6, OneEnd
  <2>2. /\ wire'["server"] = wire["server"] /\ wire'["client"] = Tail(wire["client"])
        /\ wire["client"] # <<>> /\ t = receive(server, Head(wire["client"]))
    BY <1>1, <1>2, <1>4, <1>6, <2>1 DEF Ends, Peer
  <2>3. Head(wire["client"]) \in Frames(~Srv("server"))
    <3>1. Head(wire["client"]) \in Frames(Srv("client")) /\ Srv("client") = ~Srv("server")
      BY <1>1, <2>2, Taken DEF Srv
    <3> QED
      BY <3>1
  <2>4. server.last_sent_stream_id <= t.last_sent_stream_id
    BY <1>1, <2>1, LastSent
  <2>5. /\ ServerMoves(client, server, t, wire["client"], Tail(wire["client"]),
                       wire["server"], wire["server"])
        /\ WindowsOK(client, server, wire["client"], wire["server"]) =>
              ServerTrades(server, t, wire["client"], Tail(wire["client"]),
                           wire["server"], wire["server"])
    BY <1>1, <2>2, <2>3, <2>4, Sides, ServerTook
  <2>6. Open' => Open
    BY <1>3, <2>1 DEF Open
  <2>7. ServerTurn
    BY <1>1, <2>1, <2>2, <2>5, <2>6 DEF ServerTurn
  <2> QED
    BY <1>3, <2>7 DEF Turn
<1> QED
  BY <1>5, <1>6 DEF Ends

LEMMA QueuesTurn ==
    ASSUME WindowsInv, Onward, NEW e \in Ends, SendUrgent(e) \/ SendRegular(e) \/ SendSyn(e)
    PROVE  Turn
<1> DEFINE s == session[e]
<1>1. Srv(e) \in BOOLEAN /\ SessionInv(Srv(e), s) /\ s \in SessionType(Srv(e))
  BY Sides DEF WindowsInv, ConnectionInv, SessionsOK, SessionInv, Sound
<1>2. ASSUME NEW f \in Frames(Srv(e)), NEW r, UNCHANGED alive,
             MaySend(r, f) => Sends(Srv(e), s, f, after_frame_sent(r, f)),
             ~MaySend(r, f) => Stays(Srv(e), s, not_sent(r, f)),
             IF MaySend(r, f) THEN Becomes(e, after_frame_sent(r, f)) /\ Put(e, f)
                              ELSE Becomes(e, not_sent(r, f)) /\ UNCHANGED wire
      PROVE  Turn
  <2>1. CASE MaySend(r, f)
    BY <1>2, <2>1, EndSends
  <2>2. CASE ~MaySend(r, f)
    BY <1>2, <2>2, EndStays
  <2> QED
    BY <2>1, <2>2
<1>3. CASE SendUrgent(e)
  <2> DEFINE f == Head(s.ob_urgent)
             r == prepare([s EXCEPT !.ob_urgent = Tail(s.ob_urgent)], f)
  <2>1. /\ s.ob_urgent # <<>> /\ UNCHANGED alive
        /\ IF MaySend(r, f) THEN Becomes(e, after_frame_sent(r, f)) /\ Put(e, f)
                            ELSE Becomes(e, not_sent(r, f)) /\ UNCHANGED wire
    BY <1>3 DEF SendUrgent, SendFrom
  <2>2. f = Head(s.ob_urgent) /\ r = prepare([s EXCEPT !.ob_urgent = Tail(s.ob_urgent)], f)
    OBVIOUS
  <2> HIDE DEF f, r, s
  <2>3. /\ f \in Frames(Srv(e))
        /\ MaySend(r, f) => Sends(Srv(e), s, f, after_frame_sent(r, f))
        /\ ~MaySend(r, f) => Stays(Srv(e), s, not_sent(r, f))
    BY <1>1, <2>1, <2>2, UrgentSends
  <2> QED
    BY <1>2, <2>1, <2>3
<1>4. CASE SendRegular(e)
  <2> DEFINE f == Head(s.ob_reg)
             r == prepare([s EXCEPT !.ob_reg = Tail(s.ob_reg)], f)
  <2>1. /\ s.ob_reg # <<>> /\ UNCHANGED alive
        /\ IF MaySend(r, f) THEN Becomes(e, after_frame_sent(r, f)) /\ Put(e, f)
                            ELSE Becomes(e, not_sent(r, f)) /\ UNCHANGED wire
    BY <1>4 DEF SendRegular, SendFrom
  <2>2. f = Head(s.ob_reg) /\ r = prepare([s EXCEPT !.ob_reg = Tail(s.ob_reg)], f)
    OBVIOUS
  <2> HIDE DEF f, r, s
  <2>3. /\ f \in Frames(Srv(e))
        /\ MaySend(r, f) => Sends(Srv(e), s, f, after_frame_sent(r, f))
        /\ ~MaySend(r, f) => Stays(Srv(e), s, not_sent(r, f))
    BY <1>1, <2>1, <2>2, RegularSends
  <2> QED
    BY <1>2, <2>1, <2>3
<1>5. CASE SendSyn(e)
  <2> DEFINE f == Head(s.ob_syn)
             r == prepare([s EXCEPT !.ob_syn = Tail(s.ob_syn)], f)
  <2>1. /\ s.ob_syn # <<>> /\ UNCHANGED alive
        /\ IF MaySend(r, f) THEN Becomes(e, after_frame_sent(r, f)) /\ Put(e, f)
                            ELSE Becomes(e, not_sent(r, f)) /\ UNCHANGED wire
    BY <1>5 DEF SendSyn, SendFrom
  <2>2. f = Head(s.ob_syn) /\ r = prepare([s EXCEPT !.ob_syn = Tail(s.ob_syn)], f)
    OBVIOUS
  <2> HIDE DEF f, r, s
  <2>3. /\ f \in Frames(Srv(e))
        /\ MaySend(r, f) => Sends(Srv(e), s, f, after_frame_sent(r, f))
        /\ ~MaySend(r, f) => Stays(Srv(e), s, not_sent(r, f))
    BY <1>1, <2>1, <2>2, SynSends
  <2> QED
    BY <1>2, <2>1, <2>3
<1> QED
  BY <1>3, <1>4, <1>5

LEMMA DataTurns ==
    ASSUME WindowsInv, Onward, NEW e \in Ends, NEW id \in StreamIds, SendData(e, id)
    PROVE  Turn
<1> DEFINE s == session[e]
           f == NextData(s, id)
<1>1. /\ Srv(e) \in BOOLEAN /\ SessionInv(Srv(e), s) /\ UNCHANGED alive
      /\ id \in DataQueued(s)
      /\ \/ Becomes(e, detach_item(s, id)) /\ UNCHANGED wire
         \/ Becomes(e, defer_item(s, id)) /\ UNCHANGED wire
         \/ ~(f.length <= 0) /\ Becomes(e, data_sent(s, f)) /\ Put(e, f)
  BY Sides DEF WindowsInv, ConnectionInv, SessionsOK, SendData
<1>2. f = NextData(s, id)
  OBVIOUS
<1>3. Keeps(s, detach_item(s, id)) /\ Keeps(s, defer_item(s, id))
  BY <1>1, ReadFailsKeeps
<1>4. CASE \/ Becomes(e, detach_item(s, id)) /\ UNCHANGED wire
           \/ Becomes(e, defer_item(s, id)) /\ UNCHANGED wire
  BY <1>1, <1>3, <1>4, EndKeeps
<1>5. CASE ~(f.length <= 0) /\ Becomes(e, data_sent(s, f)) /\ Put(e, f)
  <2>1. f.length > 0
    <3>1. s.streams[id].item \in Nat /\ s.streams[id].remote_window_size \in Int
          /\ s.remote_window_size \in Int
      BY <1>1, FieldTypes, StreamTypes DEF SessionInv, Sound
    <3>2. f.length \in Int
      BY <3>1, SizeAssumption DEF NextData, Data, Min2
    <3> QED
      BY <1>5, <3>2
  <2>2. f \in Frames(Srv(e)) /\ Sends(Srv(e), s, f, data_sent(s, f))
    BY <1>1, <1>2, <2>1, DataSends
  <2> HIDE DEF f
  <2> QED
    BY <1>1, <1>5, <2>2, EndSends
<1> QED
  BY <1>1, <1>4, <1>5

\* The connection ends: what was under way is lost.
LEMMA EndTurns ==
    ASSUME WindowsInv, NEW e \in Ends, Drop(e) \/ EndOfFile(e)
    PROVE  Turn
<1>1. /\ UNCHANGED session /\ alive' = [alive EXCEPT ![e] = FALSE]
      /\ alive \in [Ends -> BOOLEAN] /\ DOMAIN wire = Ends
      /\ wire' = [wire EXCEPT ![Peer(e)] = <<>>] \/ wire' = wire
      /\ client \in SessionType(Srv("client"))
      /\ ConnectionInv
  BY SideFacts DEF WindowsInv, ConnectionInv, OthersOK, WireOK, Drop, EndOfFile
<1>2. client' = client /\ server' = server
  BY <1>1 DEF client, server
<1>3. ~Running' /\ ~Open'
  BY <1>1 DEF Running, Open, Ends
<1>4. /\ Members(wire'["client"]) \subseteq Members(wire["client"])
      /\ Members(wire'["server"]) \subseteq Members(wire["server"])
  <2>1. Members(<<>>) = {}
    BY DEF Members
  <2>2. /\ wire'["client"] = wire["client"] \/ wire'["client"] = <<>>
        /\ wire'["server"] = wire["server"] \/ wire'["server"] = <<>>
    BY <1>1 DEF Ends
  <2> QED
    BY <2>1, <2>2
<1>5. Lives(client, client, {}) /\ StaysShut(client, client)
  BY <1>1, Sides, KeepsSelf, StillShut DEF Keeps, Settles
<1>6. ClientMoves(client, client, wire["client"], wire'["client"],
                  wire["server"], wire'["server"])
  BY <1>4, <1>5 DEF ClientMoves
<1> QED
  BY <1>2, <1>3, <1>6 DEF Turn, ClientTurn

LEMMA ClientAppTurns ==
    ASSUME WindowsInv, Onward, ClientApp
    PROVE  Turn
<1>1. /\ "client" \in Ends /\ Srv("client") \in BOOLEAN /\ ~Srv("client")
      /\ SessionInv(Srv("client"), client) /\ session["client"] = client
  BY Sides, SideFacts DEF WindowsInv, client
<1>2. ASSUME NEW t, Keeps(client, t), Becomes("client", t), UNCHANGED <<wire, alive>>
      PROVE  Turn
  BY <1>1, <1>2, EndKeeps
<1>3. CASE SendRequest
  <2>1. Keeps(client, submit_request(client))
    BY <1>1, <1>3, RequestSubmittedKeeps DEF SendRequest
  <2> QED
    BY <1>2, <1>3, <2>1 DEF SendRequest
<1>4. ASSUME NEW id \in StreamIds, ResetStream(id) PROVE Turn
  <2>1. Keeps(client, add_rst_stream(client, id))
    BY <1>1, EndsKeep
  <2> QED
    BY <1>2, <1>4, <2>1 DEF ResetStream
<1>5. CASE TightenLimit
  <2>1. Settings(1, Unchanged) \in SettingsFrames
    BY DEF Settings, SettingsFrames, Unchanged
  <2>2. Keeps(client, submit_settings(client, Settings(1, Unchanged)))
    BY <1>1, <2>1, SettingsSubmittedKeeps
  <2> QED
    BY <1>2, <1>5, <2>2 DEF TightenLimit
<1>6. CASE SettingsTimeout
  <2>1. Keeps(client, terminate_session(client))
    BY <1>1, TerminateKeeps DEF SessionInv, Sound
  <2> QED
    BY <1>2, <1>6, <2>1 DEF SettingsTimeout
<1> QED
  BY <1>3, <1>4, <1>5, <1>6 DEF ClientApp

LEMMA ServerAppTurns ==
    ASSUME WindowsInv, Onward, ServerApp
    PROVE  Turn
<1>1. /\ "server" \in Ends /\ Srv("server") \in BOOLEAN /\ Srv("server")
      /\ SessionInv(Srv("server"), server) /\ session["server"] = server
  BY Sides, SideFacts DEF WindowsInv, server
<1>2. ASSUME NEW t, Stays(Srv("server"), server, t), Becomes("server", t),
             UNCHANGED <<wire, alive>>
      PROVE  Turn
  BY <1>1, <1>2, EndStays
<1>3. PICK id \in StreamIds : Respond(id) \/ Push(id) \/ ReadFails(id)
  BY DEF ServerApp
<1>4. CASE Respond(id)
  <2>1. PICK n \in Sizes : Becomes("server", submit_response(server, id, n))
    BY <1>4 DEF Respond
  <2>2. n \in Nat
    BY LimitAssumption
  <2>3. Stays(Srv("server"), server, submit_response(server, id, n))
    BY <1>1, <2>2, ResponseSubmittedKeeps, KeepsStays
  <2> QED
    BY <1>2, <1>4, <2>1, <2>3 DEF Respond
<1>5. CASE Push(id)
  <2>1. Stays(Srv("server"), server, submit_push_promise(server, id))
    BY <1>1, <1>5, PromiseStays DEF Push
  <2> QED
    BY <1>2, <1>5, <2>1 DEF Push
<1>6. CASE ReadFails(id)
  <2>1. Stays(Srv("server"), server, add_rst_stream(detach_item(server, id), id))
    BY <1>1, ReadFailsKeeps, KeepsStays
  <2> QED
    BY <1>2, <1>6, <2>1 DEF ReadFails
<1> QED
  BY <1>3, <1>4, <1>5, <1>6

LEMMA WindowsStep ==
    ASSUME WindowsInv, [Next]_vars
    PROVE  WindowsInv'
<1>1. ConnectionInv' /\ Onward
  BY ConnectionStep DEF WindowsInv
<1>2. CASE UNCHANGED vars
  <2>1. UNCHANGED <<session, wire, alive>>
    BY <1>2 DEF vars
  <2> QED
    BY <1>1, <2>1 DEF WindowsInv, Open, Running, client, server
<1>3. CASE Next
  <2>1. ASSUME ClientApp PROVE Turn
    BY <1>1, <2>1, ClientAppTurns
  <2>2. ASSUME ServerApp PROVE Turn
    BY <1>1, <2>2, ServerAppTurns
  <2>3. ASSUME NEW e \in Ends, Send(e) PROVE Turn
    BY <1>1, <2>3, QueuesTurn, DataTurns DEF Send
  <2>4. ASSUME NEW e \in Ends, Receive(e) PROVE Turn
    BY <1>1, <2>4, EndReceives
  <2>5. ASSUME NEW e \in Ends, Drop(e) \/ EndOfFile(e) PROVE Turn
    BY <2>5, EndTurns
  <2>6. Turn
    BY <1>3, <2>1, <2>2, <2>3, <2>4, <2>5 DEF Next
  <2> QED
    BY <1>1, <2>6, TurnKeeps
<1> QED
  BY <1>2, <1>3

LEMMA WindowsInit ==
    ASSUME Init
    PROVE  WindowsInv
<1>1. ConnectionInv
  BY ConnectionInit
<1>2. wire["client"] = <<>> /\ wire["server"] = <<>>
  BY DEF Init, Ends
<1>3. /\ client = submit_settings(session_new(FALSE, PeerMax),
                                  Settings(ClientMax, ClientWindow))
      /\ server = submit_settings(session_new(TRUE, Unlimited),
                                  Settings(ServerMax, Unchanged))
  BY DEF Init, Ends, client, server
<1>4. /\ client.ob_reg = <<>> /\ client.goaway_flags = {} /\ client.recv_window_size = 0
      /\ client.streams = [id \in StreamIds |-> NoStream]
      /\ server.streams = [id \in StreamIds |-> NoStream]
      /\ server.remote_window_size = InitialWindow
      /\ server.last_sent_stream_id = 0
  BY <1>3 DEF submit_settings, Enqueue, session_new
<1>5. \A k \in StreamIds :
        /\ client.streams[k].state = "IDLE" /\ server.streams[k].state = "IDLE"
        /\ client.streams[k].recv_window_size = 0
  BY <1>4 DEF NoStream
<1>6. FlagsOK(client)
  BY <1>4 DEF FlagsOK
<1>7. IdsOK(client, server, wire["client"], wire["server"])
  <2>1. Members(<<>>) = {}
    BY DEF Members
  <2> QED
    BY <1>2, <1>5, <2>1 DEF IdsOK, EvenReserved, Idle
<1>8. WindowsOK(client, server, wire["client"], wire["server"])
  <2>1. \A k \in Levels : /\ Payload(wire["server"], k) = 0
                          /\ Back(client, wire["client"], k) = 0
    <3> SUFFICES ASSUME NEW k \in Levels
                 PROVE  /\ Payload(wire["server"], k) = 0
                        /\ Back(client, wire["client"], k) = 0
      OBVIOUS
    <3>1. Held(client, k) = 0
      BY <1>4, <1>5 DEF Held, Levels
    <3>2. Credit(<<>>, k) = 0 /\ Payload(<<>>, k) = 0
      BY CreditEmpty
    <3> QED
      BY <1>2, <1>4, <3>1, <3>2 DEF Back, Level
  <2>2. Sendable(server, 0) = 0
    BY <1>4, SizeAssumption DEF Sendable
  <2>3. Balance(client, server, wire["client"], wire["server"], 0) = 0
    BY <2>1, <2>2, StreamLevels DEF Balance
  <2>4. Aligned(client)
    BY <1>5 DEF Aligned, Active
  <2>5. \A k \in StreamIds : server.streams[k].state \notin Live
    BY <1>5 DEF Live
  <2> QED
    BY <2>1, <2>3, <2>4, <2>5, StreamLevels DEF WindowsOK
<1> QED
  BY <1>1, <1>6, <1>7, <1>8 DEF WindowsInv

\* The invariant is inductive, whatever the windows, sizes and limits are.
LEMMA WindowsAlways == Spec => []WindowsInv
<1>1. Init => WindowsInv
  BY WindowsInit
<1>2. WindowsInv /\ [Next]_vars => WindowsInv'
  BY WindowsStep
<1> QED
  BY <1>1, <1>2, PTL DEF Spec

LEMMA AddUp ==
    ASSUME NEW window \in Int, NEW base \in Int, NEW payload \in Nat, NEW held \in Nat,
           NEW sent \in Nat, NEW queued \in Nat,
           (window - base) + payload + ((held + queued) + sent) = 0
    PROVE  window + payload + held + (sent + queued) = base
OBVIOUS

\* The sums of the properties are those of the invariant.
LEMMA SumsAgree ==
    ASSUME ConnectionInv
    PROVE  /\ DataOf(StreamIds) = Payload(wire["server"], 0)
           /\ CreditOf(0) = Credit(wire["client"], 0) + Credit(client.ob_reg, 0)
           /\ \A k \in StreamIds :
                /\ DataOf({k}) = Payload(wire["server"], k)
                /\ CreditOf(k) = Credit(wire["client"], k) + Credit(client.ob_reg, k)
<1> DEFINE w == wire["server"]
           q == wire["client"] \o client.ob_reg
<1>1. /\ w \in Seq(AllFrames) /\ wire["client"] \in Seq(AllFrames)
      /\ client.ob_reg \in Seq(AllFrames)
  BY SideFacts, Sides, LevelTypes, StreamLevels
<1>2. q \in Seq(AllFrames) /\ \A k : Credit(q, k) = Credit(wire["client"], k)
                                                      + Credit(client.ob_reg, k)
  BY <1>1, ConcatProperties, CreditConcat
<1>3. (\A i \in DOMAIN w : w[i] \in AllFrames) /\ \A i \in DOMAIN q : q[i] \in AllFrames
  <2> HIDE DEF w, q
  <2>1. DOMAIN w = 1 .. Len(w) /\ DOMAIN q = 1 .. Len(q)
    BY <1>1, <1>2, LenProperties
  <2> QED
    BY <1>1, <1>2, <2>1, ElementOfSeq
<1>4. \A k : CreditOf(k) = Credit(q, k)
  <2> SUFFICES ASSUME NEW k PROVE CreditOf(k) = Credit(q, k)
    OBVIOUS
  <2>1. CreditOf(k) = SumOf([i \in DOMAIN q |->
                        IF q[i].type = "WINDOW_UPDATE" /\ q[i].id = k THEN q[i].increment ELSE 0])
    BY DEF CreditOf, Total
  <2> HIDE DEF q
  <2>2. \A i \in DOMAIN q :
          Increments(k)[q[i]] =
            IF q[i].type = "WINDOW_UPDATE" /\ q[i].id = k THEN q[i].increment ELSE 0
    BY <1>3 DEF Increments
  <2>3. [i \in DOMAIN q |-> Increments(k)[q[i]]] =
        [i \in DOMAIN q |->
           IF q[i].type = "WINDOW_UPDATE" /\ q[i].id = k THEN q[i].increment ELSE 0]
    BY <2>2
  <2> QED
    BY <2>1, <2>3 DEF Credit, Units
<1>5. ASSUME NEW k \in Levels, NEW ids,
             \A n \in StreamIds : n \in ids <=> k = 0 \/ n = k
      PROVE  DataOf(ids) = Payload(w, k)
  <2>1. DataOf(ids) = SumOf([i \in DOMAIN w |->
                        IF w[i].type = "DATA" /\ w[i].id \in ids THEN w[i].length ELSE 0])
    BY DEF DataOf, Total
  <2> HIDE DEF w
  <2>2. \A i \in DOMAIN w :
          Lengths(k)[w[i]] =
            IF w[i].type = "DATA" /\ w[i].id \in ids THEN w[i].length ELSE 0
    <3> SUFFICES ASSUME NEW i \in DOMAIN w
                 PROVE  Lengths(k)[w[i]] =
                          IF w[i].type = "DATA" /\ w[i].id \in ids THEN w[i].length ELSE 0
      OBVIOUS
    <3>1. w[i].type = "DATA" => w[i].id \in StreamIds
      BY <1>3, FramesOfType DEF DataFrames
    <3> QED
      BY <1>3, <1>5, <3>1 DEF Lengths
  <2>3. [i \in DOMAIN w |-> Lengths(k)[w[i]]] =
        [i \in DOMAIN w |->
           IF w[i].type = "DATA" /\ w[i].id \in ids THEN w[i].length ELSE 0]
    BY <2>2
  <2> QED
    BY <2>1, <2>3 DEF Payload, Units
<1>6. DataOf(StreamIds) = Payload(w, 0)
  BY <1>5, StreamLevels
<1>7. \A k \in StreamIds : DataOf({k}) = Payload(w, k)
  BY <1>5, StreamLevels
<1> QED
  BY <1>2, <1>4, <1>6, <1>7

-----------------------------------------------------------------------------
(***************************************************************************)
(* The theorems.                                                           *)
(***************************************************************************)
\* No unit of the connection window is ever lost or made: what the server may
\* send, what is on its way, what the client has counted and what it gives
\* back add up to the initial window, in every interleaving of requests,
\* resets, pushes, failures and changes of the settings.
THEOREM ConnectionWindowKept == Spec => []ConnectionWindowConserved
<1>1. WindowsInv => ConnectionWindowConserved
  <2> SUFFICES ASSUME WindowsInv, Open
               PROVE  server.remote_window_size + DataOf(StreamIds)
                        + client.recv_window_size + CreditOf(0) = InitialWindow
    BY DEF ConnectionWindowConserved, Open, Running
  <2>1. /\ client \in SessionType(Srv("client")) /\ server \in SessionType(Srv("server"))
        /\ ConnectionInv /\ wire["client"] \in Seq(AllFrames)
        /\ wire["server"] \in Seq(AllFrames)
    BY SideFacts DEF WindowsInv
  <2>2. Balance(client, server, wire["client"], wire["server"], 0) = 0
    BY DEF WindowsInv, WindowsOK
  <2>3. DataOf(StreamIds) = Payload(wire["server"], 0)
        /\ CreditOf(0) = Credit(wire["client"], 0) + Credit(client.ob_reg, 0)
    BY <2>1, SumsAgree
  <2>4. /\ Credit(client.ob_reg, 0) \in Nat /\ Credit(wire["client"], 0) \in Nat
        /\ Payload(wire["server"], 0) \in Nat
        /\ client.recv_window_size \in Nat /\ server.remote_window_size \in Int
    BY <2>1, Sides, LevelTypes, CreditNat, FieldTypes, StreamLevels
  <2>5. Level(client, 0) = client.recv_window_size + Credit(client.ob_reg, 0)
        /\ Sendable(server, 0) = server.remote_window_size - InitialWindow
    BY DEF Level, Held, Sendable
  <2> DEFINE base == InitialWindow
             window == server.remote_window_size
             held == client.recv_window_size
             payload == Payload(wire["server"], 0)
             sent == Credit(wire["client"], 0)
             queued == Credit(client.ob_reg, 0)
  <2>6. (window - base) + payload + ((held + queued) + sent) = 0
    BY <2>2, <2>5 DEF Balance, Back
  <2>7. /\ window \in Int /\ base \in Int /\ payload \in Nat
        /\ held \in Nat /\ sent \in Nat /\ queued \in Nat
    BY <2>4, SizeAssumption
  <2>8. DataOf(StreamIds) = payload /\ CreditOf(0) = sent + queued
    BY <2>3
  <2> HIDE DEF base, window, held, payload, sent, queued
  <2>9. window + payload + held + (sent + queued) = base
    BY <2>6, <2>7, AddUp
  <2>10. window + DataOf(StreamIds) + held + CreditOf(0) = base
    BY <2>8, <2>9
  <2> QED
    BY <2>10 DEF window, base, held
<1> QED
  BY <1>1, WindowsAlways, PTL

\* The same of the window of every stream that both sides have open, while the
\* client changes the initial window and the two sides learn of it at
\* different times.
THEOREM StreamWindowKept == Spec => []StreamWindowConserved
<1>1. WindowsInv => StreamWindowConserved
  <2> SUFFICES ASSUME WindowsInv, Open, NEW id \in StreamIds,
                      client.streams[id].state \in {"OPENING", "OPENED"},
                      server.streams[id].state \in {"OPENING", "OPENED"}
               PROVE  server.streams[id].remote_window_size + DataOf({id})
                        + client.streams[id].recv_window_size + CreditOf(id)
                      = client.streams[id].local_window_size
                          + server.remote_initial_window - client.local_initial_window
    BY DEF StreamWindowConserved, Open, Running
  <2>1. /\ client \in SessionType(Srv("client")) /\ server \in SessionType(Srv("server"))
        /\ ConnectionInv /\ wire["client"] \in Seq(AllFrames)
        /\ wire["server"] \in Seq(AllFrames) /\ id # 0 /\ id \in Levels
    BY SideFacts, StreamLevels DEF WindowsInv
  <2>2. Balance(client, server, wire["client"], wire["server"], id) = 0
    <3>1. server.streams[id].state \in Live /\ Waiting(client, id)
      BY DEF Live, Waiting
    <3> QED
      BY <3>1 DEF WindowsInv, WindowsOK
  <2>3. client.streams[id].local_window_size = client.local_initial_window
    BY DEF WindowsInv, WindowsOK, Aligned, Active
  <2>4. DataOf({id}) = Payload(wire["server"], id)
        /\ CreditOf(id) = Credit(wire["client"], id) + Credit(client.ob_reg, id)
    BY <2>1, SumsAgree
  <2>5. /\ Credit(client.ob_reg, id) \in Nat /\ Credit(wire["client"], id) \in Nat
        /\ Payload(wire["server"], id) \in Nat
        /\ client.streams[id].recv_window_size \in Nat
        /\ server.streams[id].remote_window_size \in Int
        /\ server.remote_initial_window \in Int /\ client.local_initial_window \in Int
    BY <2>1, Sides, LevelTypes, CreditNat, FieldTypes, StreamTypes
  <2>6. /\ Level(client, id) = client.streams[id].recv_window_size + Credit(client.ob_reg, id)
        /\ Sendable(server, id)
             = server.streams[id].remote_window_size - server.remote_initial_window
    BY <2>1 DEF Level, Held, Sendable
  <2> DEFINE base == server.remote_initial_window
             window == server.streams[id].remote_window_size
             held == client.streams[id].recv_window_size
  <2>7. (window - base) + Payload(wire["server"], id)
          + ((held + Credit(client.ob_reg, id)) + Credit(wire["client"], id)) = 0
    BY <2>2, <2>6 DEF Balance, Back
  <2> HIDE DEF base, window, held
  <2>8. window \in Int /\ base \in Int /\ held \in Nat
    BY <2>5 DEF base, window, held
  <2>9. window + Payload(wire["server"], id) + held
          + (Credit(wire["client"], id) + Credit(client.ob_reg, id)) = base
    BY <2>5, <2>7, <2>8, AddUp
  <2>10. window + DataOf({id}) + held + CreditOf(id)
         = client.streams[id].local_window_size + base - client.local_initial_window
    BY <2>3, <2>4, <2>5, <2>8, <2>9
  <2> QED
    BY <2>10 DEF window, base, held
<1> QED
  BY <1>1, WindowsAlways, PTL
=============================================================================
