----------------------------- MODULE NetworkProofs -----------------------------
(***************************************************************************)
(* What a session of the network promises, for any configuration, any      *)
(* messages in both directions and any way in which their bytes arrive and *)
(* leave; the pool of connections and the loop that drives them, for any   *)
(* numbers of sessions and of connections; and the editor's client, for    *)
(* any waits, silences and room in its send buffer.                        *)
(***************************************************************************)
EXTENDS ZoicSession, ZoicSessionBank, EditorClient, SequenceTheorems,
        FiniteSetTheorems, WellFoundedInduction, TLAPS

-----------------------------------------------------------------------------
(* A session.  The invariant says what an open connection is between two   *)
(* calls of routine: the bytes that are in the buffer or on the line       *)
(* follow each other from the start of the first message that was not      *)
(* handed on, the length that is kept is that message's, and what the      *)
(* socket was given with what is queued is all that was accepted.          *)

-----------------------------------------------------------------------------
(* Induction through a set of numbers; FlattenSeq, of which the library's  *)
(* definition is a recursive function.                                     *)

\* Every nonempty set of natural numbers has a least element.
LEMMA LeastNatural ==
    ASSUME NEW S, S \subseteq Nat, S # {}
    PROVE  \E n \in S : \A m \in S : n <= m
<1>1. \E x \in S : \A y \in S : ~(<<y, x>> \in OpToRel(<, Nat))
  BY NatLessThanWellFounded, WFMin
<1>2. PICK x \in S : \A y \in S : ~(<<y, x>> \in OpToRel(<, Nat))
  BY <1>1
<1>3. \A y \in S : ~(y < x)
  BY <1>2 DEF OpToRel
<1> QED BY <1>3

\* A set that holds 0 and, with each number below n, the next one holds them all.
LEMMA Upwards ==
    ASSUME NEW n \in Nat, NEW S, 0 \in S, \A i \in 0..n : i < n /\ i \in S => i + 1 \in S
    PROVE  \A i \in 0..n : i \in S
<1> DEFINE bad == {i \in 0..n : i \notin S}
<1>1. SUFFICES ASSUME bad # {} PROVE FALSE
  OBVIOUS
<1>2. PICK i \in bad : \A m \in bad : i <= m
  <2>1. bad \subseteq Nat
    OBVIOUS
  <2> HIDE DEF bad
  <2> QED BY <1>1, <2>1, LeastNatural
<1>3. i \in 0..n /\ i \notin S /\ i # 0
  BY <1>2
<1>4. i - 1 \in 0..n /\ i - 1 < n /\ (i - 1) + 1 = i /\ i - 1 \notin bad
  BY <1>2, <1>3
<1>5. i - 1 \in S
  BY <1>4
<1> QED BY <1>3, <1>4, <1>5

-----------------------------------------------------------------------------
\* FlattenSeq of one sequence more.  The function by which the library defines
\* it exists, for it can be built one place at a time.
FlatOf(q, f, n) == f = [i \in 1..n |-> IF i = 1 THEN q[i] ELSE f[i - 1] \o q[i]]

\* Such a function exists.
LEMMA FlatExists ==
    ASSUME NEW q, NEW n \in Nat
    PROVE  \E f : FlatOf(q, f, n)
<1> DEFINE S == {i \in 0..n : \E f : FlatOf(q, f, i)}
<1>1. 0 \in S
  <2>1. FlatOf(q, [i \in 1..0 |-> q[i]], 0)
    BY DEF FlatOf
  <2> QED BY <2>1
<1>2. ASSUME NEW i \in 0..n, i < n, i \in S PROVE i + 1 \in S
  <2>1. PICK f : FlatOf(q, f, i)
    BY <1>2
  <2> DEFINE g == [k \in 1..(i + 1) |-> IF k <= i THEN f[k]
                                         ELSE IF k = 1 THEN q[k] ELSE f[k - 1] \o q[k]]
  <2>2. ASSUME NEW k \in 1..(i + 1) PROVE g[k] = IF k = 1 THEN q[k] ELSE g[k - 1] \o q[k]
    <3>1. CASE k <= i
      <4>1. k \in 1..i /\ (k # 1 => k - 1 \in 1..i /\ k - 1 \in 1..(i + 1))
        BY <3>1
      <4>2. f[k] = IF k = 1 THEN q[k] ELSE f[k - 1] \o q[k]
        BY <2>1, <4>1 DEF FlatOf
      <4>3. k # 1 => g[k - 1] = f[k - 1]
        BY <4>1
      <4>4. g[k] = f[k]
        BY <3>1
      <4> HIDE DEF g
      <4> QED BY <4>2, <4>3, <4>4
    <3>2. CASE k = i + 1
      <4>1. k # 1 => k - 1 \in 1..i /\ k - 1 \in 1..(i + 1)
        BY <3>2
      <4>2. k # 1 => g[k - 1] = f[k - 1]
        BY <4>1
      <4>3. g[k] = IF k = 1 THEN q[k] ELSE f[k - 1] \o q[k]
        BY <3>2
      <4> HIDE DEF g
      <4> QED BY <4>2, <4>3
    <3> QED BY <3>1, <3>2
  <2>3. g = [k \in 1..(i + 1) |-> IF k = 1 THEN q[k] ELSE g[k - 1] \o q[k]]
    <3>1. g = [k \in 1..(i + 1) |-> g[k]]
      OBVIOUS
    <3> HIDE DEF g
    <3> QED BY <2>2, <3>1
  <2>4. FlatOf(q, g, i + 1)
    <3> HIDE DEF g
    <3> QED BY <2>3 DEF FlatOf
  <2>5. \E h : FlatOf(q, h, i + 1)
    BY <2>4
  <2> QED BY <1>2, <2>5
<1>3. n \in S
  <2> HIDE DEF S
  <2> QED BY <1>1, <1>2, Upwards
<1> QED BY <1>3

\* What the library's function is, for a sequence of n members.
Flat(q, n) == CHOOSE f : FlatOf(q, f, n)

\* It is the one the library chooses,
LEMMA FlatIs == ASSUME NEW q, NEW n \in Nat PROVE FlatOf(q, Flat(q, n), n)
<1> DEFINE P(h) == FlatOf(q, h, n)
<1>1. \E h : P(h)
  BY FlatExists
<1>2. P(CHOOSE h : P(h))
  BY <1>1, Zenon
<1> QED BY <1>2 DEF Flat

\* and its last value is the sequence the library flattens to.
LEMMA FlatUnfolds ==
    ASSUME NEW q, Len(q) \in Nat
    PROVE  FlattenSeq(q) = IF Len(q) = 0 THEN q ELSE Flat(q, Len(q))[Len(q)]
BY DEF FlattenSeq, Flat, FlatOf

\* Its entries, one by one.
LEMMA FlatSteps ==
    ASSUME NEW q, NEW n \in Nat
    PROVE  \A i \in 1..n : Flat(q, n)[i] = IF i = 1 THEN q[i] ELSE Flat(q, n)[i - 1] \o q[i]
<1> DEFINE f == Flat(q, n)
<1>1. FlatOf(q, f, n)
  BY FlatIs
<1> HIDE DEF f
<1>2. \A i \in 1..n : f[i] = IF i = 1 THEN q[i] ELSE f[i - 1] \o q[i]
  BY <1>1 DEF FlatOf
<1> QED BY <1>2 DEF f

\* The entries of the two functions agree where the sequences do.
LEMMA FlatAgrees ==
    ASSUME NEW q, NEW r, NEW n \in Nat, NEW k \in Nat, n <= k,
           \A i \in 1..n : q[i] = r[i]
    PROVE  \A i \in 1..n : Flat(q, n)[i] = Flat(r, k)[i]
<1> DEFINE f == Flat(q, n)
           h == Flat(r, k)
           S == {i \in 0..n : i = 0 \/ f[i] = h[i]}
<1>1. FlatOf(q, f, n) /\ FlatOf(r, h, k)
  BY FlatIs
<1> HIDE DEF f, h
<1>2. /\ \A i \in 1..n : f[i] = IF i = 1 THEN q[i] ELSE f[i - 1] \o q[i]
      /\ \A i \in 1..k : h[i] = IF i = 1 THEN r[i] ELSE h[i - 1] \o r[i]
  BY <1>1 DEF FlatOf
<1>3. 0 \in S
  OBVIOUS
<1>4. ASSUME NEW i \in 0..n, i < n, i \in S PROVE i + 1 \in S
  <2>1. i + 1 \in 1..n /\ i + 1 \in 1..k /\ (i + 1) - 1 = i
    BY <1>4
  <2>2. f[i + 1] = IF i + 1 = 1 THEN q[i + 1] ELSE f[i] \o q[i + 1]
    BY <1>2, <2>1
  <2>3. h[i + 1] = IF i + 1 = 1 THEN r[i + 1] ELSE h[i] \o r[i + 1]
    BY <1>2, <2>1
  <2>4. i # 0 => f[i] = h[i]
    BY <1>4
  <2>5. q[i + 1] = r[i + 1]
    BY <2>1
  <2>6. f[i + 1] = h[i + 1]
    BY <2>2, <2>3, <2>4, <2>5
  <2> QED BY <2>1, <2>6
<1>5. \A i \in 0..n : i \in S
  <2> HIDE DEF S
  <2> QED BY <1>3, <1>4, Upwards
<1> QED BY <1>5 DEF f, h

\* The bytes of one message more come after those of the others.
LEMMA FlattenAppends ==
    ASSUME NEW T, NEW q \in Seq(Seq(T)), NEW e \in Seq(T)
    PROVE  FlattenSeq(Append(q, e)) = FlattenSeq(q) \o e
<1> DEFINE r == Append(q, e)
           n == Len(q)
<1>1. /\ n \in Nat /\ Len(r) = n + 1 /\ r \in Seq(Seq(T)) /\ r[n + 1] = e
      /\ \A i \in 1..n : r[i] = q[i]
  BY AppendProperties
<1>2. FlattenSeq(r) = Flat(r, n + 1)[n + 1]
  <2>1. Len(r) \in Nat /\ Len(r) # 0
    BY <1>1
  <2> HIDE DEF r
  <2>2. FlattenSeq(r) = Flat(r, Len(r))[Len(r)]
    BY <2>1, FlatUnfolds
  <2> QED BY <1>1, <2>2
<1> HIDE DEF r
<1>3. \A i \in 1..(n + 1) :
         Flat(r, n + 1)[i] = IF i = 1 THEN r[i] ELSE Flat(r, n + 1)[i - 1] \o r[i]
  BY <1>1, FlatSteps
<1>4. CASE n = 0
  <2>1. q = <<>> /\ FlattenSeq(q) = q
    BY <1>4, <1>1, FlatUnfolds, EmptySeq
  <2>2. FlattenSeq(r) = e
    BY <1>1, <1>2, <1>3, <1>4
  <2>3. <<>> \o e = e
    BY ConcatEmptySeq
  <2> QED BY <2>1, <2>2, <2>3 DEF r
<1>5. CASE n # 0
  <2>1. n \in 1..n /\ n + 1 \in 1..(n + 1) /\ n + 1 # 1 /\ (n + 1) - 1 = n
    BY <1>1, <1>5
  <2>2. FlattenSeq(q) = Flat(q, n)[n]
    BY <1>1, <1>5, FlatUnfolds
  <2>3. Flat(q, n)[n] = Flat(r, n + 1)[n]
    <3>1. n <= n + 1 /\ n + 1 \in Nat /\ \A i \in 1..n : q[i] = r[i]
      BY <1>1
    <3>2. \A i \in 1..n : Flat(q, n)[i] = Flat(r, n + 1)[i]
      <4> DEFINE k == n + 1
      <4>1. n \in Nat /\ k \in Nat /\ n <= k /\ \A i \in 1..n : q[i] = r[i]
        BY <1>1, <3>1
      <4> HIDE DEF k, n
      <4>2. \A i \in 1..n : Flat(q, n)[i] = Flat(r, k)[i]
        BY <4>1, FlatAgrees
      <4> QED BY <4>2 DEF k
    <3> QED BY <2>1, <3>2
  <2>4. FlattenSeq(r) = Flat(r, n + 1)[n] \o e
    BY <1>1, <1>2, <1>3, <2>1
  <2> QED BY <2>2, <2>3, <2>4 DEF r
<1> QED BY <1>4, <1>5

\* What is flattened is a sequence again.
LEMMA FlattenTyped ==
    ASSUME NEW T, NEW q \in Seq(Seq(T))
    PROVE  FlattenSeq(q) \in Seq(T)
<1> DEFINE n == Len(q)
           f == Flat(q, n)
           S == {i \in 0..n : i = 0 \/ f[i] \in Seq(T)}
<1>1. n \in Nat /\ \A i \in 1..n : q[i] \in Seq(T)
  OBVIOUS
<1>2. \A i \in 1..n : f[i] = IF i = 1 THEN q[i] ELSE f[i - 1] \o q[i]
  BY <1>1, FlatSteps
<1>3. 0 \in S
  BY <1>1
<1>4. ASSUME NEW i \in 0..n, i < n, i \in S PROVE i + 1 \in S
  <2>1. i + 1 \in 1..n /\ (i + 1) - 1 = i /\ q[i + 1] \in Seq(T)
    BY <1>4, <1>1
  <2>2. f[i + 1] = IF i + 1 = 1 THEN q[i + 1] ELSE f[i] \o q[i + 1]
    BY <1>2, <2>1
  <2>3. i # 0 => f[i] \in Seq(T)
    BY <1>4
  <2> HIDE DEF f
  <2>4. f[i + 1] \in Seq(T)
    BY <2>1, <2>2, <2>3
  <2> QED BY <2>1, <2>4
<1>5. \A i \in 0..n : i \in S
  <2> HIDE DEF S
  <2> QED BY <1>1, <1>3, <1>4, Upwards
<1>6. CASE n = 0
  <2>1. q = <<>> /\ FlattenSeq(q) = q
    BY <1>6, <1>1, FlatUnfolds, EmptySeq
  <2>2. <<>> \in Seq(T)
    OBVIOUS
  <2> QED BY <2>1, <2>2, Zenon
<1>7. CASE n # 0
  <2>1. FlattenSeq(q) = f[n] /\ n \in 0..n
    BY <1>7, <1>1, FlatUnfolds
  <2> QED BY <1>5, <1>7, <2>1
<1> QED BY <1>6, <1>7

-----------------------------------------------------------------------------
\* Bytes of messages.
LEMMA BytesTyped ==
    ASSUME NEW m \in Nat \ {0}, NEW n \in Nat
    PROVE  Bytes(m, n) \in Seq(Byte) /\ Len(Bytes(m, n)) = n
           /\ \A j \in 1..n : Bytes(m, n)[j] = <<m, j>>
<1>1. Bytes(m, n) \in [1..n -> Byte]
  BY DEF Bytes, Byte
<1> QED BY <1>1, IsASeq, LenProperties DEF Bytes

\* What was asked for is a sequence of bytes,
LEMMA AskedTyped == ASSUME NEW out \in Seq(Nat) PROVE AskedBytes(out) \in Seq(Byte)
<1> DEFINE q == [m \in 1..Len(out) |-> Bytes(m, out[m])]
<1>1. \A m \in 1..Len(out) : Bytes(m, out[m]) \in Seq(Byte)
  BY BytesTyped
<1>2. Len(out) \in Nat /\ q \in Seq(Seq(Byte))
  BY <1>1
<1> HIDE DEF q
<1>3. FlattenSeq(q) \in Seq(Byte)
  BY <1>2, FlattenTyped
<1> QED BY <1>3 DEF AskedBytes, q

\* A message that is accepted is asked for after the others.
LEMMA AskedAppends ==
    ASSUME NEW out \in Seq(Nat), NEW size \in Nat
    PROVE  AskedBytes(Append(out, size)) = AskedBytes(out) \o Bytes(Len(out) + 1, size)
<1> DEFINE n == Len(out)
           o == Append(out, size)
           q == [m \in 1..n |-> Bytes(m, out[m])]
           e == Bytes(n + 1, size)
           r == [m \in 1..Len(o) |-> Bytes(m, o[m])]
<1>1. n \in Nat /\ Len(o) = n + 1 /\ o[n + 1] = size /\ \A m \in 1..n : o[m] = out[m] /\ out[m] \in Nat
  BY AppendProperties
<1>2. \A m \in 1..n : Bytes(m, out[m]) \in Seq(Byte)
  <2> TAKE m \in 1..n
  <2>1. m \in Nat \ {0} /\ out[m] \in Nat
    BY <1>1
  <2> QED BY <2>1, BytesTyped
<1>3. q \in Seq(Seq(Byte)) /\ Len(q) = n
  BY <1>1, <1>2
<1>4. e \in Seq(Byte)
  BY <1>1, BytesTyped
<1>5. r = Append(q, e)
  <2>1. Append(q, e) \in Seq(Seq(Byte)) /\ Len(Append(q, e)) = n + 1 /\ Append(q, e)[n + 1] = e
        /\ \A m \in 1..n : Append(q, e)[m] = q[m]
    <3> HIDE DEF q, e
    <3> QED BY <1>1, <1>3, <1>4, AppendProperties
  <2>2. r = [m \in 1..(n + 1) |-> r[m]] /\ r[n + 1] = e /\ \A m \in 1..n : r[m] = q[m]
    BY <1>1
  <2>3. Append(q, e) = [m \in 1..(n + 1) |-> Append(q, e)[m]]
    <3> DEFINE z == Append(q, e)
    <3>1. z \in [1..(n + 1) -> Seq(Byte)]
      BY <1>1, <2>1, LenProperties
    <3> HIDE DEF z
    <3>2. z = [m \in 1..(n + 1) |-> z[m]]
      BY <3>1
    <3> QED BY <3>2 DEF z
  <2>4. \A m \in 1..(n + 1) : r[m] = Append(q, e)[m]
    <3>1. \A m \in 1..(n + 1) : m = n + 1 \/ m \in 1..n
      BY <1>1
    <3> HIDE DEF q, e, r
    <3> QED BY <2>1, <2>2, <3>1
  <2> HIDE DEF q, e, r
  <2> QED BY <2>2, <2>3, <2>4
<1> HIDE DEF q, e, r
<1>6. FlattenSeq(r) = FlattenSeq(q) \o e
  BY <1>3, <1>4, <1>5, FlattenAppends
<1> QED BY <1>6 DEF AskedBytes, q, r, e

\* Of no messages there are no bytes.
LEMMA NothingAsked == AskedBytes(<<>>) = <<>>
<1> DEFINE q == [m \in 1..0 |-> Bytes(m, <<>>[m])]
<1>1. q \in Seq(Seq(Byte)) /\ Len(q) = 0
  OBVIOUS
<1>2. q = <<>>
  BY <1>1, EmptySeq
<1>3. FlattenSeq(q) = q
  <2> HIDE DEF q
  <2> QED BY <1>1, FlatUnfolds
<1>4. AskedBytes(<<>>) = FlattenSeq(q)
  BY DEF AskedBytes
<1> QED BY <1>2, <1>3, <1>4

-----------------------------------------------------------------------------
(* What the configuration is, and the types of the parts of a state.       *)

\* What the configuration is (SetupAssumption).
LEMMA ConfFacts ==
    ASSUME conf \in Setups
    PROVE  /\ BufSize \in Nat /\ BufSize >= 2
           /\ SendInit \in Nat /\ SendMax \in Nat /\ SendInit <= SendMax /\ SendInit > 0
           /\ Dynamic \in BOOLEAN /\ MayFail \in BOOLEAN
           /\ PingTimes \in Seq(Nat) /\ MaxPing \in Nat /\ MaxPing >= 1 /\ LastPing \in Nat
           /\ \A i \in 1..MaxPing : PingTimes[i] \in Nat /\ PingTimes[i] <= LastPing
           /\ Packet \subseteq [len : Nat, kind : Kinds] /\ OutSize \subseteq Nat
           /\ Stall \in Nat
<1>1. Setup(conf)
  BY SetupAssumption
<1>2. /\ BufSize \in Nat /\ BufSize >= 2
      /\ SendInit \in Nat /\ SendMax \in Nat /\ SendInit <= SendMax /\ SendInit > 0
      /\ Dynamic \in BOOLEAN /\ MayFail \in BOOLEAN
      /\ PingTimes \in Seq(Nat) /\ PingTimes # <<>>
      /\ Packet \subseteq [len : Nat, kind : Kinds] /\ OutSize \subseteq Nat
      /\ Stall \in Nat
  BY <1>1 DEF Setup, BufSize, SendInit, SendMax, Dynamic, MayFail, PingTimes, Packet, OutSize, Stall
<1>3. \A i \in DOMAIN PingTimes : PingTimes[i] <= LastPing
  BY <1>1 DEF Setup, PingTimes, LastPing, MaxPing
<1>4. MaxPing \in Nat /\ MaxPing >= 1 /\ DOMAIN PingTimes = 1..MaxPing
      /\ \A i \in 1..MaxPing : PingTimes[i] \in Nat
  BY <1>2, EmptySeq DEF MaxPing
<1>5. LastPing \in Nat
  BY <1>4 DEF LastPing
<1> QED BY <1>2, <1>3, <1>4, <1>5

SessionState ==
    [open : BOOLEAN, canRecv : BOOLEAN, canSend : BOOLEAN, sendBuf : Seq(Byte),
     sendSize : Nat, noSend : BOOLEAN, recvBuf : Seq(Byte), packetLen : Nat,
     error : Errors, pings : Nat, quiet : Nat]
Logs == [conns : Nat, given : Seq(Seq(Byte)), out : Seq(Nat), lost : BOOLEAN]

\* The sending side: the socket has what was asked but for what is queued, the
\* queue fits, and a loss is noticed.
Sending(t, lg, wire) ==
    /\ t \in SessionState /\ lg \in Logs /\ wire \in Seq(Byte)
    /\ wire \o t.sendBuf = AskedBytes(lg.out)
    /\ Len(t.sendBuf) <= t.sendSize /\ t.sendSize <= SendMax
    /\ lg.lost => t.error # "none" \/ t.noSend

\* What no step of the sending side touches.
SameRest(t, u) ==
    /\ u.open = t.open /\ u.canRecv = t.canRecv /\ u.recvBuf = t.recvBuf
    /\ u.packetLen = t.packetLen /\ u.pings = t.pings /\ u.quiet = t.quiet
    /\ u.noSend = t.noSend

\* An error is kept, or it is the given one.
ErrorIs(t, u, e) == u.error = t.error \/ (t.error = "none" /\ u.error = e)

\* setError touches the error alone.
LEMMA SessionError ==
    ASSUME NEW t \in SessionState, NEW e \in Errors
    PROVE  LET u == setError(t, e) IN
           /\ u \in SessionState /\ SameRest(t, u) /\ ErrorIs(t, u, e)
           /\ u.sendBuf = t.sendBuf /\ u.sendSize = t.sendSize /\ u.canSend = t.canSend
           /\ (e # "none" => u.error # "none")
BY DEF setError, SessionState, SameRest, ErrorIs

\* An error changes nothing that is queued.
LEMMA SendingError ==
    ASSUME NEW t, NEW lg, NEW w, Sending(t, lg, w), NEW e \in Errors
    PROVE  Sending(setError(t, e), lg, w)
<1> DEFINE u == setError(t, e)
<1>1. t \in SessionState
  BY DEF Sending
<1>2. u \in SessionState /\ SameRest(t, u) /\ ErrorIs(t, u, e) /\ u.sendBuf = t.sendBuf
      /\ u.sendSize = t.sendSize
  BY <1>1, SessionError
<1>3. t.error # "none" => u.error # "none"
  BY <1>2 DEF ErrorIs
<1> HIDE DEF u
<1>4. Sending(u, lg, w)
  BY <1>2, <1>3 DEF Sending, SameRest
<1> QED BY <1>4 DEF u

\* The buffer grows to no more than its maximum, and never shrinks.
LEMMA GrownWithin ==
    ASSUME conf \in Setups, NEW size \in Nat, size <= SendMax, NEW n \in Nat
    PROVE  Grown(size, n) \in Nat /\ size <= Grown(size, n) /\ Grown(size, n) <= SendMax
<1> DEFINE S == {k \in Doubled(size) : k >= n} \cup {SendMax}
<1>1. SendMax \in Nat
  BY ConfFacts
<1>2. CASE ~Dynamic \/ size >= n
  BY <1>1, <1>2 DEF Grown
<1>3. CASE ~(~Dynamic \/ size >= n)
  <2>1. Grown(size, n) = Min(S)
    BY <1>3 DEF Grown
  <2>2. S # {} /\ \A k \in S : k \in Nat /\ size <= k /\ k <= SendMax
    BY <1>1, <1>3 DEF Doubled
  <2> HIDE DEF S
  <2>3. \E k \in S : \A m \in S : k <= m
    BY <2>2, LeastNatural
  <2>4. Min(S) \in S
    <3> DEFINE P(k) == k \in S /\ \A m \in S : k <= m
    <3>1. P(CHOOSE k : P(k))
      BY <2>3, Zenon
    <3> QED BY <2>3 DEF Min
  <2> QED BY <2>1, <2>2, <2>4
<1> QED BY <1>2, <1>3

\* A message is queued whole, behind the others, or lost with an error.
LEMMA PushSends ==
    ASSUME conf \in Setups, NEW t, NEW lg, NEW w, Sending(t, lg, w), NEW size \in Nat
    PROVE  LET u == pushData(t, Len(lg.out) + 1, size)
               m == Asked(lg, t, size) IN
           /\ Sending(u, m, w) /\ SameRest(t, u) /\ u.canSend = t.canSend
           /\ ErrorIs(t, u, "sendbuffer") /\ m.given = lg.given /\ m.conns = lg.conns
<1> DEFINE k == Len(lg.out) + 1
           u == pushData(t, k, size)
           m == Asked(lg, t, size)
           room == Room(t, size)
           b == t.sendBuf \o Bytes(k, size)
           Goal == /\ Sending(u, m, w) /\ SameRest(t, u) /\ u.canSend = t.canSend
                   /\ ErrorIs(t, u, "sendbuffer") /\ m.given = lg.given /\ m.conns = lg.conns
<1>1. /\ t \in SessionState /\ lg \in Logs /\ w \in Seq(Byte)
      /\ w \o t.sendBuf = AskedBytes(lg.out)
      /\ Len(t.sendBuf) <= t.sendSize /\ t.sendSize <= SendMax
      /\ lg.lost => t.error # "none" \/ t.noSend
  BY DEF Sending
<1>2. /\ t.sendBuf \in Seq(Byte) /\ t.sendSize \in Nat /\ Len(t.sendBuf) \in Nat
      /\ lg.out \in Seq(Nat) /\ k \in Nat \ {0} /\ SendMax \in Nat
  BY <1>1, ConfFacts DEF SessionState, Logs
<1>3. room \in Nat /\ t.sendSize <= room /\ room <= SendMax
  <2> DEFINE n == Len(t.sendBuf) + size
             z == t.sendSize
  <2>1. n \in Nat /\ z \in Nat /\ z <= SendMax
    BY <1>1, <1>2
  <2>2. room = Grown(z, n)
    BY DEF Room
  <2> HIDE DEF n, z
  <2>3. Grown(z, n) \in Nat /\ z <= Grown(z, n) /\ Grown(z, n) <= SendMax
    BY <2>1, GrownWithin
  <2> QED BY <2>2, <2>3 DEF z
<1>4. Bytes(k, size) \in Seq(Byte) /\ Len(Bytes(k, size)) = size
  BY <1>2, BytesTyped
<1>5. b \in Seq(Byte) /\ Len(b) = Len(t.sendBuf) + size
  BY <1>2, <1>4, ConcatProperties
<1>6. ASSUME Fits(t, size) PROVE Goal
  <2> DEFINE o == Append(lg.out, size)
  <2>1. u = [t EXCEPT !.sendSize = room, !.sendBuf = b]
    BY <1>6 DEF pushData, Pushed
  <2>2. m = [lg EXCEPT !.out = o] /\ o \in Seq(Nat)
    BY <1>2, <1>6 DEF Asked
  <2>3. Len(b) <= room
    BY <1>5, <1>6 DEF Fits
  <2>4. w \o b = AskedBytes(o)
    <3>1. w \o b = (w \o t.sendBuf) \o Bytes(k, size)
      <4> DEFINE p == t.sendBuf
                 e == Bytes(k, size)
      <4>1. p \in Seq(Byte) /\ e \in Seq(Byte)
        BY <1>2, <1>4
      <4> HIDE DEF p, e
      <4>2. w \o (p \o e) = (w \o p) \o e
        BY <1>1, <4>1, ConcatAssociative
      <4> QED BY <4>2 DEF p, e
    <3>2. AskedBytes(o) = AskedBytes(lg.out) \o Bytes(k, size)
      BY <1>2, AskedAppends
    <3> QED BY <1>1, <3>1, <3>2
  <2> HIDE DEF u, m, room, b, o
  <2>5. u \in SessionState /\ u.sendBuf = b /\ u.sendSize = room /\ SameRest(t, u)
        /\ u.canSend = t.canSend /\ u.error = t.error
    BY <1>1, <1>3, <1>5, <2>1 DEF SessionState, SameRest
  <2>6. m \in Logs /\ m.out = o /\ m.lost = lg.lost /\ m.given = lg.given /\ m.conns = lg.conns
    BY <1>1, <2>2 DEF Logs
  <2>7. Sending(u, m, w)
    BY <1>1, <1>3, <2>3, <2>4, <2>5, <2>6 DEF Sending, SameRest
  <2>8. ErrorIs(t, u, "sendbuffer")
    BY <2>5 DEF ErrorIs
  <2> QED BY <2>5, <2>6, <2>7, <2>8
<1>7. ASSUME ~Fits(t, size), t.noSend PROVE Goal
  <2>1. u = t /\ m = [lg EXCEPT !.lost = TRUE]
    BY <1>7 DEF pushData, Asked
  <2> HIDE DEF m, u
  <2>2. m \in Logs /\ m.out = lg.out /\ m.given = lg.given /\ m.conns = lg.conns
    BY <1>1, <2>1 DEF Logs
  <2>3. Sending(t, m, w)
    BY <1>1, <1>7, <2>2 DEF Sending
  <2> QED BY <2>1, <2>2, <2>3 DEF SameRest, ErrorIs
<1>8. ASSUME ~Fits(t, size), ~t.noSend PROVE Goal
  <2> DEFINE v == [t EXCEPT !.sendSize = room]
  <2>1. u = setError(v, "sendbuffer")
    BY <1>8 DEF pushData
  <2>2. m = [lg EXCEPT !.lost = TRUE]
    BY <1>8 DEF Asked
  <2> HIDE DEF room
  <2>3. v \in SessionState /\ v.sendBuf = t.sendBuf /\ v.sendSize = room /\ SameRest(t, v)
        /\ v.canSend = t.canSend /\ v.error = t.error
    BY <1>1, <1>3 DEF SessionState, SameRest
  <2> HIDE DEF m, u, v
  <2>4. m \in Logs /\ m.out = lg.out /\ m.given = lg.given /\ m.conns = lg.conns
    BY <1>1, <2>2 DEF Logs
  <2>5. /\ u \in SessionState /\ SameRest(v, u) /\ ErrorIs(v, u, "sendbuffer")
        /\ u.sendBuf = v.sendBuf /\ u.sendSize = v.sendSize /\ u.canSend = v.canSend
        /\ u.error # "none"
    <3>1. "sendbuffer" \in Errors /\ "sendbuffer" # "none"
      BY DEF Errors
    <3> QED BY <2>1, <2>3, <3>1, SessionError
  <2>6. Sending(u, m, w)
    BY <1>1, <1>2, <1>3, <2>3, <2>4, <2>5 DEF Sending
  <2>7. SameRest(t, u) /\ ErrorIs(t, u, "sendbuffer") /\ u.canSend = t.canSend
    BY <2>3, <2>5 DEF SameRest, ErrorIs
  <2> QED BY <2>4, <2>6, <2>7
<1>9. Goal
  BY <1>6, <1>7, <1>8
<1> QED BY <1>9

-----------------------------------------------------------------------------
(* The steps of routine.  Work holds of the record they pass on.           *)

Works == [t : SessionState, log : Logs, wire : Seq(Byte), got : Nat, index : Nat,
          on : BOOLEAN, keep : BOOLEAN]
Work(x) == x \in Works /\ Sending(x.t, x.log, x.wire)

\* What the sending side leaves: the session's other members, what was given to
\* the handlers, and the place of the loop.
SendsOnly(x, y) ==
    /\ Work(y) /\ SameRest(x.t, y.t) /\ y.log.given = x.log.given /\ y.log.conns = x.log.conns
    /\ y.got = x.got /\ y.index = x.index /\ y.on = x.on /\ y.keep = x.keep

\* A message of routine itself (SYSPING) is queued like any other.
LEMMA SentOnly ==
    ASSUME conf \in Setups, NEW x, Work(x), NEW size \in Nat
    PROVE  LET y == Sent(x, size) IN
           SendsOnly(x, y) /\ ErrorIs(x.t, y.t, "sendbuffer")
<1> DEFINE u == pushData(x.t, Len(x.log.out) + 1, size)
           m == Asked(x.log, x.t, size)
           y == Sent(x, size)
<1>1. Sending(x.t, x.log, x.wire) /\ x \in Works
  BY DEF Work
<1>2. /\ Sending(u, m, x.wire) /\ SameRest(x.t, u) /\ ErrorIs(x.t, u, "sendbuffer")
      /\ m.given = x.log.given /\ m.conns = x.log.conns
  <2> DEFINE tx == x.t
             lx == x.log
             wx == x.wire
             ux == pushData(tx, Len(lx.out) + 1, size)
             mx == Asked(lx, tx, size)
  <2>1. Sending(tx, lx, wx)
    BY <1>1
  <2> HIDE DEF tx, lx, wx
  <2>2. /\ Sending(ux, mx, wx) /\ SameRest(tx, ux) /\ ErrorIs(tx, ux, "sendbuffer")
        /\ mx.given = lx.given /\ mx.conns = lx.conns
    BY <2>1, PushSends
  <2> QED BY <2>2 DEF tx, lx, wx
<1>3. y = [x EXCEPT !.t = u, !.log = m]
  BY DEF Sent
<1> HIDE DEF u, m, y
<1>4. u \in SessionState /\ m \in Logs
  BY <1>2 DEF Sending
<1>5. y \in Works /\ y.t = u /\ y.log = m /\ y.wire = x.wire /\ y.got = x.got
      /\ y.index = x.index /\ y.on = x.on /\ y.keep = x.keep
  BY <1>1, <1>3, <1>4 DEF Works
<1>6. SendsOnly(x, y) /\ ErrorIs(x.t, y.t, "sendbuffer")
  BY <1>2, <1>5 DEF SendsOnly, Work
<1> QED BY <1>6 DEF y

\* A change of the session that the sending side does not see.
LEMMA Touched ==
    ASSUME NEW x, Work(x), NEW u, u \in SessionState, u.sendBuf = x.t.sendBuf,
           u.sendSize = x.t.sendSize, u.noSend = x.t.noSend,
           x.t.error # "none" => u.error # "none"
    PROVE  LET y == [x EXCEPT !.t = u] IN
           /\ Work(y) /\ y.t = u /\ y.log = x.log /\ y.wire = x.wire /\ y.got = x.got
           /\ y.index = x.index /\ y.on = x.on /\ y.keep = x.keep
<1> DEFINE y == [x EXCEPT !.t = u]
<1>1. x \in Works /\ Sending(x.t, x.log, x.wire)
  BY DEF Work
<1>2. /\ y \in Works /\ y.t = u /\ y.log = x.log /\ y.wire = x.wire /\ y.got = x.got
      /\ y.index = x.index /\ y.on = x.on /\ y.keep = x.keep
  BY <1>1 DEF Works
<1> HIDE DEF y
<1>3. Sending(u, x.log, x.wire)
  BY <1>1 DEF Sending
<1>4. Work(y)
  BY <1>2, <1>3 DEF Work
<1> QED BY <1>2, <1>4 DEF y

\* So is an error of routine.
LEMMA ErrorOnly ==
    ASSUME conf \in Setups, NEW x, Work(x), NEW e \in Errors
    PROVE  LET y == [x EXCEPT !.t = setError(x.t, e)] IN
           /\ SendsOnly(x, y) /\ ErrorIs(x.t, y.t, e) /\ (e # "none" => y.t.error # "none")
           /\ y.log = x.log /\ y.t.sendBuf = x.t.sendBuf
<1> DEFINE u == setError(x.t, e)
           y == [x EXCEPT !.t = u]
<1>1. x.t \in SessionState
  BY DEF Work, Works
<1>2. /\ u \in SessionState /\ SameRest(x.t, u) /\ ErrorIs(x.t, u, e)
      /\ u.sendBuf = x.t.sendBuf /\ u.sendSize = x.t.sendSize
      /\ (e # "none" => u.error # "none")
  BY <1>1, SessionError
<1> HIDE DEF u
<1>3. u.noSend = x.t.noSend /\ (x.t.error # "none" => u.error # "none")
  BY <1>2 DEF SameRest, ErrorIs
<1>4. /\ Work(y) /\ y.t = u /\ y.log = x.log /\ y.wire = x.wire /\ y.got = x.got
      /\ y.index = x.index /\ y.on = x.on /\ y.keep = x.keep
  BY <1>2, <1>3, Touched
<1> HIDE DEF y
<1>5. /\ SendsOnly(x, y) /\ ErrorIs(x.t, y.t, e) /\ (e # "none" => y.t.error # "none")
      /\ y.log = x.log /\ y.t.sendBuf = x.t.sendBuf
  BY <1>2, <1>4 DEF SendsOnly
<1> QED BY <1>5 DEF y, u

\* What the sends of routine leave, with no silence found and no error lost.
Onwards(x, y) ==
    /\ SendsOnly(x, y)
    /\ y.t.error = "ping" => x.t.error = "ping"
    /\ x.t.error # "none" => y.t.error # "none"

\* Sends can follow each other,
LEMMA OnwardsTwice ==
    ASSUME NEW x, NEW y, NEW z, Onwards(x, y), Onwards(y, z) PROVE Onwards(x, z)
BY DEF Onwards, SendsOnly, SameRest

\* or not take place,
LEMMA OnwardsStays == ASSUME NEW x, Work(x) PROVE Onwards(x, x)
BY DEF Onwards, SendsOnly, SameRest

\* and an error that is no silence is one of them.
LEMMA OnwardsError ==
    ASSUME NEW x, NEW y, SendsOnly(x, y), NEW e, ErrorIs(x.t, y.t, e), e # "ping"
    PROVE  Onwards(x, y)
BY DEF Onwards, ErrorIs

\* The first n places of a sequence and the rest.
LEMMA Split ==
    ASSUME NEW T, NEW q \in Seq(T), NEW n \in 0..Len(q)
    PROVE  /\ Drop(q, n) \in Seq(T) /\ Len(Drop(q, n)) = Len(q) - n
           /\ SubSeq(q, 1, n) \in Seq(T) /\ Len(SubSeq(q, 1, n)) = n
           /\ SubSeq(q, 1, n) \o Drop(q, n) = q
           /\ \A i \in 1..(Len(q) - n) : Drop(q, n)[i] = q[i + n]
           /\ \A i \in 1..n : SubSeq(q, 1, n)[i] = q[i]
<1> DEFINE l == Len(q)
           a == SubSeq(q, 1, n)
           d == SubSeq(q, n + 1, l)
<1>1. l \in Nat /\ n \in Nat /\ n <= l
  OBVIOUS
<1>2. \A i \in 1..l : q[i] \in T
  OBVIOUS
<1>3. a \in Seq(T) /\ Len(a) = n /\ \A i \in 1..n : a[i] = q[i]
  BY <1>1, <1>2
<1>4. d \in Seq(T) /\ Len(d) = l - n /\ \A i \in 1..(l - n) : d[i] = q[i + n]
  BY <1>1, <1>2
<1>5. a \o d \in Seq(T) /\ Len(a \o d) = l /\ \A i \in 1..l : (a \o d)[i] = q[i]
  <2> HIDE DEF a, d
  <2>1. a \o d \in Seq(T) /\ Len(a \o d) = n + (l - n)
        /\ \A i \in 1..(n + (l - n)) : (a \o d)[i] = IF i <= n THEN a[i] ELSE d[i - n]
    BY <1>3, <1>4, ConcatProperties
  <2>2. n + (l - n) = l
    BY <1>1
  <2>3. ASSUME NEW i \in 1..l PROVE (a \o d)[i] = q[i]
    <3>1. (a \o d)[i] = IF i <= n THEN a[i] ELSE d[i - n]
      BY <2>1, <2>2
    <3>2. i <= n => i \in 1..n
      BY <1>1
    <3>3. ~(i <= n) => i - n \in 1..(l - n) /\ (i - n) + n = i
      BY <1>1
    <3> QED BY <1>3, <1>4, <3>1, <3>2, <3>3
  <2> QED BY <2>1, <2>2, <2>3
<1>6. a \o d = q
  <2> HIDE DEF a, d
  <2> QED BY <1>5, SeqEqual
<1> QED BY <1>3, <1>4, <1>6 DEF Drop

\* What the socket takes leaves the queue.
LEMMA SendDataOnly ==
    ASSUME conf \in Setups, NEW x, Work(x), NEW n \in SendOf(x.t)
    PROVE  Onwards(x, sendData(x, n))
<1>1. x \in Works /\ Sending(x.t, x.log, x.wire) /\ x.t \in SessionState
  BY DEF Work, Works
<1>2. x.t.sendBuf \in Seq(Byte) /\ n \in 0..Len(x.t.sendBuf) /\ x.wire \in Seq(Byte)
  BY <1>1 DEF SendOf, SessionState, Works
<1>3. CASE x.t.sendBuf = <<>>
  <2>1. sendData(x, n) = x
    BY <1>3 DEF sendData
  <2> QED BY <2>1, OnwardsStays
<1>4. CASE x.t.sendBuf # <<>> /\ peer.state = "reset"
  <2> DEFINE y == [x EXCEPT !.t = setError(x.t, "send")]
  <2>1. sendData(x, n) = y
    BY <1>4 DEF sendData
  <2>2. SendsOnly(x, y) /\ ErrorIs(x.t, y.t, "send")
    <3>1. "send" \in Errors
      BY DEF Errors
    <3> QED BY <3>1, ErrorOnly
  <2> HIDE DEF y
  <2>3. Onwards(x, y)
    <3>1. "send" # "ping"
      OBVIOUS
    <3> QED BY <2>2, <3>1, OnwardsError
  <2> QED BY <2>1, <2>3
<1>5. CASE x.t.sendBuf # <<>> /\ peer.state # "reset"
  <2> DEFINE q == x.t.sendBuf
             d == Drop(q, n)
             a == SubSeq(q, 1, n)
             w == x.wire \o a
             u == [x.t EXCEPT !.sendBuf = d]
             y == sendData(x, n)
  <2>1. y = [x EXCEPT !.t = u, !.wire = w]
    BY <1>5 DEF sendData
  <2>2. d \in Seq(Byte) /\ Len(d) = Len(q) - n /\ a \in Seq(Byte) /\ a \o d = q
    <3> HIDE DEF q
    <3> QED BY <1>2, Split DEF q
  <2>3. w \in Seq(Byte) /\ w \o d = x.wire \o q
    <3> HIDE DEF q, d, a
    <3>1. (x.wire \o a) \o d = x.wire \o (a \o d)
      <4> DEFINE v == x.wire
      <4>1. v \in Seq(Byte) /\ a \in Seq(Byte) /\ d \in Seq(Byte)
        BY <1>2, <2>2
      <4> HIDE DEF v
      <4>2. (v \o a) \o d = v \o (a \o d)
        BY <4>1, ConcatAssociative
      <4> QED BY <4>2 DEF v
    <3> QED BY <1>2, <2>2, <3>1, ConcatProperties
  <2> HIDE DEF d, a, w, y
  <2>4. u \in SessionState /\ SameRest(x.t, u) /\ u.sendBuf = d /\ u.sendSize = x.t.sendSize
        /\ u.error = x.t.error
    BY <1>1, <2>2 DEF SessionState, SameRest
  <2> HIDE DEF u
  <2>5. y \in Works /\ y.t = u /\ y.log = x.log /\ y.wire = w /\ y.got = x.got
        /\ y.index = x.index /\ y.on = x.on /\ y.keep = x.keep
    BY <1>1, <2>1, <2>3, <2>4 DEF Works
  <2>6. Len(d) <= x.t.sendSize
    BY <1>1, <1>2, <2>2 DEF Sending, SessionState
  <2> HIDE DEF q
  <2>7. Sending(u, x.log, w)
    BY <1>1, <2>3, <2>4, <2>6 DEF Sending, SameRest, q
  <2>8. Onwards(x, y)
    BY <2>4, <2>5, <2>7 DEF Onwards, SendsOnly, Work
  <2> QED BY <2>8 DEF y
<1> QED BY <1>3, <1>4, <1>5

\* The send of routine, and what it leaves of canSend.
LEMMA AfterSendOnly ==
    ASSUME conf \in Setups, NEW x, Work(x), NEW n \in SendOf(x.t)
    PROVE  Onwards(x, AfterSend(x, n))
<1> DEFINE y == sendData(x, n)
           u == [y.t EXCEPT !.canSend = FALSE]
           z == [y EXCEPT !.t = u]
<1>1. Onwards(x, y)
  BY SendDataOnly
<1> HIDE DEF y
<1>2. Work(y) /\ y.t \in SessionState
  BY <1>1 DEF Onwards, SendsOnly, Work, Works
<1>3. u \in SessionState /\ SameRest(y.t, u) /\ u.sendBuf = y.t.sendBuf /\ u.noSend = y.t.noSend
      /\ u.sendSize = y.t.sendSize /\ u.error = y.t.error
  BY <1>2 DEF SessionState, SameRest
<1> HIDE DEF u
<1>4. /\ Work(z) /\ z.t = u /\ z.log = y.log /\ z.wire = y.wire /\ z.got = y.got
      /\ z.index = y.index /\ z.on = y.on /\ z.keep = y.keep
  BY <1>2, <1>3, Touched
<1> HIDE DEF z
<1>5. Onwards(y, z)
  BY <1>3, <1>4 DEF Onwards, SendsOnly
<1>6. Onwards(x, z)
  BY <1>1, <1>5, OnwardsTwice
<1>7. AfterSend(x, n) = IF x.t.canSend THEN z ELSE x
  BY DEF AfterSend, Blocked, y, z, u
<1> QED BY <1>6, <1>7, OnwardsStays

\* The last send, of a connection that fails.
LEMMA LastSendOnly ==
    ASSUME conf \in Setups, NEW x, Work(x), NEW n \in SendOf(x.t)
    PROVE  Onwards(x, LastSend(x, n))
BY SendDataOnly, OnwardsStays DEF LastSend

\* The keep-alive: what a probe counts was due, and the silence it ends for was
\* the whole one.
Silences(t) ==
    /\ t.pings \in 0..MaxPing /\ t.quiet \in 0..LastPing
    /\ t.pings > 0 => t.quiet >= PingTimes[t.pings]
    /\ t.error = "ping" => t.quiet = LastPing

\* What the probe leaves to the receiving side.
ProbeOnly(x, y) ==
    /\ Work(y) /\ Silences(y.t)
    /\ y.t.open = x.t.open /\ y.t.recvBuf = x.t.recvBuf /\ y.t.packetLen = x.t.packetLen
    /\ y.log.given = x.log.given /\ y.log.conns = x.log.conns
    /\ y.got = x.got /\ y.keep = x.keep
    /\ x.t.error # "none" => y.t.error # "none"

\* A probe is counted.
LEMMA CountedTyped ==
    ASSUME NEW t \in SessionState, NEW c \in BOOLEAN
    PROVE  /\ Counted(t) \in SessionState
           /\ [Counted(t) EXCEPT !.canSend = c] \in SessionState
           /\ \A u \in {Counted(t), [Counted(t) EXCEPT !.canSend = c]} :
                /\ u.open = t.open /\ u.recvBuf = t.recvBuf /\ u.packetLen = t.packetLen
                /\ u.pings = t.pings + 1 /\ u.quiet = t.quiet /\ u.error = t.error
                /\ u.noSend = t.noSend /\ u.sendBuf = t.sendBuf /\ u.sendSize = t.sendSize
<1> DEFINE a == Counted(t)
           b == [a EXCEPT !.canSend = c]
<1>1. /\ a \in SessionState /\ a.open = t.open /\ a.recvBuf = t.recvBuf
      /\ a.packetLen = t.packetLen /\ a.pings = t.pings + 1 /\ a.quiet = t.quiet
      /\ a.error = t.error /\ a.noSend = t.noSend /\ a.sendBuf = t.sendBuf
      /\ a.sendSize = t.sendSize
  BY DEF Counted, SessionState
<1> HIDE DEF a
<1>2. /\ b \in SessionState /\ b.open = a.open /\ b.recvBuf = a.recvBuf
      /\ b.packetLen = a.packetLen /\ b.pings = a.pings /\ b.quiet = a.quiet
      /\ b.error = a.error /\ b.noSend = a.noSend /\ b.sendBuf = a.sendBuf
      /\ b.sendSize = a.sendSize
  BY <1>1 DEF SessionState
<1> HIDE DEF b
<1>3. \A u \in {a, b} :
        /\ u.open = t.open /\ u.recvBuf = t.recvBuf /\ u.packetLen = t.packetLen
        /\ u.pings = t.pings + 1 /\ u.quiet = t.quiet /\ u.error = t.error
        /\ u.noSend = t.noSend /\ u.sendBuf = t.sendBuf /\ u.sendSize = t.sendSize
  BY <1>1, <1>2
<1> QED BY <1>1, <1>2, <1>3 DEF a, b

\* The keep-alive counts the probe that is due, or ends the connection.
LEMMA ProbeStep ==
    ASSUME conf \in Setups, NEW x, Work(x), Silences(x.t), x.t.error # "ping"
    PROVE  ProbeOnly(x, probe(x))
<1> DEFINE t == x.t
           p == t.pings + 1
           c == Counted(t)
           u == [c EXCEPT !.canSend = TRUE]
<1>1. t \in SessionState /\ t.pings \in 0..MaxPing /\ t.quiet \in 0..LastPing
  BY DEF Work, Works, Silences
<1>2. MaxPing \in Nat /\ LastPing \in Nat /\ LastPing = PingTimes[MaxPing]
      /\ \A i \in 1..MaxPing : PingTimes[i] \in Nat
  BY ConfFacts DEF LastPing
<1>3. CASE NotDue(t)
  <2>1. probe(x) = x
    BY <1>3 DEF probe
  <2> QED BY <2>1 DEF ProbeOnly
<1>4. CASE ~NotDue(t) /\ p >= MaxPing
  <2> DEFINE v == setError(c, "ping")
             y == [x EXCEPT !.t = v]
  <2>1. probe(x) = y
    BY <1>4 DEF probe
  <2>2. p = MaxPing /\ t.quiet = LastPing
    BY <1>1, <1>2, <1>4 DEF NotDue
  <2>3. /\ c \in SessionState /\ c.open = t.open /\ c.recvBuf = t.recvBuf
        /\ c.packetLen = t.packetLen /\ c.pings = p /\ c.quiet = t.quiet /\ c.error = t.error
        /\ c.noSend = t.noSend /\ c.sendBuf = t.sendBuf /\ c.sendSize = t.sendSize
    BY <1>1, CountedTyped
  <2> HIDE DEF c
  <2>4. /\ v \in SessionState /\ SameRest(c, v) /\ ErrorIs(c, v, "ping")
        /\ v.sendBuf = c.sendBuf /\ v.sendSize = c.sendSize /\ v.error # "none"
    <3>1. "ping" \in Errors /\ "ping" # "none"
      BY DEF Errors
    <3> QED BY <2>3, <3>1, SessionError
  <2> HIDE DEF v
  <2>5. /\ Work(y) /\ y.t = v /\ y.log = x.log /\ y.wire = x.wire /\ y.got = x.got
        /\ y.index = x.index /\ y.on = x.on /\ y.keep = x.keep
    <3>1. v.sendBuf = x.t.sendBuf /\ v.sendSize = x.t.sendSize /\ v.noSend = x.t.noSend
      BY <2>3, <2>4 DEF SameRest
    <3> QED BY <2>4, <3>1, Touched
  <2> HIDE DEF y
  <2>6. Silences(v)
    BY <1>1, <1>2, <2>2, <2>3, <2>4 DEF Silences, SameRest
  <2>7. ProbeOnly(x, y)
    BY <2>3, <2>4, <2>5, <2>6 DEF ProbeOnly, SameRest
  <2> QED BY <2>1, <2>7
<1>5. CASE ~NotDue(t) /\ ~(p >= MaxPing)
  <2> DEFINE y == [x EXCEPT !.t = u]
             z == Sent(y, PingSize)
  <2>1. probe(x) = z
    BY <1>5 DEF probe
  <2>2. p \in 1..MaxPing /\ t.quiet >= PingTimes[p]
    BY <1>1, <1>2, <1>5 DEF NotDue
  <2>3. /\ u \in SessionState /\ u.open = t.open /\ u.recvBuf = t.recvBuf
        /\ u.packetLen = t.packetLen /\ u.pings = p /\ u.quiet = t.quiet /\ u.error = t.error
        /\ u.noSend = t.noSend /\ u.sendBuf = t.sendBuf /\ u.sendSize = t.sendSize
    BY <1>1, CountedTyped
  <2> HIDE DEF u
  <2>4. /\ Work(y) /\ y.t = u /\ y.log = x.log /\ y.wire = x.wire /\ y.got = x.got
        /\ y.index = x.index /\ y.on = x.on /\ y.keep = x.keep
    BY <2>3, Touched
  <2> HIDE DEF y
  <2>5. SendsOnly(y, z) /\ ErrorIs(y.t, z.t, "sendbuffer")
    <3>1. PingSize \in Nat
      BY DEF PingSize
    <3> QED BY <2>4, <3>1, SentOnly
  <2> HIDE DEF z
  <2>6. z.t.pings = p /\ z.t.quiet = t.quiet /\ z.t.error # "ping"
        /\ (x.t.error # "none" => z.t.error # "none")
    BY <2>3, <2>4, <2>5 DEF SendsOnly, SameRest, ErrorIs
  <2>7. Silences(z.t)
    BY <1>1, <1>2, <2>2, <2>6 DEF Silences
  <2>8. ProbeOnly(x, z)
    BY <2>3, <2>4, <2>5, <2>6, <2>7 DEF ProbeOnly, SendsOnly, SameRest
  <2> QED BY <2>1, <2>8
<1> QED BY <1>3, <1>4, <1>5

-----------------------------------------------------------------------------
(* The bytes of the peer that no handler has been given yet.               *)

Message == [len : Nat, kind : Kinds]
Size(p) == Max({2, p.len})

\* The byte that follows b in the peer's messages.
NextByte(b, in) == IF b[2] < Size(in[b[1]]) THEN <<b[1], b[2] + 1>> ELSE <<b[1] + 1, 1>>

\* The bytes of q follow each other, up to the last one of the last message.
Chain(q, in) ==
    /\ in \in Seq(Message) /\ q \in Seq(Byte)
    /\ \A i \in 1..Len(q) : q[i][1] \in 1..Len(in) /\ q[i][2] \in 1..Size(in[q[i][1]])
    /\ \A i \in 1..Len(q) : i < Len(q) => q[i + 1] = NextByte(q[i], in)
    /\ q # <<>> => q[Len(q)] = <<Len(in), Size(in[Len(in)])>>

\* After k bytes of q, the first g messages are complete.
At(q, k, g, in) ==
    /\ k \in 0..Len(q) /\ g \in 0..Len(in)
    /\ k < Len(q) => q[k + 1] = <<g + 1, 1>>
    /\ k = Len(q) => g = Len(in)

\* How many bytes a message takes.
LEMMA SizeIs ==
    ASSUME NEW p \in Message
    PROVE  /\ Size(p) \in Nat /\ Size(p) >= 2 /\ Size(p) = IF p.len >= 2 THEN p.len ELSE 2
<1> DEFINE S == {2, p.len}
           P(k) == k \in S /\ \A m \in S : k >= m
<1>1. p.len \in Nat
  BY DEF Message
<1>2. \E k : P(k)
  <2>1. CASE p.len >= 2
    BY <1>1, <2>1
  <2>2. CASE ~(p.len >= 2)
    BY <1>1, <2>2
  <2> QED BY <2>1, <2>2
<1>3. P(CHOOSE k : P(k))
  BY <1>2, Zenon
<1>4. P(Size(p))
  BY <1>3 DEF Size, Max
<1> QED BY <1>1, <1>4

\* The next message is there as a whole, and after it comes the one behind it.
LEMMA NextMessage ==
    ASSUME NEW q, NEW in, NEW k, NEW g, Chain(q, in), At(q, k, g, in), k < Len(q),
           NEW n, n = Size(in[g + 1])
    PROVE  /\ g + 1 \in 1..Len(in) /\ n \in Nat /\ n >= 2 /\ k + n <= Len(q)
           /\ \A j \in 1..n : q[k + j] = <<g + 1, j>>
           /\ At(q, k + n, g + 1, in)
<1>1. /\ in \in Seq(Message) /\ q \in Seq(Byte) /\ Len(q) \in Nat /\ Len(in) \in Nat
      /\ k \in Nat /\ g \in Nat /\ q[k + 1] = <<g + 1, 1>> /\ k + 1 \in 1..Len(q)
      /\ Len(q) \in 1..Len(q) /\ q # <<>>
  BY EmptySeq DEF Chain, At
<1>2. g + 1 \in 1..Len(in) /\ n \in Nat /\ n >= 2
  <2>1. q[k + 1][1] = g + 1 /\ q[k + 1][1] \in 1..Len(in)
    BY <1>1 DEF Chain
  <2>2. in[g + 1] \in Message
    BY <1>1, <2>1
  <2> QED BY <2>1, <2>2, SizeIs
<1>3. /\ q[Len(q)] = <<Len(in), Size(in[Len(in)])>>
      /\ \A i \in 1..Len(q) : i < Len(q) => q[i + 1] = NextByte(q[i], in)
  BY <1>1 DEF Chain
<1> DEFINE S == {j \in 0..(n - 1) : k + j + 1 <= Len(q) /\ q[k + j + 1] = <<g + 1, j + 1>>}
<1>4. 0 \in S
  BY <1>1, <1>2
<1>5. ASSUME NEW j \in 0..(n - 1), j < n - 1, j \in S PROVE j + 1 \in S
  <2> DEFINE i == k + j + 1
  <2>1. i \in 1..Len(q) /\ q[i] = <<g + 1, j + 1>> /\ j + 1 < n /\ i + 1 = k + (j + 1) + 1
    BY <1>1, <1>2, <1>5
  <2>2. i # Len(q)
    <3>1. SUFFICES ASSUME i = Len(q) PROVE FALSE
      OBVIOUS
    <3>2. <<g + 1, j + 1>> = <<Len(in), Size(in[Len(in)])>>
      BY <1>3, <2>1, <3>1
    <3>3. g + 1 = Len(in) /\ j + 1 = Size(in[Len(in)])
      BY <3>2
    <3>4. j + 1 = n
      BY <3>3
    <3> QED BY <2>1, <3>4
  <2> HIDE DEF i
  <2>3. q[i + 1] = NextByte(q[i], in) /\ i + 1 <= Len(q)
    <3>1. i < Len(q)
      BY <1>1, <2>1, <2>2
    <3>2. q[i + 1] = NextByte(q[i], in)
      BY <1>3, <2>1, <3>1
    <3>3. i + 1 <= Len(q)
      BY <1>1, <2>1, <3>1
    <3> QED BY <3>2, <3>3
  <2>4. NextByte(<<g + 1, j + 1>>, in) = <<g + 1, j + 1 + 1>>
    BY <2>1 DEF NextByte
  <2>5. q[k + (j + 1) + 1] = <<g + 1, j + 1 + 1>> /\ k + (j + 1) + 1 <= Len(q)
    BY <2>1, <2>3, <2>4
  <2>6. j + 1 \in 0..(n - 1)
    BY <1>2, <1>5
  <2> QED BY <2>5, <2>6
<1>6. \A j \in 0..(n - 1) : j \in S
  <2> HIDE DEF S
  <2> DEFINE m == n - 1
  <2>1. m \in Nat
    BY <1>2
  <2>2. \A j \in 0..m : j < m /\ j \in S => j + 1 \in S
    BY <1>5
  <2> HIDE DEF m
  <2>3. \A j \in 0..m : j \in S
    BY <1>4, <2>1, <2>2, Upwards
  <2> QED BY <2>3 DEF m
<1>7. ASSUME NEW j \in 1..n PROVE k + j <= Len(q) /\ q[k + j] = <<g + 1, j>>
  <2>1. j - 1 \in 0..(n - 1) /\ k + (j - 1) + 1 = k + j /\ (j - 1) + 1 = j
    BY <1>1, <1>2
  <2>2. j - 1 \in S
    BY <1>6, <2>1
  <2> QED BY <2>1, <2>2
<1>8. n \in 1..n /\ k + n <= Len(q) /\ q[k + n] = <<g + 1, n>> /\ k + n \in 1..Len(q)
  BY <1>1, <1>2, <1>7
<1>9. At(q, k + n, g + 1, in)
  <2>1. CASE k + n = Len(q)
    <3>1. <<g + 1, n>> = <<Len(in), Size(in[Len(in)])>>
      BY <1>3, <1>8, <2>1
    <3>2. g + 1 = Len(in)
      BY <3>1
    <3> QED BY <1>1, <1>2, <1>8, <2>1, <3>2 DEF At
  <2>2. CASE k + n < Len(q)
    <3>1. q[k + n + 1] = NextByte(<<g + 1, n>>, in)
      BY <1>3, <1>8, <2>2
    <3>2. NextByte(<<g + 1, n>>, in) = <<g + 1 + 1, 1>>
      BY <1>2 DEF NextByte
    <3> QED BY <1>1, <1>2, <1>8, <2>2, <3>1, <3>2 DEF At
  <2> QED BY <1>1, <1>8, <2>1, <2>2
<1> QED BY <1>2, <1>7, <1>8, <1>9

\* What is left when the complete messages are dropped.
LEMMA ChainDrops ==
    ASSUME NEW q, NEW in, NEW k, NEW g, Chain(q, in), At(q, k, g, in)
    PROVE  Chain(Drop(q, k), in) /\ At(Drop(q, k), 0, g, in)
<1> DEFINE d == Drop(q, k)
<1>1. /\ in \in Seq(Message) /\ q \in Seq(Byte) /\ Len(q) \in Nat /\ k \in 0..Len(q)
      /\ g \in 0..Len(in)
  BY DEF Chain, At
<1>2. d \in Seq(Byte) /\ Len(d) = Len(q) - k /\ \A i \in 1..(Len(q) - k) : d[i] = q[i + k]
  BY <1>1, Split
<1> HIDE DEF d
<1>3. ASSUME NEW i \in 1..Len(d)
      PROVE  /\ d[i][1] \in 1..Len(in) /\ d[i][2] \in 1..Size(in[d[i][1]])
             /\ i < Len(d) => d[i + 1] = NextByte(d[i], in)
  <2>1. i + k \in 1..Len(q) /\ d[i] = q[i + k] /\ (i < Len(d) => i + k < Len(q))
    BY <1>1, <1>2
  <2>2. i < Len(d) => i + 1 \in 1..(Len(q) - k) /\ d[i + 1] = q[(i + k) + 1]
    BY <1>1, <1>2
  <2> QED BY <2>1, <2>2 DEF Chain
<1>4. ASSUME d # <<>> PROVE d[Len(d)] = <<Len(in), Size(in[Len(in)])>>
  <2>1. Len(d) # 0 /\ Len(q) # 0 /\ q # <<>>
    BY <1>1, <1>2, <1>4, EmptySeq
  <2>2. Len(d) \in 1..(Len(q) - k) /\ Len(d) + k = Len(q)
    BY <1>1, <1>2, <2>1
  <2> QED BY <1>2, <2>1, <2>2 DEF Chain
<1>5. Chain(d, in)
  BY <1>1, <1>2, <1>3, <1>4 DEF Chain
<1>6. At(d, 0, g, in)
  <2>1. CASE k = Len(q)
    BY <1>1, <1>2, <2>1 DEF At
  <2>2. CASE k < Len(q)
    <3>1. 1 \in 1..(Len(q) - k) /\ d[1] = q[k + 1]
      BY <1>1, <1>2, <2>2
    <3> QED BY <1>1, <1>2, <2>2, <3>1 DEF At
  <2> QED BY <1>1, <2>1, <2>2
<1> QED BY <1>5, <1>6 DEF d

\* The peer sends one message more.
LEMMA ChainGrows ==
    ASSUME NEW q, NEW in, NEW g, Chain(q, in), At(q, 0, g, in), NEW p \in Message,
           NEW b, b = Bytes(Len(in) + 1, Size(p))
    PROVE  Chain(q \o b, Append(in, p)) /\ At(q \o b, 0, g, Append(in, p))
<1> DEFINE r == q \o b
           m == Append(in, p)
           n == Len(in)
           l == Len(q)
           c == Size(p)
<1>1. /\ in \in Seq(Message) /\ q \in Seq(Byte) /\ l \in Nat /\ n \in Nat /\ g \in 0..n
      /\ (0 < l => q[1] = <<g + 1, 1>>) /\ (0 = l => g = n)
  BY DEF Chain, At
<1>2. c \in Nat /\ c >= 2
  BY SizeIs
<1>3. m \in Seq(Message) /\ Len(m) = n + 1 /\ m[n + 1] = p /\ \A i \in 1..n : m[i] = in[i]
  BY <1>1, AppendProperties
<1>4. b \in Seq(Byte) /\ Len(b) = c /\ \A j \in 1..c : b[j] = <<n + 1, j>>
  <2>1. n + 1 \in Nat \ {0}
    BY <1>1
  <2> HIDE DEF c
  <2> QED BY <1>2, <2>1, BytesTyped DEF c
<1>5. r \in Seq(Byte) /\ Len(r) = l + c
      /\ \A i \in 1..(l + c) : r[i] = IF i <= l THEN q[i] ELSE b[i - l]
  BY <1>1, <1>4, ConcatProperties
<1> HIDE DEF r, m, c
<1>6. /\ \A i \in 1..l : q[i][1] \in 1..n /\ q[i][2] \in 1..Size(in[q[i][1]])
      /\ \A i \in 1..l : i < l => q[i + 1] = NextByte(q[i], in)
      /\ l # 0 => q[l] = <<n, Size(in[n])>>
  BY <1>1, EmptySeq DEF Chain
<1>7. /\ \A i \in 1..l : r[i] = q[i]
      /\ \A j \in 1..c : r[l + j] = <<n + 1, j>>
      /\ Size(m[n + 1]) = c
  <2>1. ASSUME NEW i \in 1..l PROVE r[i] = q[i]
    BY <1>1, <1>2, <1>5
  <2>2. ASSUME NEW j \in 1..c PROVE r[l + j] = <<n + 1, j>>
    <3>1. l + j \in 1..(l + c) /\ ~(l + j <= l) /\ (l + j) - l = j
      BY <1>1, <1>2
    <3> QED BY <1>4, <1>5, <3>1
  <2> QED BY <1>3, <2>1, <2>2 DEF c
<1>8. ASSUME NEW i \in 1..Len(r)
      PROVE  /\ r[i][1] \in 1..Len(m) /\ r[i][2] \in 1..Size(m[r[i][1]])
             /\ i < Len(r) => r[i + 1] = NextByte(r[i], m)
  <2>1. CASE i <= l
    <3>1. i \in 1..l /\ r[i] = q[i] /\ q[i][1] \in 1..n /\ q[i][1] \in 1..Len(m)
          /\ m[q[i][1]] = in[q[i][1]] /\ q[i][2] \in 1..Size(in[q[i][1]])
      BY <1>1, <1>3, <1>6, <1>7, <2>1
    <3>2. CASE i < l
      <4>1. i + 1 \in 1..l /\ r[i + 1] = q[i + 1] /\ q[i + 1] = NextByte(q[i], in)
        BY <1>1, <1>6, <1>7, <3>1, <3>2
      <4>2. NextByte(q[i], in) = NextByte(q[i], m)
        BY <3>1 DEF NextByte
      <4> QED BY <3>1, <4>1, <4>2
    <3>3. CASE i = l
      <4>1. l # 0 /\ q[l] = <<n, Size(in[n])>> /\ n \in 1..n /\ m[n] = in[n]
        BY <1>1, <1>3, <1>6, <3>1, <3>3
      <4>2. r[i + 1] = <<n + 1, 1>>
        <5>1. 1 \in 1..c
          BY <1>2
        <5> QED BY <1>7, <3>3, <5>1
      <4>3. Size(in[n]) \in Nat
        BY <1>1, <4>1, SizeIs
      <4>4. NextByte(<<n, Size(in[n])>>, m) = <<n + 1, 1>>
        BY <4>1, <4>3 DEF NextByte
      <4> QED BY <3>1, <3>3, <4>1, <4>2, <4>4
    <3> QED BY <1>1, <2>1, <3>1, <3>2, <3>3
  <2>2. CASE i > l
    <3> DEFINE j == i - l
    <3>0. l \in Nat /\ c \in Nat /\ Len(r) = l + c /\ i \in 1..(l + c) /\ i > l
      BY <1>1, <1>2, <1>5, <2>2
    <3>1. j \in 1..c /\ i = l + j /\ (i < Len(r) => j < c /\ j + 1 \in 1..c /\ i + 1 = l + (j + 1))
      <4> HIDE DEF l
      <4> QED BY <3>0
    <3>2. r[i] = <<n + 1, j>> /\ n + 1 \in 1..Len(m)
      BY <1>1, <1>3, <1>7, <3>1
    <3>3. r[i][1] = n + 1 /\ r[i][2] = j
      BY <3>2
    <3>4. ASSUME i < Len(r) PROVE r[i + 1] = NextByte(r[i], m)
      <4>1. r[i + 1] = <<n + 1, j + 1>>
        BY <1>7, <3>1, <3>4
      <4>2. NextByte(<<n + 1, j>>, m) = <<n + 1, j + 1>>
        BY <1>7, <3>1, <3>4 DEF NextByte
      <4> QED BY <3>2, <4>1, <4>2
    <3> QED BY <1>7, <3>1, <3>2, <3>3, <3>4
  <2> QED BY <1>1, <1>5, <2>1, <2>2
<1>9. r[Len(r)] = <<Len(m), Size(m[Len(m)])>>
  <2>1. c \in 1..c
    BY <1>2
  <2> QED BY <1>3, <1>5, <1>7, <2>1
<1>10. Chain(r, m)
  BY <1>3, <1>5, <1>8, <1>9 DEF Chain
<1>11. At(r, 0, g, m)
  <2>1. 0 < Len(r) /\ 0 \in 0..Len(r) /\ g \in 0..Len(m)
    BY <1>1, <1>2, <1>3, <1>5
  <2>2. r[1] = <<g + 1, 1>>
    <3>1. CASE l = 0
      <4>1. 1 \in 1..c /\ l + 1 = 1 /\ g = n
        BY <1>1, <1>2, <3>1
      <4> QED BY <1>7, <4>1
    <3>2. CASE l # 0
      BY <1>1, <1>7, <3>2
    <3> QED BY <3>1, <3>2
  <2> QED BY <2>1, <2>2 DEF At
<1> QED BY <1>10, <1>11 DEF r, m

-----------------------------------------------------------------------------
(* The loop of uppack.                                                      *)

\* The loop fails: the bytes stay, the error ends the connection.
LEMMA FailedOnly ==
    ASSUME NEW x, Work(x), NEW e \in Errors, e # "none", e # "ping"
    PROVE  LET y == Failed(x, e) IN
           /\ Work(y) /\ SameRest(x.t, y.t) /\ y.log = x.log /\ y.got = x.got
           /\ y.index = x.index /\ ~y.on /\ y.keep /\ y.t.error # "none"
           /\ (y.t.error = "ping" => x.t.error = "ping")
<1> DEFINE u == setError(x.t, e)
           y == Failed(x, e)
<1>1. x \in Works /\ x.t \in SessionState /\ Sending(x.t, x.log, x.wire)
  BY DEF Work, Works
<1>2. u \in SessionState /\ SameRest(x.t, u) /\ ErrorIs(x.t, u, e) /\ u.error # "none"
  BY <1>1, SessionError
<1>3. Sending(u, x.log, x.wire)
  BY <1>1, SendingError
<1>4. y = [x EXCEPT !.t = u, !.on = FALSE, !.keep = TRUE]
  BY DEF Failed
<1> HIDE DEF u, y
<1>5. /\ y \in Works /\ y.t = u /\ y.log = x.log /\ y.wire = x.wire /\ y.got = x.got
      /\ y.index = x.index /\ ~y.on /\ y.keep
  BY <1>1, <1>2, <1>4 DEF Works
<1>6. /\ Work(y) /\ SameRest(x.t, y.t) /\ y.log = x.log /\ y.got = x.got
      /\ y.index = x.index /\ ~y.on /\ y.keep /\ y.t.error # "none"
      /\ (y.t.error = "ping" => x.t.error = "ping")
  BY <1>2, <1>3, <1>5 DEF Work, ErrorIs
<1> QED BY <1>6 DEF y

\* A message is given to its handler.
LEMMA GivenOnly ==
    ASSUME NEW x, Work(x), NEW bytes \in Seq(Byte)
    PROVE  LET y == Given(x, bytes) IN
           /\ Work(y) /\ y.t = x.t /\ y.log.given = Append(x.log.given, bytes)
           /\ y.log.conns = x.log.conns /\ y.got = x.got /\ y.index = x.index
           /\ y.on = x.on /\ y.keep = x.keep
<1> DEFINE g == Append(x.log.given, bytes)
           m == [x.log EXCEPT !.given = g]
           y == Given(x, bytes)
<1>1. x \in Works /\ x.log \in Logs /\ Sending(x.t, x.log, x.wire)
  BY DEF Work, Works
<1>2. g \in Seq(Seq(Byte))
  BY <1>1, AppendProperties DEF Logs
<1>3. y = [x EXCEPT !.log = m]
  BY DEF Given
<1> HIDE DEF g, y
<1>4. m \in Logs /\ m.given = g /\ m.out = x.log.out /\ m.lost = x.log.lost
      /\ m.conns = x.log.conns
  BY <1>1, <1>2 DEF Logs
<1> HIDE DEF m
<1>5. /\ y \in Works /\ y.t = x.t /\ y.log = m /\ y.wire = x.wire /\ y.got = x.got
      /\ y.index = x.index /\ y.on = x.on /\ y.keep = x.keep
  BY <1>1, <1>3, <1>4 DEF Works
<1>6. Sending(x.t, m, x.wire)
  BY <1>1, <1>4 DEF Sending
<1>7. Work(y)
  BY <1>5, <1>6 DEF Work
<1> QED BY <1>4, <1>5, <1>7 DEF y, g

\* Whatever the handler does, the message was given to it, and the session goes on
\* from where it was.
LEMMA HandledOnly ==
    ASSUME conf \in Setups, NEW x, Work(x), NEW bytes \in Seq(Byte)
    PROVE  LET h == Handled(x, bytes) IN
           /\ Work(h) /\ SameRest(x.t, h.t) /\ h.log.given = Append(x.log.given, bytes)
           /\ h.log.conns = x.log.conns /\ h.got = x.got /\ h.index = x.index
           /\ h.on = x.on /\ h.keep = x.keep
           /\ (h.t.error = "ping" => x.t.error = "ping")
           /\ (x.t.error # "none" => h.t.error # "none")
<1> DEFINE y == Given(x, bytes)
           h == Handled(x, bytes)
           k == peer.in[bytes[1][1]].kind
<1>1. /\ Work(y) /\ y.t = x.t /\ y.log.given = Append(x.log.given, bytes)
      /\ y.log.conns = x.log.conns /\ y.got = x.got /\ y.index = x.index
      /\ y.on = x.on /\ y.keep = x.keep
  BY GivenOnly
<1>2. Onwards(y, h)
  <2>1. CASE k = "ping"
    <3>1. h = Sent(y, PingSize)
      BY <2>1 DEF Handled
    <3>2. SendsOnly(y, h) /\ ErrorIs(y.t, h.t, "sendbuffer")
      <4>1. PingSize \in Nat
        BY DEF PingSize
      <4> HIDE DEF y, h
      <4> QED BY <1>1, <3>1, <4>1, SentOnly
    <3>3. "sendbuffer" # "ping"
      OBVIOUS
    <3> HIDE DEF y, h
    <3> QED BY <3>2, <3>3, OnwardsError
  <2>2. CASE k = "error"
    <3> DEFINE z == [y EXCEPT !.t = setError(y.t, "program")]
    <3>1. h = z
      BY <2>2 DEF Handled
    <3>2. "program" \in Errors /\ "program" # "ping"
      BY DEF Errors
    <3> HIDE DEF y, h
    <3>3. SendsOnly(y, z) /\ ErrorIs(y.t, z.t, "program")
      BY <1>1, <3>2, ErrorOnly
    <3> HIDE DEF z
    <3>4. Onwards(y, z)
      BY <3>2, <3>3, OnwardsError
    <3> QED BY <3>1, <3>4
  <2>3. CASE k \notin {"ping", "error"}
    <3>1. h = y
      BY <2>3 DEF Handled
    <3> HIDE DEF y, h
    <3> QED BY <1>1, <3>1, OnwardsStays
  <2> QED BY <2>1, <2>2, <2>3
<1> HIDE DEF y, h
<1>3. /\ Work(h) /\ SameRest(x.t, h.t) /\ h.log.given = Append(x.log.given, bytes)
      /\ h.log.conns = x.log.conns /\ h.got = x.got /\ h.index = x.index
      /\ h.on = x.on /\ h.keep = x.keep
      /\ (h.t.error = "ping" => x.t.error = "ping")
      /\ (x.t.error # "none" => h.t.error # "none")
  BY <1>1, <1>2 DEF Onwards, SendsOnly
<1> QED BY <1>3 DEF h

\* The handlers were given the messages, whole and in order.
HandedOf(given, in) ==
    /\ Len(given) <= Len(in)
    /\ \A i \in 1..Len(given) : given[i] = Bytes(i, in[i].len)

\* The length that is kept is that of the next message, of which some is missing.
LengthKept(t, g, in) ==
    t.packetLen # 0 => /\ g < Len(in) /\ t.packetLen = in[g + 1].len
                       /\ 2 <= t.packetLen /\ t.packetLen <= BufSize
Awaits(t, k) ==
    IF t.packetLen = 0 THEN k + 2 > Len(t.recvBuf) ELSE k + t.packetLen > Len(t.recvBuf)

\* Between two turns of the loop; rest is what has not been received.
Turning(x, rest) ==
    /\ Work(x) /\ x.index \in 0..Len(x.t.recvBuf)
    /\ Chain(x.t.recvBuf \o rest, peer.in) /\ rest \in Seq(Byte)
    /\ HandedOf(x.log.given, peer.in)
    /\ x.keep => ~x.on /\ x.t.error # "none"
    /\ ~x.keep => /\ At(x.t.recvBuf \o rest, x.index, Len(x.log.given), peer.in)
                  /\ LengthKept(x.t, Len(x.log.given), peer.in)
                  /\ x.on \/ Awaits(x.t, x.index)

\* What a turn leaves alone, and how far it goes.
Turned(x, y) ==
    /\ y.t.recvBuf = x.t.recvBuf /\ y.t.open = x.t.open /\ y.t.pings = x.t.pings
    /\ y.t.quiet = x.t.quiet /\ y.log.conns = x.log.conns /\ y.got = x.got
    /\ y.t.error = "ping" => x.t.error = "ping"
    /\ x.t.error # "none" => y.t.error # "none"
    /\ y.on => x.on /\ y.index >= x.index + 2

\* The loop stops.
LEMMA Stopped ==
    ASSUME NEW x, Work(x)
    PROVE  LET y == [x EXCEPT !.on = FALSE] IN
           /\ Work(y) /\ y.t = x.t /\ y.log = x.log /\ y.got = x.got /\ y.index = x.index
           /\ ~y.on /\ y.keep = x.keep
<1> DEFINE y == [x EXCEPT !.on = FALSE]
<1>1. x \in Works /\ Sending(x.t, x.log, x.wire)
  BY DEF Work
<1>2. /\ y \in Works /\ y.t = x.t /\ y.log = x.log /\ y.got = x.got /\ y.index = x.index
      /\ ~y.on /\ y.keep = x.keep /\ y.wire = x.wire
  BY <1>1 DEF Works
<1> HIDE DEF y
<1>3. Work(y)
  BY <1>1, <1>2 DEF Work
<1> QED BY <1>2, <1>3 DEF y

\* A length is kept, or given up, and nothing else changes.
LEMMA Measured ==
    ASSUME NEW x, Work(x), NEW l \in Nat
    PROVE  LET y == [x EXCEPT !.t = [x.t EXCEPT !.packetLen = l]] IN
           /\ Work(y) /\ y.log = x.log /\ y.got = x.got /\ y.index = x.index
           /\ y.on = x.on /\ y.keep = x.keep
           /\ y.t.packetLen = l /\ y.t.recvBuf = x.t.recvBuf /\ y.t.open = x.t.open
           /\ y.t.pings = x.t.pings /\ y.t.quiet = x.t.quiet /\ y.t.error = x.t.error
<1> DEFINE u == [x.t EXCEPT !.packetLen = l]
           y == [x EXCEPT !.t = u]
<1>1. x.t \in SessionState
  BY DEF Work, Works
<1>2. /\ u \in SessionState /\ u.packetLen = l /\ u.recvBuf = x.t.recvBuf
      /\ u.open = x.t.open /\ u.pings = x.t.pings /\ u.quiet = x.t.quiet
      /\ u.error = x.t.error /\ u.sendBuf = x.t.sendBuf /\ u.sendSize = x.t.sendSize
      /\ u.noSend = x.t.noSend
  BY <1>1 DEF SessionState
<1> HIDE DEF u
<1>3. /\ Work(y) /\ y.t = u /\ y.log = x.log /\ y.wire = x.wire /\ y.got = x.got
      /\ y.index = x.index /\ y.on = x.on /\ y.keep = x.keep
  BY <1>2, Touched
<1> HIDE DEF y
<1>4. /\ Work(y) /\ y.log = x.log /\ y.got = x.got /\ y.index = x.index
      /\ y.on = x.on /\ y.keep = x.keep
      /\ y.t.packetLen = l /\ y.t.recvBuf = x.t.recvBuf /\ y.t.open = x.t.open
      /\ y.t.pings = x.t.pings /\ y.t.quiet = x.t.quiet /\ y.t.error = x.t.error
  BY <1>2, <1>3
<1> QED BY <1>4 DEF y, u

\* The loop goes on behind a message.
LEMMA Advanced ==
    ASSUME NEW h, Work(h), NEW k \in Nat
    PROVE  LET z == [h EXCEPT !.index = k, !.t = [h.t EXCEPT !.packetLen = 0]] IN
           /\ Work(z) /\ z.log = h.log /\ z.got = h.got /\ z.index = k
           /\ z.on = h.on /\ z.keep = h.keep
           /\ z.t.packetLen = 0 /\ z.t.recvBuf = h.t.recvBuf /\ z.t.open = h.t.open
           /\ z.t.pings = h.t.pings /\ z.t.quiet = h.t.quiet /\ z.t.error = h.t.error
<1> DEFINE u == [h.t EXCEPT !.packetLen = 0]
           z == [h EXCEPT !.index = k, !.t = u]
<1>1. h \in Works /\ h.t \in SessionState /\ Sending(h.t, h.log, h.wire)
  BY DEF Work, Works
<1>2. /\ u \in SessionState /\ u.packetLen = 0 /\ u.recvBuf = h.t.recvBuf
      /\ u.open = h.t.open /\ u.pings = h.t.pings /\ u.quiet = h.t.quiet
      /\ u.error = h.t.error /\ u.sendBuf = h.t.sendBuf /\ u.sendSize = h.t.sendSize
      /\ u.noSend = h.t.noSend
  BY <1>1 DEF SessionState
<1> HIDE DEF u
<1>3. Sending(u, h.log, h.wire)
  BY <1>1, <1>2 DEF Sending
<1>4. /\ z \in Works /\ z.t = u /\ z.log = h.log /\ z.wire = h.wire /\ z.got = h.got
      /\ z.index = k /\ z.on = h.on /\ z.keep = h.keep
  BY <1>1, <1>2 DEF Works
<1> HIDE DEF z
<1>5. /\ Work(z) /\ z.log = h.log /\ z.got = h.got /\ z.index = k
      /\ z.on = h.on /\ z.keep = h.keep
      /\ z.t.packetLen = 0 /\ z.t.recvBuf = h.t.recvBuf /\ z.t.open = h.t.open
      /\ z.t.pings = h.t.pings /\ z.t.quiet = h.t.quiet /\ z.t.error = h.t.error
  BY <1>2, <1>3, <1>4 DEF Work
<1> QED BY <1>5 DEF z, u

\* One message more was given to the handlers.
LEMMA HandedOn ==
    ASSUME NEW given \in Seq(Seq(Byte)), NEW in \in Seq(Message), HandedOf(given, in),
           Len(given) + 1 <= Len(in), NEW m, m = Bytes(Len(given) + 1, in[Len(given) + 1].len)
    PROVE  HandedOf(Append(given, m), in) /\ Len(Append(given, m)) = Len(given) + 1
<1> DEFINE a == Append(given, m)
           n == Len(given)
<1>1. n \in Nat /\ Len(a) = n + 1 /\ a[n + 1] = m /\ \A i \in 1..n : a[i] = given[i]
  OBVIOUS
<1> HIDE DEF a
<1>2. ASSUME NEW i \in 1..Len(a) PROVE a[i] = Bytes(i, in[i].len)
  <2>1. CASE i = n + 1
    BY <1>1, <2>1
  <2>2. CASE i # n + 1
    <3>1. i \in 1..n
      BY <1>1, <2>2
    <3> QED BY <1>1, <3>1 DEF HandedOf
  <2> QED BY <2>1, <2>2
<1>3. HandedOf(a, in) /\ Len(a) = n + 1
  BY <1>1, <1>2 DEF HandedOf
<1> QED BY <1>3 DEF a

\* The length of the message under way, when its first bytes are there.
LEMMA LengthIs ==
    ASSUME NEW x, NEW rest, Turning(x, rest), x.on,
           x.t.packetLen # 0 \/ x.index + 2 <= Len(x.t.recvBuf)
    PROVE  LET g == Len(x.log.given) IN
           g < Len(peer.in) /\ Length(x) = peer.in[g + 1].len /\ Length(x) \in Nat
<1> DEFINE q == x.t.recvBuf
           s == q \o rest
           g == Len(x.log.given)
           k == x.index
           in == peer.in
<1>1. /\ q \in Seq(Byte) /\ rest \in Seq(Byte) /\ Len(q) \in Nat /\ k \in 0..Len(q)
      /\ x.t.packetLen \in Nat /\ g \in Nat
  BY DEF Turning, Work, Works, SessionState, Logs
<1>2. Chain(s, in) /\ At(s, k, g, in) /\ LengthKept(x.t, g, in)
  BY DEF Turning
<1>3. in \in Seq(Message)
  BY <1>2 DEF Chain
<1>4. ASSUME g < Len(in) PROVE in[g + 1].len \in Nat
  <2>1. g + 1 \in 1..Len(in)
    <3> HIDE DEF in, g
    <3> QED BY <1>1, <1>3, <1>4
  <2>2. in[g + 1] \in Message
    <3> HIDE DEF in, g
    <3> QED BY <1>3, <2>1
  <2> HIDE DEF in, g
  <2> QED BY <2>2 DEF Message
<1>5. CASE x.t.packetLen # 0
  <2>1. g < Len(in) /\ x.t.packetLen = in[g + 1].len
    BY <1>2, <1>5 DEF LengthKept
  <2> QED BY <1>4, <1>5, <2>1 DEF Length
<1>6. CASE x.t.packetLen = 0
  <2>1. k + 1 \in 1..Len(q) /\ k + 2 \in 1..Len(q)
    BY <1>1, <1>6
  <2>2. Len(s) = Len(q) + Len(rest) /\ s[k + 1] = q[k + 1] /\ s[k + 2] = q[k + 2]
    BY <1>1, <2>1, ConcatProperties
  <2> DEFINE n == Size(in[g + 1])
  <2>3. k < Len(s)
    BY <1>1, <2>1, <2>2
  <2> HIDE DEF s
  <2>4. g + 1 \in 1..Len(in) /\ n \in Nat /\ n >= 2 /\ \A j \in 1..n : s[k + j] = <<g + 1, j>>
    <3> HIDE DEF g, k, in
    <3> QED BY <1>2, <2>3, NextMessage
  <2>5. q[k + 1] = <<g + 1, 1>> /\ q[k + 2] = <<g + 1, 2>>
    <3>1. 1 \in 1..n /\ 2 \in 1..n
      BY <2>4
    <3> HIDE DEF n, g
    <3>2. s[k + 1] = <<g + 1, 1>> /\ s[k + 2] = <<g + 1, 2>>
      BY <2>4, <3>1
    <3> QED BY <2>2, <3>2
  <2>6. Length(x) = LengthAt(q, k + 1)
    BY <1>6 DEF Length
  <2>7. LengthAt(q, k + 1) = in[g + 1].len
    <3>1. k + 1 + 1 = k + 2
      BY <1>1
    <3> QED BY <2>5, <3>1 DEF LengthAt
  <2>8. g < Len(in)
    BY <1>1, <1>3, <2>4
  <2> QED BY <1>4, <2>6, <2>7, <2>8
<1> QED BY <1>5, <1>6

\* A turn of the loop keeps what holds between turns.
LEMMA TurnKeeps ==
    ASSUME conf \in Setups, NEW x, NEW rest, Turning(x, rest)
    PROVE  Turning(Turn(x), rest) /\ Turned(x, Turn(x))
<1> DEFINE q == x.t.recvBuf
           s == q \o rest
           g == Len(x.log.given)
           k == x.index
           in == peer.in
           l == Length(x)
           y == [x EXCEPT !.t = [x.t EXCEPT !.packetLen = l]]
           m == SubSeq(q, k + 1, k + l)
           h == Handled(y, m)
           Goal == Turning(Turn(x), rest) /\ Turned(x, Turn(x))
           over == ~x.on \/ (x.t.packetLen = 0 /\ k + 2 > Len(q))
           bad == x.t.packetLen = 0 /\ (l > BufSize \/ l < 2)
<1>1. /\ q \in Seq(Byte) /\ rest \in Seq(Byte) /\ Len(q) \in Nat /\ k \in 0..Len(q)
      /\ x.t.packetLen \in Nat /\ g \in Nat /\ Work(x) /\ Chain(s, in)
      /\ HandedOf(x.log.given, in) /\ x.log.given \in Seq(Seq(Byte))
      /\ x.on \in BOOLEAN /\ x.keep \in BOOLEAN /\ BufSize \in Nat
      /\ in \in Seq(Message)
  <2>1. /\ Work(x) /\ Chain(s, in) /\ HandedOf(x.log.given, in) /\ k \in 0..Len(q)
        /\ rest \in Seq(Byte) /\ BufSize \in Nat
    BY ConfFacts DEF Turning
  <2>2. x.t \in SessionState /\ x.log \in Logs /\ x.on \in BOOLEAN /\ x.keep \in BOOLEAN
    BY <2>1 DEF Work, Works
  <2>3. q \in Seq(Byte) /\ x.t.packetLen \in Nat /\ x.log.given \in Seq(Seq(Byte))
    BY <2>2 DEF SessionState, Logs
  <2>4. in \in Seq(Message)
    BY <2>1 DEF Chain
  <2> HIDE DEF q, in, k
  <2> QED BY <2>1, <2>2, <2>3, <2>4
<1>2. x.on => ~x.keep /\ At(s, k, g, in) /\ LengthKept(x.t, g, in)
  BY DEF Turning
<1>3. Turn(x) = IF over THEN [x EXCEPT !.on = FALSE]
                ELSE IF bad THEN Failed(y, "unpack")
                ELSE IF k + l > Len(q) THEN [y EXCEPT !.on = FALSE]
                ELSE IF Refused(m) THEN Failed(h, "parse")
                ELSE [h EXCEPT !.index = k + l, !.t = [h.t EXCEPT !.packetLen = 0]]
  BY DEF Turn
<1>4. ASSUME over PROVE Goal
  <2> DEFINE z == [x EXCEPT !.on = FALSE]
  <2>1. Turn(x) = z
    BY <1>3, <1>4
  <2>2. /\ Work(z) /\ z.t = x.t /\ z.log = x.log /\ z.got = x.got /\ z.index = x.index
        /\ ~z.on /\ z.keep = x.keep
    BY <1>1, Stopped
  <2> HIDE DEF z
  <2>3. x.on => Awaits(x.t, k)
    BY <1>4 DEF Awaits
  <2>4. Turning(z, rest)
    BY <1>1, <2>2, <2>3 DEF Turning
  <2>5. Turned(x, z)
    BY <2>2 DEF Turned
  <2> QED BY <2>1, <2>4, <2>5
<1>5. ASSUME ~over
      PROVE  /\ g < Len(in) /\ l = in[g + 1].len /\ l \in Nat
             /\ Work(y) /\ y.log = x.log /\ y.got = x.got /\ y.index = x.index
             /\ y.on /\ ~y.keep /\ y.t.packetLen = l /\ y.t.recvBuf = x.t.recvBuf
             /\ y.t.open = x.t.open /\ y.t.pings = x.t.pings /\ y.t.quiet = x.t.quiet
             /\ y.t.error = x.t.error
  <2>1. x.on /\ (x.t.packetLen # 0 \/ k + 2 <= Len(q))
    BY <1>1, <1>5
  <2>2. g < Len(in) /\ l = in[g + 1].len /\ l \in Nat
    BY <2>1, LengthIs
  <2> HIDE DEF l
  <2>3. /\ Work(y) /\ y.log = x.log /\ y.got = x.got /\ y.index = x.index
        /\ y.on = x.on /\ y.keep = x.keep
        /\ y.t.packetLen = l /\ y.t.recvBuf = x.t.recvBuf /\ y.t.open = x.t.open
        /\ y.t.pings = x.t.pings /\ y.t.quiet = x.t.quiet /\ y.t.error = x.t.error
    BY <1>1, <2>2, Measured
  <2> HIDE DEF y
  <2> QED BY <1>2, <2>1, <2>2, <2>3
<1>6. ASSUME ~over, bad PROVE Goal
  <2> DEFINE z == Failed(y, "unpack")
  <2>1. Turn(x) = z
    BY <1>3, <1>6
  <2>2. "unpack" \in Errors /\ "unpack" # "none" /\ "unpack" # "ping"
    BY DEF Errors
  <2>3. /\ Work(y) /\ y.log = x.log /\ y.got = x.got /\ y.index = x.index
        /\ y.t.recvBuf = x.t.recvBuf
        /\ y.t.open = x.t.open /\ y.t.pings = x.t.pings /\ y.t.quiet = x.t.quiet
        /\ y.t.error = x.t.error
    BY <1>5, <1>6
  <2> HIDE DEF y
  <2>4. /\ Work(z) /\ SameRest(y.t, z.t) /\ z.log = y.log /\ z.got = y.got
        /\ z.index = y.index /\ ~z.on /\ z.keep /\ z.t.error # "none"
        /\ (z.t.error = "ping" => y.t.error = "ping")
    BY <2>2, <2>3, FailedOnly
  <2> HIDE DEF z
  <2>5. Turning(z, rest)
    BY <1>1, <2>3, <2>4 DEF Turning, SameRest
  <2>6. Turned(x, z)
    BY <2>3, <2>4 DEF Turned, SameRest
  <2> QED BY <2>1, <2>5, <2>6
<1>7. ASSUME ~over, ~bad PROVE 2 <= l /\ l <= BufSize
  <2>1. l \in Nat /\ x.on
    BY <1>5, <1>7
  <2>2. CASE x.t.packetLen = 0
    <3> HIDE DEF l
    <3> QED BY <1>1, <1>7, <2>1, <2>2
  <2>3. CASE x.t.packetLen # 0
    <3>1. l = x.t.packetLen
      BY <2>3 DEF Length
    <3> HIDE DEF l
    <3> QED BY <1>2, <2>1, <2>3, <3>1 DEF LengthKept
  <2> QED BY <2>2, <2>3
<1>8. ASSUME ~over, ~bad, k + l > Len(q) PROVE Goal
  <2> DEFINE z == [y EXCEPT !.on = FALSE]
  <2>1. Turn(x) = z
    BY <1>3, <1>8
  <2>2. /\ g < Len(in) /\ l = in[g + 1].len /\ l \in Nat /\ 2 <= l /\ l <= BufSize
        /\ Work(y) /\ y.log = x.log /\ y.got = x.got /\ y.index = x.index
        /\ y.on /\ ~y.keep /\ y.t.packetLen = l /\ y.t.recvBuf = x.t.recvBuf
        /\ y.t.open = x.t.open /\ y.t.pings = x.t.pings /\ y.t.quiet = x.t.quiet
        /\ y.t.error = x.t.error /\ k + l > Len(q) /\ x.on
    BY <1>5, <1>7, <1>8
  <2> HIDE DEF y, l
  <2>3. /\ Work(z) /\ z.t = y.t /\ z.log = y.log /\ z.got = y.got /\ z.index = y.index
        /\ ~z.on /\ z.keep = y.keep
    BY <2>2, Stopped
  <2> HIDE DEF z
  <2>4. LengthKept(z.t, Len(z.log.given), in) /\ Awaits(z.t, z.index)
    BY <2>2, <2>3 DEF LengthKept, Awaits
  <2>5. Turning(z, rest)
    BY <1>1, <1>2, <2>2, <2>3, <2>4 DEF Turning
  <2>6. Turned(x, z)
    BY <2>2, <2>3 DEF Turned
  <2> QED BY <2>1, <2>5, <2>6
<1>9. ASSUME ~over, ~bad, k + l <= Len(q)
      PROVE  /\ m \in Seq(Byte) /\ m = Bytes(g + 1, l) /\ At(s, k + l, g + 1, in)
             /\ k + l \in 0..Len(q)
  <2>1. g < Len(in) /\ l = in[g + 1].len /\ l \in Nat /\ 2 <= l /\ x.on
    BY <1>5, <1>7, <1>9
  <2> HIDE DEF l
  <2> DEFINE n == Size(in[g + 1])
  <2>2. n = l
    <3>1. in[g + 1] \in Message
      <4>1. g + 1 \in 1..Len(in)
        <5> HIDE DEF g, in
        <5> QED BY <1>1, <2>1
      <4> HIDE DEF g, in
      <4> QED BY <1>1, <4>1
    <3> HIDE DEF g, in
    <3> QED BY <2>1, <3>1, SizeIs
  <2>3. k + l \in 0..Len(q) /\ k < Len(q)
    <3>1. k + l <= Len(q) /\ k \in Nat /\ Len(q) \in Nat /\ l \in Nat
      BY <1>1, <1>9, <2>1
    <3>2. 2 <= l
      BY <2>1
    <3> HIDE DEF k, q
    <3> QED BY <3>1, <3>2
  <2>4. Len(s) = Len(q) + Len(rest) /\ \A i \in 1..Len(q) : s[i] = q[i]
    BY <1>1, ConcatProperties
  <2>5. k < Len(s)
    BY <1>1, <2>3, <2>4
  <2> HIDE DEF s
  <2>6. (\A j \in 1..n : s[k + j] = <<g + 1, j>>) /\ At(s, k + n, g + 1, in)
    <3>1. Chain(s, in) /\ At(s, k, g, in)
      BY <1>1, <1>2, <2>1
    <3> HIDE DEF g, k, in
    <3> QED BY <2>5, <3>1, NextMessage
  <2> HIDE DEF n
  <2>7. At(s, k + l, g + 1, in) /\ \A j \in 1..l : s[k + j] = <<g + 1, j>>
    BY <2>2, <2>6
  <2>8. ASSUME NEW j \in 1..l PROVE k + j \in 1..Len(q) /\ q[k + j] = <<g + 1, j>>
    <3>0. k \in Nat /\ k + l \in 0..Len(q) /\ Len(q) \in Nat
      BY <1>1, <2>3
    <3> HIDE DEF g, k, q
    <3>1. k + j \in 1..Len(q)
      BY <2>1, <3>0
    <3> QED BY <2>4, <2>7, <3>1
  <2>9. m \in Seq(Byte) /\ Len(m) = l /\ \A j \in 1..l : m[j] = q[k + j]
    <3>1. \A i \in 1..Len(q) : q[i] \in Byte
      BY <1>1
    <3> HIDE DEF q, k
    <3>2. \A j \in 1..l : q[k + j] \in Byte
      BY <2>8, <3>1
    <3>3. k \in Nat /\ k + l \in Nat /\ l \in Nat
      BY <1>1, <2>1
    <3>4. k + 1 \in Int /\ k + l \in Int /\ (k + l) - (k + 1) + 1 = l /\ k + 1 <= k + l
      <4>1. 2 <= l
        BY <2>1
      <4> QED BY <3>3, <4>1
    <3>5. \A i \in (k + 1)..(k + l) : q[i] \in Byte
      <4>1. ASSUME NEW i \in (k + 1)..(k + l) PROVE q[i] \in Byte
        <5>1. i - k \in 1..l /\ k + (i - k) = i
          BY <3>3
        <5> QED BY <3>2, <5>1
      <4> QED BY <4>1
    <3>6. /\ m \in Seq(Byte) /\ Len(m) = l
          /\ \A i \in 1..l : m[i] = q[k + 1 + i - 1]
      <4> DEFINE a == k + 1
                 b == k + l
      <4>1. a \in Int /\ b \in Int /\ b - a + 1 = l /\ a <= b /\ \A i \in a..b : q[i] \in Byte
        BY <3>4, <3>5
      <4> HIDE DEF a, b
      <4>2. /\ SubSeq(q, a, b) \in Seq(Byte)
            /\ Len(SubSeq(q, a, b)) = IF a <= b THEN b - a + 1 ELSE 0
            /\ \A i \in 1..(b - a + 1) : SubSeq(q, a, b)[i] = q[a + i - 1]
        BY <4>1, SubSeqProperties
      <4> QED BY <4>1, <4>2 DEF a, b
    <3>7. \A j \in 1..l : k + 1 + j - 1 = k + j
      BY <3>3
    <3> QED BY <3>6, <3>7
  <2>10. Bytes(g + 1, l) \in Seq(Byte) /\ Len(Bytes(g + 1, l)) = l
         /\ \A j \in 1..l : Bytes(g + 1, l)[j] = <<g + 1, j>>
    <3>1. g + 1 \in Nat \ {0}
      BY <1>1
    <3> HIDE DEF g
    <3> QED BY <2>1, <3>1, BytesTyped
  <2>11. m = Bytes(g + 1, l)
    <3> HIDE DEF m, g, q, k
    <3> QED BY <2>8, <2>9, <2>10, SeqEqual
  <2> QED BY <2>3, <2>7, <2>9, <2>11
<1>10. ASSUME ~over, ~bad, k + l <= Len(q)
       PROVE  /\ Work(h) /\ SameRest(y.t, h.t) /\ HandedOf(h.log.given, in)
              /\ Len(h.log.given) = g + 1
              /\ h.log.conns = x.log.conns /\ h.got = x.got /\ h.index = x.index
              /\ h.on /\ ~h.keep
              /\ (h.t.error = "ping" => x.t.error = "ping")
              /\ (x.t.error # "none" => h.t.error # "none")
  <2>1. /\ g < Len(in) /\ l = in[g + 1].len /\ l \in Nat
        /\ Work(y) /\ y.log = x.log /\ y.got = x.got /\ y.index = x.index
        /\ y.on /\ ~y.keep /\ y.t.error = x.t.error
        /\ m \in Seq(Byte) /\ m = Bytes(g + 1, l)
    BY <1>5, <1>9, <1>10
  <2> HIDE DEF y, m
  <2>2. /\ Work(h) /\ SameRest(y.t, h.t) /\ h.log.given = Append(y.log.given, m)
        /\ h.log.conns = y.log.conns /\ h.got = y.got /\ h.index = y.index
        /\ h.on = y.on /\ h.keep = y.keep
        /\ (h.t.error = "ping" => y.t.error = "ping")
        /\ (y.t.error # "none" => h.t.error # "none")
    BY <2>1, HandledOnly
  <2> HIDE DEF h, l
  <2>3. HandedOf(Append(x.log.given, m), in) /\ Len(Append(x.log.given, m)) = g + 1
    <3> DEFINE gg == x.log.given
    <3>1. gg \in Seq(Seq(Byte)) /\ HandedOf(gg, in) /\ Len(gg) + 1 <= Len(in)
          /\ m = Bytes(Len(gg) + 1, in[Len(gg) + 1].len) /\ in \in Seq(Message)
      BY <1>1, <2>1
    <3> HIDE DEF gg, in
    <3>2. HandedOf(Append(gg, m), in) /\ Len(Append(gg, m)) = Len(gg) + 1
      BY <3>1, HandedOn
    <3> QED BY <3>2 DEF gg
  <2> QED BY <2>1, <2>2, <2>3
<1>11. ASSUME ~over, ~bad, k + l <= Len(q), Refused(m) PROVE Goal
  <2> DEFINE z == Failed(h, "parse")
  <2>1. Turn(x) = z
    <3>1. ~(k + l > Len(q))
      BY <1>1, <1>5, <1>11
    <3> QED BY <1>3, <1>11, <3>1
  <2>2. "parse" \in Errors /\ "parse" # "none" /\ "parse" # "ping"
    BY DEF Errors
  <2>3. /\ Work(h) /\ SameRest(y.t, h.t) /\ HandedOf(h.log.given, in)
        /\ h.log.conns = x.log.conns /\ h.got = x.got /\ h.index = x.index
        /\ (h.t.error = "ping" => x.t.error = "ping")
        /\ y.t.recvBuf = x.t.recvBuf
        /\ y.t.open = x.t.open /\ y.t.pings = x.t.pings /\ y.t.quiet = x.t.quiet
    BY <1>5, <1>10, <1>11
  <2> HIDE DEF h, y
  <2>4. /\ Work(z) /\ SameRest(h.t, z.t) /\ z.log = h.log /\ z.got = h.got
        /\ z.index = h.index /\ ~z.on /\ z.keep /\ z.t.error # "none"
        /\ (z.t.error = "ping" => h.t.error = "ping")
    BY <2>2, <2>3, FailedOnly
  <2> HIDE DEF z
  <2>5. Turning(z, rest)
    BY <1>1, <2>3, <2>4 DEF Turning, SameRest
  <2>6. Turned(x, z)
    BY <2>3, <2>4 DEF Turned, SameRest
  <2> QED BY <2>1, <2>5, <2>6
<1>12. ASSUME ~over, ~bad, k + l <= Len(q), ~Refused(m) PROVE Goal
  <2> DEFINE kk == k + l
             z == [h EXCEPT !.index = kk, !.t = [h.t EXCEPT !.packetLen = 0]]
  <2>1. Turn(x) = z
    <3>1. ~(k + l > Len(q))
      BY <1>1, <1>5, <1>12
    <3> QED BY <1>3, <1>12, <3>1
  <2>2. /\ Work(h) /\ SameRest(y.t, h.t) /\ HandedOf(h.log.given, in)
        /\ Len(h.log.given) = g + 1
        /\ h.log.conns = x.log.conns /\ h.got = x.got /\ h.on /\ ~h.keep
        /\ (h.t.error = "ping" => x.t.error = "ping")
        /\ (x.t.error # "none" => h.t.error # "none")
        /\ y.t.recvBuf = x.t.recvBuf
        /\ y.t.open = x.t.open /\ y.t.pings = x.t.pings /\ y.t.quiet = x.t.quiet
        /\ At(s, kk, g + 1, in) /\ kk \in 0..Len(q)
    BY <1>5, <1>9, <1>10, <1>12
  <2>3. kk \in Nat /\ kk >= k + 2 /\ x.on
    BY <1>1, <1>5, <1>7, <1>12
  <2> HIDE DEF h, y, kk
  <2>4. /\ Work(z) /\ z.log = h.log /\ z.got = h.got /\ z.index = kk
        /\ z.on = h.on /\ z.keep = h.keep
        /\ z.t.packetLen = 0 /\ z.t.recvBuf = h.t.recvBuf /\ z.t.open = h.t.open
        /\ z.t.pings = h.t.pings /\ z.t.quiet = h.t.quiet /\ z.t.error = h.t.error
    BY <2>2, <2>3, Advanced
  <2> HIDE DEF z
  <2>5. z.t.recvBuf = x.t.recvBuf /\ z.t.open = x.t.open /\ z.t.pings = x.t.pings
        /\ z.t.quiet = x.t.quiet
    BY <2>2, <2>4 DEF SameRest
  <2>6. LengthKept(z.t, Len(z.log.given), in)
    BY <2>4 DEF LengthKept
  <2>7. Turning(z, rest)
    <3>1. At(z.t.recvBuf \o rest, z.index, Len(z.log.given), in)
      BY <2>2, <2>4, <2>5
    <3>2. z.index \in 0..Len(z.t.recvBuf) /\ HandedOf(z.log.given, in) /\ ~z.keep /\ z.on
      BY <2>2, <2>4, <2>5
    <3>3. Chain(z.t.recvBuf \o rest, in)
      BY <1>1, <2>5
    <3> QED BY <1>1, <2>4, <2>6, <3>1, <3>2, <3>3 DEF Turning
  <2>8. Turned(x, z)
    BY <2>2, <2>3, <2>4, <2>5 DEF Turned
  <2> QED BY <2>1, <2>7, <2>8
<1>13. Goal
  <2>1. ~over /\ ~bad => k + l > Len(q) \/ k + l <= Len(q)
    BY <1>1, <1>5
  <2> HIDE DEF Goal, over, bad, l, m
  <2> QED BY <1>4, <1>6, <1>8, <1>11, <1>12, <2>1
<1> QED BY <1>13

\* The turns of the loop one after another: the sets of what may come of them
\* exist, for each is built from the one before.
TurnsOf(x, f, n) == f = [i \in 0..n |-> IF i = 0 THEN {Begun(x)} ELSE {Turn(y) : y \in f[i - 1]}]

LEMMA TurnsExist == ASSUME NEW x, NEW n \in Nat PROVE \E f : TurnsOf(x, f, n)
<1> DEFINE S == {i \in 0..n : \E f : TurnsOf(x, f, i)}
<1>1. 0 \in S
  <2>1. TurnsOf(x, [i \in 0..0 |-> {Begun(x)}], 0)
    BY DEF TurnsOf
  <2> QED BY <2>1
<1>2. ASSUME NEW i \in 0..n, i < n, i \in S PROVE i + 1 \in S
  <2>1. PICK f : TurnsOf(x, f, i)
    BY <1>2
  <2> DEFINE g == [k \in 0..(i + 1) |-> IF k <= i THEN f[k] ELSE {Turn(y) : y \in f[k - 1]}]
  <2>2. ASSUME NEW k \in 0..(i + 1)
        PROVE  g[k] = IF k = 0 THEN {Begun(x)} ELSE {Turn(y) : y \in g[k - 1]}
    <3>1. CASE k <= i
      <4>1. k \in 0..i /\ (k # 0 => k - 1 \in 0..i /\ k - 1 \in 0..(i + 1))
        BY <3>1
      <4>2. f[k] = IF k = 0 THEN {Begun(x)} ELSE {Turn(y) : y \in f[k - 1]}
        BY <2>1, <4>1 DEF TurnsOf
      <4>3. k # 0 => g[k - 1] = f[k - 1]
        BY <4>1
      <4>4. g[k] = f[k]
        BY <3>1
      <4> HIDE DEF g
      <4> QED BY <4>2, <4>3, <4>4
    <3>2. CASE k = i + 1
      <4>1. k # 0 /\ k - 1 \in 0..i /\ k - 1 \in 0..(i + 1)
        BY <3>2
      <4>2. g[k - 1] = f[k - 1]
        BY <4>1
      <4>3. g[k] = {Turn(y) : y \in f[k - 1]}
        BY <3>2
      <4> HIDE DEF g
      <4> QED BY <4>1, <4>2, <4>3
    <3> QED BY <3>1, <3>2
  <2>3. g = [k \in 0..(i + 1) |-> IF k = 0 THEN {Begun(x)} ELSE {Turn(y) : y \in g[k - 1]}]
    <3>1. g = [k \in 0..(i + 1) |-> g[k]]
      OBVIOUS
    <3> HIDE DEF g
    <3> QED BY <2>2, <3>1
  <2>4. TurnsOf(x, g, i + 1)
    <3> HIDE DEF g
    <3> QED BY <2>3 DEF TurnsOf
  <2>5. \E h : TurnsOf(x, h, i + 1)
    BY <2>4
  <2> QED BY <1>2, <2>5
<1>3. n \in S
  <2> HIDE DEF S
  <2> QED BY <1>1, <1>2, Upwards
<1> QED BY <1>3

\* What the turns leave alone.
TurnedSince(x, y) ==
    /\ y.t.recvBuf = x.t.recvBuf /\ y.t.open = x.t.open /\ y.t.pings = x.t.pings
    /\ y.t.quiet = x.t.quiet /\ y.log.conns = x.log.conns /\ y.got = x.got
    /\ y.t.error = "ping" => x.t.error = "ping"
    /\ x.t.error # "none" => y.t.error # "none"

\* One turn more.
LEMMA TurnedOnce ==
    ASSUME NEW b, NEW y, NEW z, TurnedSince(b, y), Turned(y, z) PROVE TurnedSince(b, z)
BY DEF TurnedSince, Turned

\* After as many turns as there are bytes the loop has come to its end.
LEMMA TurnsEnd ==
    ASSUME conf \in Setups, NEW x, NEW rest, Turning(Begun(x), rest), Begun(x).index = 0,
           Begun(x).t.recvBuf = x.t.recvBuf, x.t.recvBuf # <<>>
    PROVE  \A y \in Turns(x) : Turning(y, rest) /\ TurnedSince(Begun(x), y) /\ ~y.on
<1> DEFINE b == Begun(x)
           n == Len(x.t.recvBuf)
           f == CHOOSE h : TurnsOf(x, h, n)
<1>1. x.t.recvBuf \in Seq(Byte)
  BY DEF Turning, Work, Works, SessionState
<1>2. n \in Nat /\ n > 0
  BY <1>1, EmptySeq
<1> HIDE DEF n
<1>3. TurnsOf(x, f, n)
  <2> DEFINE P(h) == TurnsOf(x, h, n)
  <2>1. \E h : P(h)
    BY <1>2, TurnsExist
  <2>2. P(CHOOSE h : P(h))
    BY <2>1, Zenon
  <2> QED BY <2>2
<1>4. Turns(x) = f[n]
  BY DEF Turns, TurnsOf, n
<1> HIDE DEF f
<1> DEFINE Fine(y, i) == /\ Turning(y, rest) /\ TurnedSince(b, y)
                         /\ y.on => y.index >= 2 * i
           S == {i \in 0..n : \A y \in f[i] : Fine(y, i)}
<1>5. 0 \in S
  <2>1. f[0] = {b}
    BY <1>2, <1>3 DEF TurnsOf
  <2>2. TurnedSince(b, b)
    BY DEF TurnedSince
  <2> HIDE DEF b
  <2>3. Fine(b, 0)
    BY <2>2 DEF b
  <2> QED BY <1>2, <2>1, <2>3
<1>6. ASSUME NEW i \in 0..n, i < n, i \in S PROVE i + 1 \in S
  <2>1. i + 1 \in 0..n /\ i + 1 # 0 /\ (i + 1) - 1 = i
    BY <1>2, <1>6
  <2>2. f[i + 1] = {Turn(y) : y \in f[i]}
    BY <1>3, <2>1 DEF TurnsOf
  <2>3. ASSUME NEW y \in f[i] PROVE Fine(Turn(y), i + 1)
    <3>1. Turning(y, rest) /\ TurnedSince(b, y) /\ (y.on => y.index >= 2 * i)
      BY <1>6
    <3>2. Turning(Turn(y), rest) /\ Turned(y, Turn(y))
      BY <3>1, TurnKeeps
    <3>3. TurnedSince(b, Turn(y))
      BY <3>1, <3>2, TurnedOnce
    <3>4. y.index \in Nat /\ Turn(y).index \in Nat
      BY <3>1, <3>2 DEF Turning, Work, Works
    <3>5. Turn(y).on => Turn(y).index >= 2 * (i + 1)
      <4>1. Turn(y).on => y.on /\ Turn(y).index >= y.index + 2
        BY <3>2 DEF Turned
      <4> QED BY <3>1, <3>4, <4>1
    <3> QED BY <3>2, <3>3, <3>5
  <2> HIDE DEF Fine
  <2> QED BY <2>1, <2>2, <2>3
<1>7. n \in S
  <2> HIDE DEF S
  <2>1. \A i \in 0..n : i < n /\ i \in S => i + 1 \in S
    BY <1>6
  <2>2. \A i \in 0..n : i \in S
    BY <1>2, <1>5, <2>1, Upwards
  <2> QED BY <1>2, <2>2
<1>8. ASSUME NEW y \in Turns(x) PROVE Turning(y, rest) /\ TurnedSince(b, y) /\ ~y.on
  <2>1. Fine(y, n)
    BY <1>4, <1>7, <1>8
  <2>2. y.index \in 0..Len(y.t.recvBuf) /\ y.t.recvBuf = b.t.recvBuf
    BY <2>1 DEF Turning, TurnedSince
  <2>3. y.index \in 0..n
    BY <2>2 DEF n
  <2> QED BY <1>2, <2>1, <2>3
<1> QED BY <1>8

\* Dropping from the front of two sequences joined.
LEMMA DropJoined ==
    ASSUME NEW T, NEW q \in Seq(T), NEW r \in Seq(T), NEW k \in 0..Len(q)
    PROVE  Drop(q, k) \o r = Drop(q \o r, k) /\ k \in 0..Len(q \o r)
<1> DEFINE n == Len(q)
           l == Len(r)
           s == q \o r
           a == Drop(q, k)
           c == a \o r
           d == Drop(s, k)
<1>1. n \in Nat /\ l \in Nat /\ k \in 0..n
  OBVIOUS
<1>2. s \in Seq(T) /\ Len(s) = n + l /\ \A i \in 1..(n + l) : s[i] = IF i <= n THEN q[i] ELSE r[i - n]
  BY ConcatProperties
<1>3. a \in Seq(T) /\ Len(a) = n - k /\ \A i \in 1..(n - k) : a[i] = q[i + k]
  BY Split
<1>4. k \in 0..Len(s)
  BY <1>1, <1>2
<1>5. d \in Seq(T) /\ Len(d) = (n + l) - k /\ \A i \in 1..((n + l) - k) : d[i] = s[i + k]
  <2> HIDE DEF s
  <2>1. d \in Seq(T) /\ Len(d) = Len(s) - k /\ \A i \in 1..(Len(s) - k) : d[i] = s[i + k]
    BY <1>2, <1>4, Split
  <2> QED BY <1>2, <2>1
<1> HIDE DEF a
<1>6. c \in Seq(T) /\ Len(c) = (n - k) + l
      /\ \A i \in 1..((n - k) + l) : c[i] = IF i <= n - k THEN a[i] ELSE r[i - (n - k)]
  <2> DEFINE m == Len(a)
  <2>1. c \in Seq(T) /\ Len(c) = m + l
        /\ \A i \in 1..(m + l) : c[i] = IF i <= m THEN a[i] ELSE r[i - m]
    BY <1>3, ConcatProperties
  <2> HIDE DEF c
  <2> QED BY <1>3, <2>1
<1> HIDE DEF s, c, d, n, l
<1>7. Len(c) = Len(d)
  BY <1>1, <1>5, <1>6
<1>8. ASSUME NEW i \in 1..Len(c) PROVE c[i] = d[i]
  <2>1. i \in 1..((n - k) + l) /\ i \in 1..((n + l) - k) /\ i + k \in 1..(n + l)
    BY <1>1, <1>6
  <2>2. d[i] = IF i + k <= n THEN q[i + k] ELSE r[(i + k) - n]
    BY <1>2, <1>5, <2>1
  <2>3. c[i] = IF i <= n - k THEN a[i] ELSE r[i - (n - k)]
    BY <1>6, <2>1
  <2>4. (i <= n - k) = (i + k <= n) /\ (i <= n - k => i \in 1..(n - k)) /\ (i + k) - n = i - (n - k)
    BY <1>1, <2>1
  <2>5. i <= n - k => a[i] = q[i + k]
    BY <1>3, <2>4
  <2> QED BY <2>2, <2>3, <2>4, <2>5
<1>9. c = d
  BY <1>5, <1>6, <1>7, <1>8, SeqEqual
<1> QED BY <1>4, <1>9 DEF a, c, d, s

\* What the next call of uppack starts from; rest is what has not been received.
HearsOn(t, given, rest) ==
    /\ rest \in Seq(Byte) /\ Chain(t.recvBuf \o rest, peer.in)
    /\ At(t.recvBuf \o rest, 0, Len(given), peer.in)
    /\ LengthKept(t, Len(given), peer.in) /\ HandedOf(given, peer.in)

\* The session has what uppack leaves, or it has an error.
Read(x, y, rest) ==
    /\ Work(y) /\ HandedOf(y.log.given, peer.in) /\ y.got = x.got
    /\ y.t.open = x.t.open /\ y.t.pings = x.t.pings /\ y.t.quiet = x.t.quiet
    /\ y.log.conns = x.log.conns
    /\ y.t.error = "ping" => x.t.error = "ping"
    /\ x.t.error # "none" => y.t.error # "none"
    /\ y.t.error = "none" => HearsOn(y.t, y.log.given, rest) /\ Awaits(y.t, 0)

\* The loop begins at the start of the buffer.
LEMMA BegunOnly ==
    ASSUME NEW x, Work(x)
    PROVE  LET b == Begun(x) IN
           /\ Work(b) /\ b.t = x.t /\ b.log = x.log /\ b.got = x.got /\ b.index = 0
           /\ b.on /\ ~b.keep
<1> DEFINE b == Begun(x)
<1>1. x \in Works /\ Sending(x.t, x.log, x.wire)
  BY DEF Work
<1>2. /\ b \in Works /\ b.t = x.t /\ b.log = x.log /\ b.got = x.got /\ b.index = 0
      /\ b.on /\ ~b.keep /\ b.wire = x.wire
  BY <1>1 DEF Works, Begun
<1> HIDE DEF b
<1>3. Work(b)
  BY <1>1, <1>2 DEF Work
<1> QED BY <1>2, <1>3 DEF b

\* The bytes that were handled leave the buffer.
LEMMA AdjustedOnly ==
    ASSUME NEW y, NEW rest, Turning(y, rest), ~y.on
    PROVE  LET z == Adjusted(y) IN
           /\ Work(z) /\ z.log = y.log /\ z.got = y.got /\ z.t.open = y.t.open
           /\ z.t.pings = y.t.pings /\ z.t.quiet = y.t.quiet /\ z.t.error = y.t.error
           /\ z.t.error = "none" => HearsOn(z.t, z.log.given, rest) /\ Awaits(z.t, 0)
<1> DEFINE q == y.t.recvBuf
           k == y.index
           d == Drop(q, k)
           u == [y.t EXCEPT !.recvBuf = d]
           w == [y EXCEPT !.t = u]
           z == Adjusted(y)
           g == Len(y.log.given)
           Goal == /\ Work(z) /\ z.log = y.log /\ z.got = y.got /\ z.t.open = y.t.open
                   /\ z.t.pings = y.t.pings /\ z.t.quiet = y.t.quiet /\ z.t.error = y.t.error
                   /\ z.t.error = "none" => HearsOn(z.t, z.log.given, rest) /\ Awaits(z.t, 0)
<1>1. Work(y) /\ y.t \in SessionState /\ k \in 0..Len(q) /\ Chain(q \o rest, peer.in)
      /\ rest \in Seq(Byte) /\ HandedOf(y.log.given, peer.in)
  BY DEF Turning, Work, Works
<1>2. q \in Seq(Byte) /\ y.t.packetLen \in Nat
  BY <1>1 DEF SessionState
<1>3. ASSUME y.keep PROVE Goal
  <2>1. z = y /\ y.t.error # "none"
    BY <1>3 DEF Adjusted, Turning
  <2> QED BY <1>1, <2>1
<1>4. ASSUME ~y.keep PROVE Goal
  <2>1. z = w
    BY <1>4 DEF Adjusted
  <2>2. At(q \o rest, k, g, peer.in) /\ LengthKept(y.t, g, peer.in) /\ Awaits(y.t, k)
    BY <1>4 DEF Turning
  <2>3. d \in Seq(Byte) /\ Len(d) = Len(q) - k
    <3> HIDE DEF q, k
    <3> QED BY <1>1, <1>2, Split
  <2>4. d \o rest = Drop(q \o rest, k)
    <3> HIDE DEF q, k
    <3> QED BY <1>1, <1>2, DropJoined
  <2>5. Chain(d \o rest, peer.in) /\ At(d \o rest, 0, g, peer.in)
    <3> DEFINE s == q \o rest
    <3>1. Chain(s, peer.in) /\ At(s, k, g, peer.in)
      BY <1>1, <2>2
    <3> HIDE DEF s, k, g
    <3>2. Chain(Drop(s, k), peer.in) /\ At(Drop(s, k), 0, g, peer.in)
      BY <3>1, ChainDrops
    <3> QED BY <2>4, <3>2 DEF s
  <2> HIDE DEF d
  <2>6. /\ u \in SessionState /\ u.recvBuf = d /\ u.open = y.t.open /\ u.pings = y.t.pings
        /\ u.quiet = y.t.quiet /\ u.error = y.t.error /\ u.packetLen = y.t.packetLen
        /\ u.sendBuf = y.t.sendBuf /\ u.sendSize = y.t.sendSize /\ u.noSend = y.t.noSend
    BY <1>1, <2>3 DEF SessionState
  <2> HIDE DEF u
  <2>7. /\ Work(w) /\ w.t = u /\ w.log = y.log /\ w.wire = y.wire /\ w.got = y.got
        /\ w.index = y.index /\ w.on = y.on /\ w.keep = y.keep
    BY <1>1, <2>6, Touched
  <2> HIDE DEF w, z
  <2>8. Awaits(u, 0)
    BY <1>1, <1>2, <2>2, <2>3, <2>6 DEF Awaits
  <2>9. LengthKept(u, g, peer.in)
    BY <2>2, <2>6 DEF LengthKept
  <2>10. HearsOn(w.t, w.log.given, rest)
    BY <1>1, <2>5, <2>6, <2>7, <2>9 DEF HearsOn
  <2> QED BY <2>1, <2>6, <2>7, <2>8, <2>10
<1>5. Goal
  BY <1>3, <1>4
<1> QED BY <1>5

\* uppack hands on the messages that are complete and keeps the rest, with the
\* length it has read, or sets an error.
LEMMA UppackHears ==
    ASSUME conf \in Setups, NEW x, Work(x), NEW rest, HearsOn(x.t, x.log.given, rest),
           x.t.recvBuf # <<>>
    PROVE  \A y \in uppack(x) : Read(x, y, rest)
<1> DEFINE b == Begun(x)
<1>1. /\ Work(b) /\ b.t = x.t /\ b.log = x.log /\ b.got = x.got /\ b.index = 0
      /\ b.on /\ ~b.keep
  BY BegunOnly
<1> HIDE DEF b
<1>2. Turning(b, rest)
  <2>1. x.t.recvBuf \in Seq(Byte)
    BY DEF Work, Works, SessionState
  <2>2. 0 \in 0..Len(x.t.recvBuf)
    BY <2>1
  <2> QED BY <1>1, <2>2 DEF Turning, HearsOn
<1>3. \A y \in Turns(x) : Turning(y, rest) /\ TurnedSince(b, y) /\ ~y.on
  BY <1>1, <1>2, TurnsEnd DEF b
<1>4. ASSUME NEW y \in Turns(x) PROVE Read(x, Adjusted(y), rest)
  <2> DEFINE z == Adjusted(y)
  <2>1. Turning(y, rest) /\ TurnedSince(b, y) /\ ~y.on
    BY <1>3
  <2>2. /\ Work(z) /\ z.log = y.log /\ z.got = y.got /\ z.t.open = y.t.open
        /\ z.t.pings = y.t.pings /\ z.t.quiet = y.t.quiet /\ z.t.error = y.t.error
        /\ z.t.error = "none" => HearsOn(z.t, z.log.given, rest) /\ Awaits(z.t, 0)
    BY <2>1, AdjustedOnly
  <2> HIDE DEF z
  <2>3. HandedOf(y.log.given, peer.in)
    BY <2>1 DEF Turning
  <2>4. Read(x, z, rest)
    BY <1>1, <2>1, <2>2, <2>3 DEF Read, TurnedSince
  <2> QED BY <2>4 DEF z
<1> QED BY <1>4 DEF uppack

\* What the receiving side leaves for the keep-alive.
Served(x, y, rest) ==
    /\ Work(y) /\ HandedOf(y.log.given, peer.in) /\ y.got = x.got
    /\ y.t.open = x.t.open /\ Silences(y.t) /\ y.log.conns = x.log.conns
    /\ y.t.error = "ping" => x.t.error = "ping"
    /\ x.t.error # "none" => y.t.error # "none"
    /\ y.t.error = "none" => HearsOn(y.t, y.log.given, rest) /\ Awaits(y.t, 0)

\* Nothing is dropped.
LEMMA DropNone == ASSUME NEW T, NEW q \in Seq(T) PROVE Drop(q, 0) = q
<1> DEFINE d == Drop(q, 0)
<1>1. d \in Seq(T) /\ Len(d) = Len(q) /\ \A i \in 1..Len(q) : d[i] = q[i]
  <2>1. 0 \in 0..Len(q) /\ Len(q) - 0 = Len(q) /\ \A i \in 1..Len(q) : i + 0 = i
    OBVIOUS
  <2>2. d \in Seq(T) /\ Len(d) = Len(q) - 0 /\ \A i \in 1..(Len(q) - 0) : d[i] = q[i + 0]
    BY <2>1, Split
  <2> QED BY <2>1, <2>2
<1> HIDE DEF d
<1>2. d = q
  BY <1>1, SeqEqual
<1> QED BY <1>2 DEF d

\* The least of two numbers.
LEMMA LeastOfTwo ==
    ASSUME NEW a \in Nat, NEW b \in Nat
    PROVE  Min({a, b}) \in {a, b} /\ Min({a, b}) <= a /\ Min({a, b}) <= b
<1> DEFINE P(x) == x \in {a, b} /\ \A y \in {a, b} : x <= y
<1>1. \E x : P(x)
  <2>1. CASE a <= b
    BY <2>1
  <2>2. CASE ~(a <= b)
    BY <2>2
  <2> QED BY <2>1, <2>2
<1>2. Min({a, b}) = CHOOSE x : P(x)
  BY DEF Min
<1>3. P(CHOOSE x : P(x))
  BY <1>1, Zenon
<1>4. P(Min({a, b}))
  BY <1>2, <1>3
<1> QED BY <1>4

\* The session receives bytes, or learns that there will be none; nothing is lost
\* and the rest of the line is received later.
LEMMA RecvServes ==
    ASSUME conf \in Setups, NEW x, Work(x), HearsOn(x.t, x.log.given, peer.line),
           Awaits(x.t, 0), Silences(x.t), x.t.error # "ping", NEW n \in RecvOf(x.t),
           NEW y \in recvData(x, n)
    PROVE  Served(x, y, Drop(peer.line, n)) /\ n \in 0..Len(peer.line)
<1> DEFINE q == x.t.recvBuf
           w == peer.line
<1>1. x.t \in SessionState /\ q \in Seq(Byte) /\ w \in Seq(Byte) /\ Len(q) \in Nat
      /\ Len(w) \in Nat /\ BufSize \in Nat
  BY ConfFacts DEF Work, Works, SessionState, HearsOn
<1>2. 0 <= LastPing /\ LastPing \in Nat /\ MaxPing \in Nat
  BY ConfFacts
<1>3. CASE n = 0
  <2>1. Drop(w, n) = w /\ n \in 0..Len(w)
    <3> HIDE DEF w
    <3>1. Drop(w, 0) = w
      BY <1>1, DropNone
    <3> QED BY <1>1, <1>3, <3>1
  <2>2. CASE ~x.t.canRecv
    <3>1. y = x
      BY <2>2 DEF recvData
    <3> QED BY <2>1, <3>1 DEF Served, HearsOn
  <2>3. CASE x.t.canRecv
    <3> DEFINE v == [x.t EXCEPT !.canRecv = FALSE]
               u == Unheard(x.t)
               z == [x EXCEPT !.t = u]
    <3>1. y = z
      <4>1. ~(n > 0)
        BY <1>3
      <4> HIDE DEF z
      <4> QED BY <2>3, <4>1 DEF recvData, z, u
    <3>2. /\ v \in SessionState /\ v.recvBuf = q /\ v.open = x.t.open /\ v.pings = x.t.pings
          /\ v.quiet = x.t.quiet /\ v.error = x.t.error /\ v.packetLen = x.t.packetLen
          /\ v.sendBuf = x.t.sendBuf /\ v.sendSize = x.t.sendSize /\ v.noSend = x.t.noSend
      BY <1>1 DEF SessionState
    <3>3. u \in {v, setError(v, "recv"), setError(v, "closed")}
      BY DEF Unheard
    <3> HIDE DEF v
    <3>4. \A e \in {"recv", "closed"} :
            LET s == setError(v, e) IN
            s \in SessionState /\ SameRest(v, s) /\ ErrorIs(v, s, e) /\ s.sendBuf = v.sendBuf
            /\ s.sendSize = v.sendSize
      <4>1. ASSUME NEW e \in {"recv", "closed"}
            PROVE  LET s == setError(v, e) IN
                   s \in SessionState /\ SameRest(v, s) /\ ErrorIs(v, s, e)
                   /\ s.sendBuf = v.sendBuf /\ s.sendSize = v.sendSize
        <5>1. e \in Errors
          BY DEF Errors
        <5> QED BY <3>2, <5>1, SessionError
      <4> QED BY <4>1
    <3> HIDE DEF u
    <3>5. /\ u \in SessionState /\ SameRest(v, u) /\ u.sendBuf = v.sendBuf
          /\ u.sendSize = v.sendSize
          /\ (u.error = "ping" => v.error = "ping")
          /\ (v.error # "none" => u.error # "none")
      BY <3>2, <3>3, <3>4 DEF SameRest, ErrorIs
    <3>6. /\ Work(z) /\ z.t = u /\ z.log = x.log /\ z.wire = x.wire /\ z.got = x.got
          /\ z.index = x.index /\ z.on = x.on /\ z.keep = x.keep
      <4>1. /\ u.sendBuf = x.t.sendBuf /\ u.sendSize = x.t.sendSize /\ u.noSend = x.t.noSend
            /\ (x.t.error # "none" => u.error # "none")
        BY <3>2, <3>5 DEF SameRest
      <4> QED BY <3>5, <4>1, Touched
    <3> HIDE DEF z
    <3>7. u.recvBuf = q /\ u.packetLen = x.t.packetLen /\ u.open = x.t.open
          /\ u.pings = x.t.pings /\ u.quiet = x.t.quiet
      BY <3>2, <3>5 DEF SameRest
    <3>8. HearsOn(u, x.log.given, w) /\ Awaits(u, 0)
      BY <3>7 DEF HearsOn, LengthKept, Awaits
    <3>9. Silences(u)
      BY <3>2, <3>5, <3>7 DEF Silences
    <3>10. HandedOf(x.log.given, peer.in)
      BY DEF HearsOn
    <3>11. Served(x, z, w)
      BY <3>2, <3>5, <3>6, <3>7, <3>8, <3>9, <3>10 DEF Served
    <3> QED BY <2>1, <3>1, <3>11
  <2> QED BY <2>2, <2>3
<1>4. CASE n # 0
  <2>1. RecvOf(x.t) = 1..Min({Space(x.t), Len(w)}) /\ x.t.canRecv /\ w # <<>>
    BY <1>4 DEF RecvOf
  <2>2. n \in 1..Len(w)
    <3>1. Space(x.t) \in Int
      BY <1>1 DEF Space
    <3>2. Len(q) < BufSize
      BY <1>1, ConfFacts DEF Awaits, HearsOn, LengthKept, SessionState
    <3>3. Space(x.t) \in Nat
      BY <1>1, <3>2 DEF Space
    <3> DEFINE a == Space(x.t)
               b == Len(w)
               m == Min({a, b})
    <3> HIDE DEF a
    <3>4. a \in Nat /\ b \in Nat
      BY <1>1, <3>3 DEF a
    <3> HIDE DEF b
    <3>5. m \in Nat /\ m <= b
      BY <3>4, LeastOfTwo
    <3> HIDE DEF m
    <3>6. n \in 1..m
      BY <2>1 DEF m, a, b
    <3>7. n \in 1..b
      BY <3>4, <3>5, <3>6
    <3> QED BY <3>7 DEF b
  <2> DEFINE h == SubSeq(w, 1, n)
             d == Drop(w, n)
             r == q \o h
             u == Received(x.t, n)
             z == [x EXCEPT !.t = u]
  <2>3. y \in uppack(z)
    <3>1. n > 0
      BY <1>4, <2>2
    <3> HIDE DEF z
    <3> QED BY <2>1, <3>1 DEF recvData, z, u
  <2>4. h \in Seq(Byte) /\ Len(h) = n /\ d \in Seq(Byte) /\ h \o d = w
    <3>1. n \in 0..Len(w)
      BY <1>1, <2>2
    <3> HIDE DEF w
    <3> QED BY <1>1, <3>1, Split
  <2>5. r \in Seq(Byte) /\ Len(r) = Len(q) + n /\ r \o d = q \o w
    <3> HIDE DEF h, d, q
    <3>1. r \in Seq(Byte) /\ Len(r) = Len(q) + n
      BY <1>1, <2>4, ConcatProperties
    <3>2. (q \o h) \o d = q \o (h \o d)
      <4>1. q \in Seq(Byte) /\ h \in Seq(Byte) /\ d \in Seq(Byte)
        BY <1>1, <2>4
      <4> QED BY <4>1, ConcatAssociative
    <3> QED BY <2>4, <3>1, <3>2
  <2>6. r # <<>>
    <3> HIDE DEF r
    <3> QED BY <1>1, <2>2, <2>5
  <2>7. u = [x.t EXCEPT !.recvBuf = r, !.pings = 0, !.quiet = 0, !.canRecv = FALSE]
    BY DEF Received
  <2> HIDE DEF r, u
  <2>8. /\ u \in SessionState /\ u.recvBuf = r /\ u.pings = 0 /\ u.quiet = 0
        /\ u.open = x.t.open /\ u.error = x.t.error /\ u.packetLen = x.t.packetLen
        /\ u.sendBuf = x.t.sendBuf /\ u.sendSize = x.t.sendSize /\ u.noSend = x.t.noSend
    BY <1>1, <2>5, <2>7 DEF SessionState
  <2>9. /\ Work(z) /\ z.t = u /\ z.log = x.log /\ z.wire = x.wire /\ z.got = x.got
        /\ z.index = x.index /\ z.on = x.on /\ z.keep = x.keep
    BY <2>8, Touched
  <2> HIDE DEF z, d
  <2>10. HearsOn(z.t, z.log.given, d)
    BY <2>4, <2>5, <2>8, <2>9 DEF HearsOn, LengthKept
  <2>11. Read(z, y, d)
    BY <2>3, <2>6, <2>8, <2>9, <2>10, UppackHears
  <2>12. Silences(y.t)
    BY <1>2, <2>8, <2>9, <2>11 DEF Read, Silences
  <2>13. Served(x, y, d)
    BY <2>8, <2>9, <2>11, <2>12 DEF Served, Read
  <2>14. n \in 0..Len(w)
    BY <2>2
  <2> QED BY <2>13, <2>14 DEF d
<1> QED BY <1>3, <1>4

\* What one call of routine comes to.
Done(y) ==
    /\ Work(y) /\ HandedOf(y.log.given, peer.in) /\ y.got \in 0..Len(peer.line)
    /\ y.t.open = sess.open /\ Silences(y.t)
    /\ y.t.error = "none" =>
         HearsOn(y.t, y.log.given, Drop(peer.line, y.got)) /\ Awaits(y.t, 0)

\* Where routine starts.
LEMMA StartOnly ==
    ASSUME Sending(sess, log, peer.wire), NEW r \in Nat
    PROVE  LET x == Start(r) IN Work(x) /\ x.t = sess /\ x.log = log /\ x.got = r
<1> DEFINE x == Start(r)
<1>1. x \in Works
  BY DEF Sending, Works, Start
<1>2. x.t = sess /\ x.log = log /\ x.got = r /\ x.wire = peer.wire
  BY DEF Start
<1> HIDE DEF x
<1>3. Work(x)
  BY <1>1, <1>2 DEF Work
<1> QED BY <1>2, <1>3 DEF x

\* The keep-alive leaves what was received.
LEMMA ProbeDone ==
    ASSUME conf \in Setups, NEW x, NEW y, NEW rest, Served(x, y, rest), y.t.error # "ping",
           x.t.open = sess.open, x.got \in 0..Len(peer.line), rest = Drop(peer.line, x.got)
    PROVE  Done(probe(y))
<1> DEFINE z == probe(y)
<1>1. ProbeOnly(y, z)
  BY ProbeStep DEF Served
<1> HIDE DEF z
<1>2. z.t.error = "none" => HearsOn(z.t, z.log.given, rest) /\ Awaits(z.t, 0)
  BY <1>1 DEF Served, ProbeOnly, HearsOn, LengthKept, Awaits
<1>3. Work(z) /\ HandedOf(z.log.given, peer.in) /\ z.got = x.got /\ z.t.open = sess.open
      /\ Silences(z.t)
  BY <1>1 DEF Served, ProbeOnly
<1>4. Done(z)
  BY <1>2, <1>3 DEF Done
<1> QED BY <1>4 DEF z

\* So do the sends.
LEMMA SendsDone ==
    ASSUME NEW x, NEW y, Done(x), Onwards(x, y)
    PROVE  Done(y)
<1>1. /\ Work(y) /\ y.log.given = x.log.given /\ y.got = x.got /\ y.t.open = x.t.open
      /\ y.t.recvBuf = x.t.recvBuf /\ y.t.packetLen = x.t.packetLen
      /\ y.t.pings = x.t.pings /\ y.t.quiet = x.t.quiet
      /\ (y.t.error = "ping" => x.t.error = "ping")
      /\ (x.t.error # "none" => y.t.error # "none")
  BY DEF Onwards, SendsOnly, SameRest
<1>2. Silences(y.t)
  BY <1>1 DEF Done, Silences
<1>3. y.t.error = "none" => HearsOn(y.t, y.log.given, Drop(peer.line, y.got)) /\ Awaits(y.t, 0)
  BY <1>1 DEF Done, HearsOn, LengthKept, Awaits
<1> QED BY <1>1, <1>2, <1>3 DEF Done

\* Whatever the socket gives and takes, routine leaves the connection in order.
LEMMA RoutineDone ==
    ASSUME conf \in Setups, Sending(sess, log, peer.wire),
           HearsOn(sess, log.given, peer.line), Awaits(sess, 0), Silences(sess),
           sess.error # "ping"
    PROVE  \A y \in Outcomes : Done(y)
<1> DEFINE reads == {probe(x) : x \in UNION {recvData(Start(r), r) : r \in RecvOf(sess)}}
           sends == UNION {{AfterSend(y, k) : k \in SendOf(y.t)} : y \in reads}
<1>1. Outcomes = UNION {{LastSend(z, l) : l \in SendOf(z.t)} : z \in sends}
  BY DEF Outcomes
<1>2. ASSUME NEW r \in RecvOf(sess), NEW y \in recvData(Start(r), r) PROVE Done(probe(y))
  <2> DEFINE x == Start(r)
  <2>1. r \in Nat
    <3>1. RecvOf(sess) \subseteq Nat
      <4> DEFINE m == Min({Space(sess), Len(peer.line)})
      <4>1. RecvOf(sess) = {0} \/ RecvOf(sess) = 1..m
        BY DEF RecvOf
      <4> HIDE DEF m
      <4>2. 1..m \subseteq Nat /\ {0} \subseteq Nat
        OBVIOUS
      <4> QED BY <4>1, <4>2
    <3> QED BY <3>1
  <2>2. Work(x) /\ x.t = sess /\ x.log = log /\ x.got = r
    BY <2>1, StartOnly
  <2> HIDE DEF x
  <2>3. y \in recvData(x, r)
    BY <1>2 DEF x
  <2>4. r \in RecvOf(x.t) /\ HearsOn(x.t, x.log.given, peer.line) /\ Awaits(x.t, 0)
        /\ Silences(x.t) /\ x.t.error # "ping"
    BY <2>2
  <2>5. Served(x, y, Drop(peer.line, r)) /\ r \in 0..Len(peer.line)
    BY <2>2, <2>3, <2>4, RecvServes
  <2>6. y.t.error # "ping"
    BY <2>4, <2>5 DEF Served
  <2> QED BY <2>2, <2>5, <2>6, ProbeDone
<1>3. \A y \in reads : Done(y)
  BY <1>2
<1> HIDE DEF reads
<1>4. ASSUME NEW y \in reads, NEW k \in SendOf(y.t) PROVE Done(AfterSend(y, k))
  <2>1. Done(y) /\ Work(y)
    BY <1>3 DEF Done
  <2>2. Onwards(y, AfterSend(y, k))
    BY <2>1, AfterSendOnly
  <2> QED BY <2>1, <2>2, SendsDone
<1>5. \A z \in sends : Done(z)
  BY <1>4
<1> HIDE DEF sends
<1>6. ASSUME NEW z \in sends, NEW l \in SendOf(z.t) PROVE Done(LastSend(z, l))
  <2>1. Done(z) /\ Work(z)
    BY <1>5 DEF Done
  <2>2. Onwards(z, LastSend(z, l))
    BY <2>1, LastSendOnly
  <2> QED BY <2>1, <2>2, SendsDone
<1> QED BY <1>1, <1>6

-----------------------------------------------------------------------------
(* The inductive invariant of a session.                                   *)

Peers == [state : {"away", "there", "closed", "reset"}, in : Seq(Message),
          line : Seq(Byte), wire : Seq(Byte)]

\* An open connection is between two calls of routine; a closed one has left
\* nothing for the next.
OpenOK ==
    /\ Sending(sess, log, peer.wire)
    /\ HearsOn(sess, log.given, peer.line) /\ Awaits(sess, 0)
    /\ sess.error # "ping"
ClosedOK ==
    /\ sess.sendBuf = <<>> /\ sess.recvBuf = <<>> /\ sess.packetLen = 0 /\ sess.pings = 0
    /\ IsPrefix(peer.wire, AskedBytes(log.out))

SessionIInv ==
    /\ conf \in Setups
    /\ sess \in SessionState /\ peer \in Peers /\ log \in Logs
    /\ sess.sendSize <= SendMax /\ Len(sess.sendBuf) <= sess.sendSize
    /\ sess.packetLen <= BufSize
    /\ HandedOf(log.given, peer.in)
    /\ Silences(sess)
    /\ log.lost => sess.error # "none" \/ sess.noSend
    /\ sess.open => OpenOK
    /\ ~sess.open => ClosedOK

\* No step changes the configuration.
LEMMA ConfStays ==
    ASSUME conf' = conf
    PROVE  /\ BufSize' = BufSize /\ SendMax' = SendMax /\ PingTimes' = PingTimes
           /\ MaxPing' = MaxPing /\ LastPing' = LastPing
<1>1. BufSize' = BufSize /\ SendMax' = SendMax /\ PingTimes' = PingTimes
  BY DEF BufSize, SendMax, PingTimes
<1>2. MaxPing' = MaxPing
  BY <1>1 DEF MaxPing
<1> QED BY <1>1, <1>2 DEF LastPing

\* What has to be shown of a step after which the connection is open.
LEMMA OpenNext ==
    ASSUME conf \in Setups, conf' = conf, sess'.open, peer' \in Peers,
           Sending(sess', log', peer'.wire), Silences(sess'), Awaits(sess', 0),
           sess'.error # "ping", NEW in, in = peer'.in,
           Chain(sess'.recvBuf \o peer'.line, in),
           At(sess'.recvBuf \o peer'.line, 0, Len(log'.given), in),
           LengthKept(sess', Len(log'.given), in), HandedOf(log'.given, in)
    PROVE  SessionIInv'
<1>1. /\ BufSize' = BufSize /\ SendMax' = SendMax /\ PingTimes' = PingTimes
      /\ MaxPing' = MaxPing /\ LastPing' = LastPing
  BY ConfStays
<1>2. /\ sess' \in SessionState /\ log' \in Logs
      /\ Len(sess'.sendBuf) <= sess'.sendSize /\ sess'.sendSize <= SendMax
      /\ (log'.lost => sess'.error # "none" \/ sess'.noSend)
  BY DEF Sending
<1>3. Sending(sess, log, peer.wire)'
  BY <1>1 DEF Sending
<1>4. Silences(sess)'
  BY <1>1 DEF Silences
<1>5. Awaits(sess, 0)'
  BY DEF Awaits
<1>6. HearsOn(sess, log.given, peer.line)'
  <2>1. peer'.line \in Seq(Byte)
    BY DEF Peers
  <2>2. LengthKept(sess, Len(log.given), peer.in)'
    BY <1>1 DEF LengthKept
  <2> QED BY <2>1, <2>2 DEF HearsOn
<1>7. sess'.packetLen <= BufSize
  <2>1. sess'.packetLen # 0 => sess'.packetLen <= BufSize
    BY DEF LengthKept
  <2>2. sess'.packetLen = 0 => sess'.packetLen <= BufSize
    BY ConfFacts
  <2> QED BY <2>1, <2>2
<1>8. OpenOK'
  BY <1>3, <1>5, <1>6 DEF OpenOK
<1>9. HandedOf(log.given, peer.in)'
  OBVIOUS
<1> QED BY <1>1, <1>2, <1>4, <1>7, <1>8, <1>9 DEF SessionIInv

\* And of one after which it is closed.
LEMMA ClosedNext ==
    ASSUME conf \in Setups, conf' = conf, ~sess'.open, sess' \in SessionState, peer' \in Peers,
           log' \in Logs, sess'.sendSize <= SendMax, Silences(sess'),
           log'.lost => sess'.error # "none" \/ sess'.noSend,
           HandedOf(log'.given, peer'.in),
           sess'.sendBuf = <<>>, sess'.recvBuf = <<>>, sess'.packetLen = 0, sess'.pings = 0,
           IsPrefix(peer'.wire, AskedBytes(log'.out))
    PROVE  SessionIInv'
<1>1. /\ BufSize' = BufSize /\ SendMax' = SendMax /\ PingTimes' = PingTimes
      /\ MaxPing' = MaxPing /\ LastPing' = LastPing
  BY ConfStays
<1>2. Silences(sess)'
  BY <1>1 DEF Silences
<1>3. ClosedOK'
  BY DEF ClosedOK
<1>4. sess'.packetLen <= BufSize /\ Len(sess'.sendBuf) <= sess'.sendSize
  BY ConfFacts DEF SessionState
<1>5. HandedOf(log.given, peer.in)'
  OBVIOUS
<1> QED BY <1>1, <1>2, <1>3, <1>4, <1>5 DEF SessionIInv

\* What was sent and what is left is all that was asked: so what was sent is the
\* start of it.
LEMMA PrefixOf ==
    ASSUME NEW T, NEW a \in Seq(T), NEW b \in Seq(T), NEW s, s = a \o b
    PROVE  IsPrefix(a, s)
<1> DEFINE n == Len(a)
           c == SubSeq(s, 1, n)
           d == SubSeq(a, 1, n)
<1>1. s \in Seq(T) /\ Len(s) = n + Len(b) /\ n \in Nat /\ Len(b) \in Nat
      /\ \A i \in 1..n : s[i] = a[i]
  BY ConcatProperties
<1>2. n \in 0..Len(s) /\ n \in 0..Len(a)
  BY <1>1
<1>3. c \in Seq(T) /\ Len(c) = n /\ \A i \in 1..n : c[i] = s[i]
  BY <1>1, <1>2, Split
<1>4. d \in Seq(T) /\ Len(d) = n /\ \A i \in 1..n : d[i] = a[i]
  <2> HIDE DEF n
  <2> QED BY <1>2, Split
<1> HIDE DEF c, d
<1>5. c = d
  <2>1. \A i \in 1..n : c[i] = d[i]
    BY <1>1, <1>3, <1>4
  <2> HIDE DEF n
  <2> QED BY <1>3, <1>4, <2>1, SeqEqual
<1>6. Len(a) <= Len(s)
  BY <1>2
<1> QED BY <1>5, <1>6 DEF IsPrefix, c, d

\* close leaves nothing of the connection to the next.
LEMMA EndedOnly ==
    ASSUME NEW t \in SessionState
    PROVE  LET u == Ended(t) IN
           /\ u \in SessionState /\ ~u.open /\ u.sendBuf = <<>> /\ u.recvBuf = <<>>
           /\ u.packetLen = 0 /\ u.pings = 0 /\ u.quiet = t.quiet /\ u.error = t.error
           /\ u.noSend = t.noSend /\ u.sendSize = t.sendSize
<1> DEFINE e == <<>>
           u == [t EXCEPT !.open = FALSE, !.sendBuf = e, !.recvBuf = e, !.packetLen = 0,
                          !.pings = 0]
<1>1. e \in Seq(Byte)
  OBVIOUS
<1> HIDE DEF e
<1>2. /\ u \in SessionState /\ ~u.open /\ u.sendBuf = e /\ u.recvBuf = e
      /\ u.packetLen = 0 /\ u.pings = 0 /\ u.quiet = t.quiet /\ u.error = t.error
      /\ u.noSend = t.noSend /\ u.sendSize = t.sendSize
  BY <1>1 DEF SessionState
<1>3. Ended(t) = u
  BY DEF Ended, e
<1> QED BY <1>2, <1>3 DEF e

\* A connection that ends, in whatever state its session is.
LEMMA EndedNext ==
    ASSUME conf \in Setups, conf' = conf, NEW t, NEW w, Sending(t, log', w), Silences(t),
           HandedOf(log'.given, peer'.in), sess' = Ended(t), peer' \in Peers, peer'.wire = w
    PROVE  SessionIInv'
<1> DEFINE u == Ended(t)
<1>1. /\ t \in SessionState /\ log' \in Logs /\ w \in Seq(Byte)
      /\ w \o t.sendBuf = AskedBytes(log'.out) /\ t.sendSize <= SendMax
      /\ (log'.lost => t.error # "none" \/ t.noSend)
  BY DEF Sending
<1>2. /\ u \in SessionState /\ ~u.open /\ u.sendBuf = <<>> /\ u.recvBuf = <<>>
      /\ u.packetLen = 0 /\ u.pings = 0 /\ u.quiet = t.quiet /\ u.error = t.error
      /\ u.noSend = t.noSend /\ u.sendSize = t.sendSize
  BY <1>1, EndedOnly
<1> HIDE DEF u
<1>3. Silences(u)
  BY <1>2, ConfFacts DEF Silences
<1>4. IsPrefix(w, AskedBytes(log'.out))
  <2>1. t.sendBuf \in Seq(Byte)
    BY <1>1 DEF SessionState
  <2> QED BY <1>1, <2>1, PrefixOf
<1>5. sess' = u
  BY DEF u
<1> QED BY <1>1, <1>2, <1>3, <1>4, <1>5, ClosedNext

\* What is known of a connection that is open.
LEMMA OpenParts ==
    ASSUME SessionIInv, sess.open
    PROVE  /\ conf \in Setups /\ sess \in SessionState /\ peer \in Peers /\ log \in Logs
           /\ Sending(sess, log, peer.wire) /\ Silences(sess)
           /\ HearsOn(sess, log.given, peer.line) /\ Awaits(sess, 0) /\ sess.error # "ping"
           /\ Chain(sess.recvBuf \o peer.line, peer.in)
           /\ At(sess.recvBuf \o peer.line, 0, Len(log.given), peer.in)
           /\ LengthKept(sess, Len(log.given), peer.in) /\ HandedOf(log.given, peer.in)
BY DEF SessionIInv, OpenOK, HearsOn

\* A session that was never opened.
LEMMA SessionInitIInv == SessionInit => SessionIInv
<1> SUFFICES ASSUME SessionInit PROVE SessionIInv
  OBVIOUS
<1>1. conf \in Setups /\ sess = NewConnection /\ peer = NewPeer /\ log = NewLog
  BY DEF SessionInit
<1> DEFINE e == <<>>
<1>2. e \in Seq(Byte) /\ e \in Seq(Message) /\ e \in Seq(Seq(Byte)) /\ e \in Seq(Nat) /\ Len(e) = 0
  OBVIOUS
<1> HIDE DEF e
<1>3. /\ sess \in SessionState /\ ~sess.open /\ sess.sendBuf = e /\ sess.recvBuf = e
      /\ sess.packetLen = 0 /\ sess.pings = 0 /\ sess.quiet = 0 /\ sess.error = "none"
      /\ sess.sendSize = 0
  <2>1. sess = [open |-> FALSE, canRecv |-> TRUE, canSend |-> TRUE, sendBuf |-> e,
                sendSize |-> 0, noSend |-> TRUE, recvBuf |-> e, packetLen |-> 0,
                error |-> "none", pings |-> 0, quiet |-> 0]
    BY <1>1 DEF NewConnection, e
  <2> QED BY <1>2, <2>1 DEF SessionState, Errors
<1>4. peer \in Peers /\ peer.in = e /\ peer.wire = e
  <2>1. peer = [state |-> "away", in |-> e, line |-> e, wire |-> e]
    BY <1>1 DEF NewPeer, e
  <2> QED BY <1>2, <2>1 DEF Peers
<1>5. log \in Logs /\ log.given = e /\ log.out = e /\ ~log.lost
  <2>1. log = [conns |-> 0, given |-> e, out |-> e, lost |-> FALSE]
    BY <1>1 DEF NewLog, e
  <2> QED BY <1>2, <2>1 DEF Logs
<1>6. HandedOf(log.given, peer.in)
  BY <1>2, <1>4, <1>5 DEF HandedOf
<1>7. Silences(sess)
  BY <1>1, <1>3, ConfFacts DEF Silences
<1>8. IsPrefix(peer.wire, AskedBytes(log.out))
  <2>1. AskedBytes(log.out) = e
    BY <1>5, NothingAsked DEF e
  <2>2. e = e \o e
    BY <1>2, ConcatEmptySeq DEF e
  <2> QED BY <1>2, <1>4, <2>1, <2>2, PrefixOf
<1>9. ClosedOK
  BY <1>3, <1>8 DEF ClosedOK, e
<1> QED BY <1>1, <1>2, <1>3, <1>4, <1>5, <1>6, <1>7, <1>9, ConfFacts DEF SessionIInv

\* open finds nothing of the last connection.
LEMMA OpenKeeps == ASSUME SessionIInv, NEW made \in BOOLEAN, open(made) PROVE SessionIInv'
<1> DEFINE e == <<>>
           s == IF sess.sendSize = 0 THEN SendInit ELSE sess.sendSize
           b == IF sess.sendSize = 0 THEN ~made ELSE sess.noSend
           u == [sess EXCEPT !.open = TRUE, !.error = "none", !.canRecv = TRUE, !.canSend = TRUE,
                             !.quiet = 0, !.sendSize = s, !.noSend = b]
<1>1. /\ conf \in Setups /\ sess \in SessionState /\ sess.sendSize <= SendMax
      /\ sess.sendBuf = e /\ sess.recvBuf = e /\ sess.packetLen = 0 /\ sess.pings = 0
      /\ log \in Logs
  BY DEF SessionIInv, ClosedOK, open
<1>2. /\ sess' = u /\ conf' = conf
      /\ peer' = [NewPeer EXCEPT !.state = "there"]
      /\ log' = [NewLog EXCEPT !.conns = log.conns + 1]
  BY DEF open, Reopened
<1>3. s \in Nat /\ s <= SendMax /\ b \in BOOLEAN /\ SendMax \in Nat
  BY <1>1, ConfFacts DEF SessionState
<1>4. e \in Seq(Byte) /\ e \in Seq(Message) /\ e \in Seq(Seq(Byte)) /\ e \in Seq(Nat) /\ Len(e) = 0
  OBVIOUS
<1> HIDE DEF e, s, b
<1>5. /\ sess' \in SessionState /\ sess'.open /\ sess'.sendBuf = e /\ sess'.recvBuf = e
      /\ sess'.packetLen = 0 /\ sess'.pings = 0 /\ sess'.quiet = 0 /\ sess'.error = "none"
      /\ sess'.sendSize = s
  BY <1>1, <1>2, <1>3 DEF SessionState, Errors
<1>6. peer' \in Peers /\ peer'.in = e /\ peer'.line = e /\ peer'.wire = e
  <2>1. peer' = [state |-> "there", in |-> e, line |-> e, wire |-> e]
    BY <1>2 DEF NewPeer, e
  <2> QED BY <1>4, <2>1 DEF Peers
<1>7. log' \in Logs /\ log'.given = e /\ log'.out = e /\ ~log'.lost
  <2> DEFINE n == log.conns + 1
  <2>1. n \in Nat
    BY <1>1 DEF Logs
  <2>2. log' = [conns |-> n, given |-> e, out |-> e, lost |-> FALSE]
    BY <1>2 DEF NewLog, e
  <2> HIDE DEF n
  <2> QED BY <1>4, <2>1, <2>2 DEF Logs
<1>8. e \o e = e
  BY <1>4, ConcatEmptySeq DEF e
<1>9. Sending(sess', log', peer'.wire)
  <2>1. AskedBytes(log'.out) = e
    BY <1>7, NothingAsked DEF e
  <2> QED BY <1>3, <1>4, <1>5, <1>6, <1>7, <1>8, <2>1 DEF Sending
<1>10. Silences(sess')
  BY <1>1, <1>5, ConfFacts DEF Silences
<1>11. Awaits(sess', 0) /\ LengthKept(sess', Len(log'.given), e)
  BY <1>4, <1>5 DEF Awaits, LengthKept
<1>12. HandedOf(log'.given, e)
  BY <1>4, <1>7 DEF HandedOf
<1>13. Chain(e, e) /\ At(e, 0, 0, e)
  BY <1>4 DEF Chain, At, e
<1> DEFINE q == sess'.recvBuf \o peer'.line
<1>14. q = e /\ Len(log'.given) = 0
  BY <1>4, <1>5, <1>6, <1>7, <1>8
<1> HIDE DEF q
<1>15. Chain(q, peer'.in) /\ At(q, 0, Len(log'.given), peer'.in)
       /\ LengthKept(sess', Len(log'.given), peer'.in) /\ HandedOf(log'.given, peer'.in)
  BY <1>6, <1>11, <1>12, <1>13, <1>14
<1>16. sess'.error # "ping"
  BY <1>5
<1> QED BY <1>1, <1>2, <1>5, <1>6, <1>9, <1>10, <1>11, <1>15, <1>16, OpenNext DEF q

\* The owner drives the session, and closes it when routine fails.
LEMMA RunKeeps == ASSUME SessionIInv, run PROVE SessionIInv'
<1>1. /\ sess.open /\ conf' = conf
      /\ conf \in Setups /\ sess \in SessionState /\ peer \in Peers /\ log \in Logs
      /\ Sending(sess, log, peer.wire) /\ Silences(sess)
      /\ HearsOn(sess, log.given, peer.line) /\ Awaits(sess, 0) /\ sess.error # "ping"
  BY OpenParts DEF run
<1>2. PICK y \in Outcomes :
        /\ sess' = IF y.t.error = "none" THEN y.t ELSE Ended(y.t)
        /\ peer' = [peer EXCEPT !.wire = y.wire, !.line = Drop(peer.line, y.got)]
        /\ log' = y.log
  BY DEF run
<1>3. Done(y)
  BY <1>1, <1>2, RoutineDone
<1> DEFINE d == Drop(peer.line, y.got)
<1>4. /\ Sending(y.t, y.log, y.wire) /\ HandedOf(y.log.given, peer.in) /\ y.t.open
      /\ Silences(y.t) /\ y.wire \in Seq(Byte)
      /\ (y.t.error = "none" => HearsOn(y.t, y.log.given, d) /\ Awaits(y.t, 0))
  BY <1>1, <1>3 DEF Done, Work, Sending
<1>5. d \in Seq(Byte)
  <2> DEFINE w == peer.line
             n == y.got
  <2>1. w \in Seq(Byte) /\ n \in 0..Len(w)
    BY <1>1, <1>3 DEF Peers, Done
  <2> HIDE DEF w, n
  <2>2. Drop(w, n) \in Seq(Byte)
    BY <2>1, Split
  <2> QED BY <2>2 DEF w, n
<1> HIDE DEF d
<1>6. peer' \in Peers /\ peer'.in = peer.in /\ peer'.wire = y.wire /\ peer'.line = d
  <2>1. peer' = [peer EXCEPT !.wire = y.wire, !.line = d]
    BY <1>2 DEF d
  <2> QED BY <1>1, <1>4, <1>5, <2>1 DEF Peers
<1>7. CASE y.t.error = "none"
  <2>1. sess' = y.t /\ log' = y.log
    BY <1>2, <1>7
  <2> DEFINE q == sess'.recvBuf \o peer'.line
             in == peer'.in
  <2>2. Chain(q, in) /\ At(q, 0, Len(log'.given), in)
        /\ LengthKept(sess', Len(log'.given), in) /\ HandedOf(log'.given, in)
    BY <1>4, <1>6, <1>7, <2>1 DEF HearsOn
  <2>3. sess'.open /\ Sending(sess', log', peer'.wire) /\ Silences(sess') /\ Awaits(sess', 0)
        /\ sess'.error # "ping"
    BY <1>4, <1>6, <1>7, <2>1
  <2> HIDE DEF q, in
  <2> QED BY <1>1, <1>6, <2>2, <2>3, OpenNext DEF q, in
<1>8. CASE y.t.error # "none"
  <2> DEFINE t == y.t
             w == y.wire
  <2>1. sess' = Ended(t) /\ log' = y.log
    BY <1>2, <1>8
  <2>2. Sending(t, log', w) /\ Silences(t) /\ HandedOf(log'.given, peer'.in) /\ peer'.wire = w
    BY <1>4, <1>6, <2>1
  <2> HIDE DEF t, w
  <2> QED BY <1>1, <1>6, <2>1, <2>2, EndedNext
<1> QED BY <1>7, <1>8

\* A step that leaves what was received.
LEMMA SameReceived ==
    ASSUME SessionIInv, sess.open, conf' = conf, peer' = peer, sess'.open,
           sess'.recvBuf = sess.recvBuf, sess'.packetLen = sess.packetLen,
           log'.given = log.given, Sending(sess', log', peer.wire), Silences(sess'),
           sess'.error # "ping"
    PROVE  SessionIInv'
<1> DEFINE q == sess'.recvBuf \o peer'.line
           in == peer'.in
<1>1. /\ conf \in Setups /\ peer' \in Peers /\ Awaits(sess', 0)
      /\ Chain(q, in) /\ At(q, 0, Len(log'.given), in)
      /\ LengthKept(sess', Len(log'.given), in) /\ HandedOf(log'.given, in)
  BY OpenParts DEF Awaits, LengthKept
<1>2. Sending(sess', log', peer'.wire)
  OBVIOUS
<1> HIDE DEF q, in
<1> QED BY <1>1, <1>2, OpenNext DEF q, in

\* The program sends,
LEMMA SendMessageKeeps ==
    ASSUME SessionIInv, NEW size \in OutSize, sendMessage(size) PROVE SessionIInv'
<1> DEFINE u == pushData(sess, Len(log.out) + 1, size)
           m == Asked(log, sess, size)
<1>1. sess.open /\ sess' = u /\ log' = m /\ conf' = conf /\ peer' = peer
  BY DEF sendMessage
<1>2. conf \in Setups /\ size \in Nat /\ Sending(sess, log, peer.wire) /\ Silences(sess)
      /\ sess.error # "ping"
  BY <1>1, OpenParts, ConfFacts
<1>3. /\ Sending(u, m, peer.wire) /\ SameRest(sess, u) /\ ErrorIs(sess, u, "sendbuffer")
      /\ m.given = log.given
  BY <1>2, PushSends
<1> HIDE DEF u, m
<1>4. Silences(u) /\ u.error # "ping"
  BY <1>2, <1>3 DEF Silences, SameRest, ErrorIs
<1>5. u.open /\ u.recvBuf = sess.recvBuf /\ u.packetLen = sess.packetLen
  BY <1>1, <1>3 DEF SameRest
<1> QED BY <1>1, <1>3, <1>4, <1>5, SameReceived

\* sets an error,
LEMMA SessionErrorKeeps == ASSUME SessionIInv, sessionError PROVE SessionIInv'
<1> DEFINE u == setError(sess, "program")
<1>1. sess.open /\ sess' = u /\ log' = log /\ conf' = conf /\ peer' = peer
  BY DEF sessionError
<1>2. sess \in SessionState /\ Sending(sess, log, peer.wire) /\ Silences(sess)
      /\ sess.error # "ping" /\ "program" \in Errors
  BY <1>1, OpenParts DEF Errors
<1>3. u \in SessionState /\ SameRest(sess, u) /\ ErrorIs(sess, u, "program")
  BY <1>2, SessionError
<1>4. Sending(u, log, peer.wire)
  BY <1>2, SendingError
<1> HIDE DEF u
<1>5. Silences(u) /\ u.error # "ping"
  BY <1>2, <1>3 DEF Silences, SameRest, ErrorIs
<1>6. u.open /\ u.recvBuf = sess.recvBuf /\ u.packetLen = sess.packetLen
  BY <1>1, <1>3 DEF SameRest
<1> QED BY <1>1, <1>4, <1>5, <1>6, SameReceived

\* or closes the connection.
LEMMA CloseKeeps == ASSUME SessionIInv, close PROVE SessionIInv'
<1>1. sess.open /\ sess' = Ended(sess) /\ conf' = conf /\ peer' = peer /\ log' = log
  BY DEF close
<1> DEFINE t == sess
           w == peer.wire
<1>2. /\ conf \in Setups /\ Sending(t, log', w) /\ Silences(t)
      /\ HandedOf(log'.given, peer'.in) /\ sess' = Ended(t) /\ peer' \in Peers /\ peer'.wire = w
  BY <1>1, OpenParts
<1> HIDE DEF t, w
<1> QED BY <1>1, <1>2, EndedNext

\* The selector says what the socket can do.
LEMMA SessionTickKeeps == ASSUME SessionIInv, sessionTick PROVE SessionIInv'
<1>1. PICK writable \in BOOLEAN :
        sess' = [sess EXCEPT !.canRecv = @ \/ Readable, !.canSend = @ \/ writable]
  BY DEF sessionTick
<1>2. sess.open /\ conf' = conf /\ peer' = peer /\ log' = log
  BY DEF sessionTick
<1> DEFINE r == sess.canRecv \/ Readable
           c == sess.canSend \/ writable
<1>3. r \in BOOLEAN /\ c \in BOOLEAN
  OBVIOUS
<1>4. sess' = [sess EXCEPT !.canRecv = r, !.canSend = c]
  BY <1>1
<1> HIDE DEF r, c
<1>5. sess \in SessionState /\ Sending(sess, log, peer.wire) /\ Silences(sess)
      /\ sess.error # "ping"
  BY <1>2, OpenParts
<1>6. /\ sess' \in SessionState /\ sess'.open = sess.open /\ sess'.recvBuf = sess.recvBuf
      /\ sess'.packetLen = sess.packetLen /\ sess'.pings = sess.pings
      /\ sess'.quiet = sess.quiet /\ sess'.error = sess.error /\ sess'.noSend = sess.noSend
      /\ sess'.sendBuf = sess.sendBuf /\ sess'.sendSize = sess.sendSize
  BY <1>3, <1>4, <1>5 DEF SessionState
<1>7. Sending(sess', log', peer.wire) /\ Silences(sess')
  BY <1>2, <1>5, <1>6 DEF Sending, Silences
<1> QED BY <1>2, <1>5, <1>6, <1>7, SameReceived

\* Time passes.
LEMMA TickKeeps == ASSUME SessionIInv, tick PROVE SessionIInv'
<1>1. PICK d \in 1..Stall : sess' = [sess EXCEPT !.quiet = Min({@ + d, LastPing})]
  BY DEF tick
<1>2. sess.open /\ conf' = conf /\ peer' = peer /\ log' = log
  BY DEF tick
<1>3. conf \in Setups /\ sess \in SessionState /\ Sending(sess, log, peer.wire)
      /\ Silences(sess) /\ sess.error # "ping"
  BY <1>2, OpenParts
<1> DEFINE a == sess.quiet + d
           b == LastPing
           n == Min({a, b})
<1>4. sess.quiet \in Nat /\ a \in Nat /\ b \in Nat /\ sess.quiet <= a /\ sess.quiet <= b
  BY <1>3, ConfFacts DEF Silences
<1>5. sess' = [sess EXCEPT !.quiet = n]
  BY <1>1
<1>6. n \in Nat /\ n <= b /\ sess.quiet <= n
  <2> HIDE DEF a, b
  <2>1. n \in Nat /\ n <= b /\ (n = a \/ n = b)
    BY <1>4, LeastOfTwo
  <2> QED BY <1>4, <2>1
<1> HIDE DEF n, a
<1>7. /\ sess' \in SessionState /\ sess'.open = sess.open /\ sess'.recvBuf = sess.recvBuf
      /\ sess'.packetLen = sess.packetLen /\ sess'.pings = sess.pings
      /\ sess'.quiet = n /\ sess'.error = sess.error /\ sess'.noSend = sess.noSend
      /\ sess'.sendBuf = sess.sendBuf /\ sess'.sendSize = sess.sendSize
  BY <1>3, <1>5, <1>6 DEF SessionState
<1>8. Sending(sess', log', peer.wire)
  BY <1>2, <1>3, <1>7 DEF Sending
<1>9. Silences(sess')
  <2>1. MaxPing \in Nat /\ \A i \in 1..MaxPing : PingTimes[i] \in Nat
    BY <1>3, ConfFacts
  <2>2. sess.pings > 0 => sess.pings \in 1..MaxPing
    BY <1>3, <2>1 DEF Silences
  <2>3. sess.pings > 0 => n >= PingTimes[sess.pings]
    BY <1>3, <1>4, <1>6, <2>1, <2>2 DEF Silences
  <2> QED BY <1>3, <1>4, <1>6, <1>7, <2>3 DEF Silences
<1> QED BY <1>2, <1>3, <1>7, <1>8, <1>9, SameReceived

\* The peer sends a message,
LEMMA PeerSendsKeeps ==
    ASSUME SessionIInv, NEW p \in Packet, PeerSends(p) PROVE SessionIInv'
<1> DEFINE n == Len(peer.in) + 1
           b == Bytes(n, Size(p))
           i == Append(peer.in, p)
           l == peer.line \o b
<1>1. sess.open /\ conf' = conf /\ sess' = sess /\ log' = log
      /\ peer' = [peer EXCEPT !.in = i, !.line = l]
  BY DEF PeerSends, Size
<1>2. /\ conf \in Setups /\ sess \in SessionState /\ peer \in Peers /\ log \in Logs
      /\ Sending(sess, log, peer.wire) /\ Silences(sess) /\ Awaits(sess, 0)
      /\ sess.error # "ping"
      /\ Chain(sess.recvBuf \o peer.line, peer.in)
      /\ At(sess.recvBuf \o peer.line, 0, Len(log.given), peer.in)
      /\ LengthKept(sess, Len(log.given), peer.in) /\ HandedOf(log.given, peer.in)
  BY <1>1, OpenParts
<1>3. p \in Message
  BY <1>2, ConfFacts DEF Message
<1>4. peer.in \in Seq(Message) /\ peer.line \in Seq(Byte) /\ sess.recvBuf \in Seq(Byte)
      /\ peer.wire \in Seq(Byte) /\ Len(log.given) \in Nat
  BY <1>2 DEF Peers, SessionState, Logs
<1>5. b \in Seq(Byte)
  <2> DEFINE c == Size(p)
  <2>1. c \in Nat /\ n \in Nat \ {0}
    BY <1>3, <1>4, SizeIs
  <2> HIDE DEF c, n
  <2>2. Bytes(n, c) \in Seq(Byte)
    BY <2>1, BytesTyped
  <2> QED BY <2>2 DEF c
<1>6. l \in Seq(Byte)
  <2> HIDE DEF b
  <2> QED BY <1>4, <1>5, ConcatProperties
<1>7. i \in Seq(Message) /\ Len(i) = Len(peer.in) + 1 /\ \A k \in 1..Len(peer.in) : i[k] = peer.in[k]
  BY <1>3, <1>4, AppendProperties
<1>8. Chain((sess.recvBuf \o peer.line) \o b, i) /\ At((sess.recvBuf \o peer.line) \o b, 0, Len(log.given), i)
  <2> DEFINE q == sess.recvBuf \o peer.line
             in == peer.in
             g == Len(log.given)
  <2>1. Chain(q, in) /\ At(q, 0, g, in) /\ b = Bytes(Len(in) + 1, Size(p))
    BY <1>2
  <2> HIDE DEF q, in, g, b
  <2>2. Chain(q \o b, Append(in, p)) /\ At(q \o b, 0, g, Append(in, p))
    BY <1>3, <2>1, ChainGrows
  <2> QED BY <2>2 DEF q, in, g
<1>9. (sess.recvBuf \o peer.line) \o b = sess.recvBuf \o l
  <2> DEFINE q == sess.recvBuf
             w == peer.line
  <2>1. q \in Seq(Byte) /\ w \in Seq(Byte)
    BY <1>4
  <2> HIDE DEF q, w, b
  <2>2. (q \o w) \o b = q \o (w \o b)
    BY <1>5, <2>1, ConcatAssociative
  <2> QED BY <2>2 DEF q, w
<1> HIDE DEF i, l
<1>10. peer' \in Peers /\ peer'.in = i /\ peer'.line = l /\ peer'.wire = peer.wire
  BY <1>1, <1>2, <1>6, <1>7 DEF Peers
<1>11. LengthKept(sess, Len(log.given), i)
  <2> DEFINE g == Len(log.given)
  <2>1. g \in Nat /\ Len(peer.in) \in Nat
    BY <1>4
  <2> HIDE DEF g
  <2>2. LengthKept(sess, g, peer.in)
    BY <1>2 DEF g
  <2>3. g < Len(peer.in) => g + 1 \in 1..Len(peer.in)
    BY <2>1
  <2>4. g < Len(peer.in) => g < Len(i) /\ i[g + 1] = peer.in[g + 1]
    BY <1>7, <2>1, <2>3
  <2>5. LengthKept(sess, g, i)
    BY <2>2, <2>4 DEF LengthKept
  <2> QED BY <2>5 DEF g
<1>12. HandedOf(log.given, i)
  <2>1. Len(log.given) <= Len(peer.in) /\ Len(peer.in) \in Nat
        /\ \A k \in 1..Len(log.given) : log.given[k] = Bytes(k, peer.in[k].len)
    BY <1>2, <1>4 DEF HandedOf
  <2>2. ASSUME NEW k \in 1..Len(log.given) PROVE log.given[k] = Bytes(k, i[k].len)
    <3>1. k \in 1..Len(peer.in)
      BY <1>4, <2>1
    <3>2. i[k] = peer.in[k]
      BY <1>7, <3>1
    <3> QED BY <2>1, <3>2
  <2>3. Len(log.given) <= Len(i)
    BY <1>4, <1>7, <2>1
  <2> QED BY <2>2, <2>3 DEF HandedOf
<1> DEFINE q == sess'.recvBuf \o peer'.line
           in == peer'.in
<1>13. Chain(q, in) /\ At(q, 0, Len(log'.given), in)
       /\ LengthKept(sess', Len(log'.given), in) /\ HandedOf(log'.given, in)
  <2>1. q = sess.recvBuf \o l /\ in = i
    BY <1>1, <1>10
  <2> HIDE DEF q, in
  <2> QED BY <1>1, <1>8, <1>9, <1>11, <1>12, <2>1
<1>14. sess'.open /\ Sending(sess', log', peer'.wire) /\ Silences(sess') /\ Awaits(sess', 0)
       /\ sess'.error # "ping"
  BY <1>1, <1>2, <1>10
<1> HIDE DEF q, in
<1> QED BY <1>1, <1>2, <1>10, <1>13, <1>14, OpenNext DEF q, in

\* or ends the connection.
LEMMA PeerEndsKeeps == ASSUME SessionIInv, PeerEnds PROVE SessionIInv'
<1>1. PICK e \in {"closed", "reset"} : peer' = [peer EXCEPT !.state = e]
  BY DEF PeerEnds
<1>2. sess.open /\ conf' = conf /\ sess' = sess /\ log' = log
  BY DEF PeerEnds
<1>3. /\ conf \in Setups /\ sess \in SessionState /\ peer \in Peers /\ log \in Logs
      /\ Sending(sess, log, peer.wire) /\ Silences(sess) /\ Awaits(sess, 0)
      /\ sess.error # "ping"
      /\ Chain(sess.recvBuf \o peer.line, peer.in)
      /\ At(sess.recvBuf \o peer.line, 0, Len(log.given), peer.in)
      /\ LengthKept(sess, Len(log.given), peer.in) /\ HandedOf(log.given, peer.in)
  BY <1>2, OpenParts
<1>4. peer' \in Peers /\ peer'.in = peer.in /\ peer'.line = peer.line /\ peer'.wire = peer.wire
  BY <1>1, <1>3 DEF Peers
<1> DEFINE q == sess'.recvBuf \o peer'.line
           in == peer'.in
<1>5. /\ Chain(q, in) /\ At(q, 0, Len(log'.given), in)
      /\ LengthKept(sess', Len(log'.given), in) /\ HandedOf(log'.given, in)
  BY <1>2, <1>3, <1>4
<1>6. sess'.open /\ Sending(sess', log', peer'.wire) /\ Silences(sess') /\ Awaits(sess', 0)
      /\ sess'.error # "ping"
  BY <1>2, <1>3, <1>4
<1> HIDE DEF q, in
<1> QED BY <1>2, <1>3, <1>4, <1>5, <1>6, OpenNext DEF q, in

\* Every step keeps the invariant,
LEMMA SessionNextKeeps == SessionIInv /\ [SessionNext]_sessionVars => SessionIInv'
<1> SUFFICES ASSUME SessionIInv, [SessionNext]_sessionVars PROVE SessionIInv'
  OBVIOUS
<1>1. CASE \E made \in BOOLEAN : open(made)
  BY <1>1, OpenKeeps
<1>2. CASE run
  BY <1>2, RunKeeps
<1>3. CASE \E n \in OutSize : sendMessage(n)
  BY <1>3, SendMessageKeeps
<1>4. CASE sessionError
  BY <1>4, SessionErrorKeeps
<1>5. CASE close
  BY <1>5, CloseKeeps
<1>6. CASE sessionTick
  BY <1>6, SessionTickKeeps
<1>7. CASE tick
  BY <1>7, TickKeeps
<1>8. CASE \E p \in Packet : PeerSends(p)
  BY <1>8, PeerSendsKeeps
<1>9. CASE PeerEnds
  BY <1>9, PeerEndsKeeps
<1>10. CASE UNCHANGED sessionVars
  <2>1. conf' = conf /\ sess' = sess /\ peer' = peer /\ log' = log
    BY <1>10 DEF sessionVars
  <2>2. CASE sess.open
    <3>1. Sending(sess', log', peer.wire) /\ Silences(sess') /\ sess'.error # "ping" /\ sess'.open
      BY <2>1, <2>2, OpenParts
    <3> QED BY <2>1, <2>2, <3>1, SameReceived
  <2>3. CASE ~sess.open
    <3>1. /\ conf \in Setups /\ sess \in SessionState /\ peer \in Peers /\ log \in Logs
          /\ sess.sendSize <= SendMax /\ Silences(sess)
          /\ (log.lost => sess.error # "none" \/ sess.noSend)
          /\ HandedOf(log.given, peer.in) /\ sess.sendBuf = <<>> /\ sess.recvBuf = <<>>
          /\ sess.packetLen = 0 /\ sess.pings = 0 /\ IsPrefix(peer.wire, AskedBytes(log.out))
      BY <2>3 DEF SessionIInv, ClosedOK
    <3>2. /\ sess' \in SessionState /\ peer' \in Peers /\ log' \in Logs /\ ~sess'.open
          /\ sess'.sendSize <= SendMax /\ Silences(sess')
          /\ (log'.lost => sess'.error # "none" \/ sess'.noSend)
          /\ HandedOf(log'.given, peer'.in) /\ sess'.sendBuf = <<>> /\ sess'.recvBuf = <<>>
          /\ sess'.packetLen = 0 /\ sess'.pings = 0
          /\ IsPrefix(peer'.wire, AskedBytes(log'.out))
      BY <2>1, <2>3, <3>1
    <3> QED BY <2>1, <3>1, <3>2, ClosedNext
  <2> QED BY <2>2, <2>3
<1> QED BY <1>1, <1>2, <1>3, <1>4, <1>5, <1>6, <1>7, <1>8, <1>9, <1>10 DEF SessionNext

\* and the invariant implies what the runs check.
LEMMA SessionIInvHolds == SessionIInv => FramesInOrder /\ SentInOrder /\ ProbesAreDue
<1> SUFFICES ASSUME SessionIInv PROVE FramesInOrder /\ SentInOrder /\ ProbesAreDue
  OBVIOUS
<1>1. sess \in SessionState /\ sess.recvBuf \in Seq(Byte) /\ Len(sess.recvBuf) \in Nat
      /\ BufSize \in Nat /\ BufSize >= 2 /\ SendMax \in Nat /\ sess.packetLen \in Nat
  BY ConfFacts DEF SessionIInv, SessionState
<1>2. HandedInOrder
  BY DEF SessionIInv, HandedOf, HandedInOrder
<1>3. RoomToReceive
  <2> SUFFICES ASSUME sess.open PROVE Space(sess) > 0
    BY DEF RoomToReceive
  <2>1. Len(sess.recvBuf) < BufSize
    BY <1>1, OpenParts DEF Awaits, LengthKept
  <2> QED BY <1>1, <2>1 DEF Space
<1>4. WireInOrder
  BY DEF SessionIInv, OpenOK, ClosedOK, Sending, WireInOrder
<1>5. LossIsNoticed
  BY DEF SessionIInv, LossIsNoticed
<1>6. SessionTypeOK
  BY <1>1 DEF SessionIInv, SessionState, SessionTypeOK, Silences
<1>7. ProbesAreDue
  BY DEF SessionIInv, Silences, ProbesAreDue
<1> QED BY <1>2, <1>3, <1>4, <1>5, <1>6, <1>7 DEF FramesInOrder, SentInOrder

\* FramesReceived: for any sizes of the buffers, any messages and any way in which
\* their bytes arrive, a session hands on the peer's messages whole, in order and
\* once, and has room for one more byte (Session::uppack, recvData).
THEOREM FramesReceived == SessionSpec => []FramesInOrder
<1>1. SessionIInv => FramesInOrder
  BY SessionIInvHolds
<1> QED BY <1>1, SessionInitIInv, SessionNextKeeps, PTL DEF SessionSpec

\* MessagesSent: with any partial writes, the peer gets what was accepted, whole
\* and in order, and a message that is refused ends the connection (pushData,
\* sendData, adjustSendBuffer).
THEOREM MessagesSent == SessionSpec => []SentInOrder
<1>1. SessionIInv => SentInOrder
  BY SessionIInvHolds
<1> QED BY <1>1, SessionInitIInv, SessionNextKeeps, PTL DEF SessionSpec

\* ProbesWereDue: each probe that is counted was due, and a connection that is
\* ended for its silence was silent for the whole time (Session::routine).
THEOREM ProbesWereDue == SessionSpec => []ProbesAreDue
<1>1. SessionIInv => ProbesAreDue
  BY SessionIInvHolds
<1> QED BY <1>1, SessionInitIInv, SessionNextKeeps, PTL DEF SessionSpec

-----------------------------------------------------------------------------
(* The pool of connections.                                                *)

USE BankAssumption

-----------------------------------------------------------------------------
(* The inductive invariant, in parts that are functions of the variables.  *)

Bank ==
    [max : Sizes, sess : [Handle -> SessionS], active : Seq(Handle),
     unused : Seq(Handle), table : SUBSET Handle, next : Nat]
Loop == [on : BOOLEAN, at : Handle \cup {End}, todo : SUBSET Handle, twice : BOOLEAN]
Net ==
    [waiting : Seq(Conn), came : SUBSET Conn, open : SUBSET Conn, canRecv : BOOLEAN]

\* Each session is on one of the two lists, once.
ListsOK(b) ==
    /\ IsInjective(b.active) /\ IsInjective(b.unused)
    /\ ToSet(b.active) \cap ToSet(b.unused) = {}
    /\ ToSet(b.active) \cup ToSet(b.unused) = Handles(b.max)
    /\ b.table = ToSet(b.active)

\* What the loop has still to drive is the list from the iterator on.
Onward(b, h) ==
    IF h = End THEN {} ELSE {b.active[i] : i \in Place(b, h)..Len(b.active)}
LoopOK(b, l) ==
    /\ l.at # End => l.on /\ l.at \in b.table
    /\ l.todo = Onward(b, l.at)
    /\ ~l.twice

\* A socket is one of those that came; it waits, is of one session, or is closed.
NetOK(b, n) ==
    /\ IsInjective(n.waiting)
    /\ ToSet(n.waiting) \subseteq n.came /\ n.open \subseteq n.came
    /\ ToSet(n.waiting) \cap n.open = {}
    /\ n.open = {b.sess[h].conn : h \in b.table}
    /\ \A h, i \in b.table : b.sess[h].conn = b.sess[i].conn => h = i

\* Serials that were given are below the next one.
KnownOK(b, K) ==
    /\ K \subseteq Handle \X Nat \X Conn
    /\ \A k \in K : k[2] < b.next
    /\ \A h \in b.table : b.sess[h].serial < b.next
    /\ \A k \in K : /\ k[1] \in b.table
                    /\ b.sess[k[1]].serial = k[2]
                    => b.sess[k[1]].conn = k[3]

IInv ==
    /\ bank \in Bank /\ it \in Loop /\ net \in Net
    /\ ListsOK(bank) /\ LoopOK(bank, it) /\ NetOK(bank, net) /\ KnownOK(bank, known)

-----------------------------------------------------------------------------
(* Lists without repetitions. *)

LEMMA EndIsNoHandle == /\ Handle \subseteq Nat /\ End \notin Handle
                       /\ \A n \in Sizes : n \in Nat /\ Handles(n) \subseteq Handle
BY DEF Handle, Handles

LEMMA Joined ==
    ASSUME NEW S, NEW s \in Seq(S), IsInjective(s), NEW x \in S, x \notin ToSet(s)
    PROVE  LET t == Append(s, x) IN
           /\ t \in Seq(S) /\ IsInjective(t) /\ ToSet(t) = ToSet(s) \cup {x}
           /\ t # <<>> /\ Last(t) = x
<1> DEFINE t == Append(s, x)
<1>1. /\ t \in Seq(S) /\ Len(t) = Len(s) + 1 /\ Len(s) \in Nat
      /\ \A i \in 1..Len(s) : t[i] = s[i]
      /\ t[Len(s) + 1] = x /\ t # <<>>
      /\ DOMAIN s = 1..Len(s)
  BY AppendProperties
<1> HIDE DEF t
<1>2. DOMAIN t = 1..(Len(s) + 1)
  BY <1>1
<1>3. \A i \in 1..Len(s) : s[i] # x
  BY <1>1 DEF ToSet
<1>4. IsInjective(t)
  <2> SUFFICES ASSUME NEW i \in DOMAIN t, NEW j \in DOMAIN t, t[i] = t[j] PROVE i = j
    BY DEF IsInjective
  <2>1. i \in 1..Len(s) \/ i = Len(s) + 1
    BY <1>1, <1>2
  <2>2. j \in 1..Len(s) \/ j = Len(s) + 1
    BY <1>1, <1>2
  <2> QED BY <1>1, <1>3, <2>1, <2>2 DEF IsInjective
<1>5. ToSet(t) = ToSet(s) \cup {x}
  <2>1. ASSUME NEW y \in ToSet(t) PROVE y \in ToSet(s) \cup {x}
    <3>1. PICK i \in DOMAIN t : y = t[i]
      BY DEF ToSet
    <3>2. i \in 1..Len(s) \/ i = Len(s) + 1
      BY <1>1, <1>2
    <3> QED BY <1>1, <3>1, <3>2 DEF ToSet
  <2>2. ASSUME NEW y \in ToSet(s) PROVE y \in ToSet(t)
    <3>1. PICK i \in DOMAIN s : y = s[i]
      BY DEF ToSet
    <3>2. i \in DOMAIN t /\ y = t[i]
      BY <1>1, <1>2, <3>1
    <3> QED BY <3>2 DEF ToSet
  <2>3. Len(s) + 1 \in DOMAIN t
    BY <1>1, <1>2
  <2>4. x \in ToSet(t)
    BY <1>1, <2>3 DEF ToSet
  <2> QED BY <2>1, <2>2, <2>4
<1>6. Last(t) = x
  BY <1>1 DEF Last
<1> QED BY <1>1, <1>4, <1>5, <1>6 DEF t

LEMMA Beheaded ==
    ASSUME NEW S, NEW s \in Seq(S), IsInjective(s), s # <<>>
    PROVE  /\ Head(s) \in S /\ Head(s) \in ToSet(s)
           /\ Tail(s) \in Seq(S) /\ IsInjective(Tail(s))
           /\ ToSet(Tail(s)) = ToSet(s) \ {Head(s)}
<1> DEFINE t == Tail(s)
           n == Len(s)
<1>1. /\ Head(s) \in S /\ t \in Seq(S) /\ Len(t) = n - 1 /\ n \in Nat /\ n > 0
      /\ \A i \in 1..(n - 1) : t[i] = s[i + 1]
      /\ DOMAIN s = 1..n /\ Head(s) = s[1]
  <2>1. n \in Nat /\ n > 0 /\ DOMAIN s = 1..n /\ Head(s) = s[1]
    OBVIOUS
  <2> QED BY <2>1, HeadTailProperties
<1> HIDE DEF t, n
<1>2. DOMAIN t = 1..(n - 1)
  BY <1>1
<1>3. IsInjective(t)
  <2> SUFFICES ASSUME NEW i \in 1..(n - 1), NEW j \in 1..(n - 1), t[i] = t[j] PROVE i = j
    BY <1>2 DEF IsInjective
  <2>1. i + 1 \in DOMAIN s /\ j + 1 \in DOMAIN s /\ s[i + 1] = s[j + 1]
    BY <1>1
  <2>2. i + 1 = j + 1
    BY <2>1 DEF IsInjective
  <2> QED BY <1>1, <2>2
<1>4. \A y : y \in ToSet(t) <=> \E i \in 1..(n - 1) : y = s[i + 1]
  BY <1>1, <1>2 DEF ToSet
<1>5. ASSUME NEW y \in ToSet(t) PROVE y \in ToSet(s) \ {Head(s)}
  <2>1. PICK i \in 1..(n - 1) : y = s[i + 1]
    BY <1>4
  <2>2. i + 1 \in DOMAIN s /\ 1 \in DOMAIN s /\ i + 1 # 1
    BY <1>1
  <2>3. s[i + 1] # s[1]
    BY <2>2 DEF IsInjective
  <2> QED BY <1>1, <2>1, <2>2, <2>3 DEF ToSet
<1>6. ASSUME NEW y \in ToSet(s), y # Head(s) PROVE y \in ToSet(t)
  <2>1. PICK i \in DOMAIN s : y = s[i]
    BY DEF ToSet
  <2>2. i - 1 \in 1..(n - 1) /\ (i - 1) + 1 = i
    BY <1>1, <1>6, <2>1
  <2> QED BY <1>4, <2>1, <2>2
<1>7. Head(s) \in ToSet(s)
  <2>1. 1 \in DOMAIN s
    BY <1>1
  <2> QED BY <1>1, <2>1 DEF ToSet
<1> QED BY <1>1, <1>3, <1>5, <1>6, <1>7 DEF t

LEMMA PlaceFound ==
    ASSUME NEW b, NEW h, IsInjective(b.active), h \in ToSet(b.active)
    PROVE  /\ Place(b, h) \in DOMAIN b.active /\ b.active[Place(b, h)] = h
           /\ \A i \in DOMAIN b.active : b.active[i] = h => i = Place(b, h)
<1>1. \E i \in DOMAIN b.active : b.active[i] = h
  BY DEF ToSet
<1>2. Place(b, h) \in DOMAIN b.active /\ b.active[Place(b, h)] = h
  BY <1>1 DEF Place
<1> QED BY <1>2 DEF IsInjective

LEMMA Removed ==
    ASSUME NEW S, NEW s \in Seq(S), IsInjective(s), NEW p \in DOMAIN s
    PROVE  LET t == RemoveAt(s, p) IN
           /\ t \in Seq(S) /\ Len(t) = Len(s) - 1 /\ DOMAIN t = 1..(Len(s) - 1)
           /\ \A i \in 1..(Len(s) - 1) : t[i] = IF i < p THEN s[i] ELSE s[i + 1]
           /\ IsInjective(t) /\ ToSet(t) = ToSet(s) \ {s[p]}
<1> DEFINE n == Len(s)
           u == SubSeq(s, 1, p - 1)
           v == SubSeq(s, p + 1, n)
           t == u \o v
<1>1. n \in Nat /\ DOMAIN s = 1..n /\ p \in 1..n /\ \A i \in 1..n : s[i] \in S
  BY ElementOfSeq
<1> HIDE DEF n
<1>2. u \in Seq(S) /\ Len(u) = p - 1 /\ \A i \in 1..(p - 1) : u[i] = s[i]
  <2> DEFINE q == p - 1
  <2>1. 1 \in Int /\ q \in Int /\ q >= 0 /\ \A i \in 1..q : s[i] \in S
    BY <1>1
  <2>2. 1 <= q \/ q = 0
    BY <2>1
  <2>3. q - 1 + 1 = q
    BY <2>1
  <2> HIDE DEF q
  <2>4. /\ SubSeq(s, 1, q) \in Seq(S)
        /\ Len(SubSeq(s, 1, q)) = IF 1 <= q THEN q - 1 + 1 ELSE 0
        /\ \A i \in 1..(q - 1 + 1) : SubSeq(s, 1, q)[i] = s[1 + i - 1]
    BY <2>1, SubSeqProperties
  <2>5. \A i \in 1..q : 1 + i - 1 = i
    BY <2>1
  <2>6. SubSeq(s, 1, q) \in Seq(S) /\ Len(SubSeq(s, 1, q)) = q
        /\ \A i \in 1..q : SubSeq(s, 1, q)[i] = s[i]
    BY <2>1, <2>2, <2>3, <2>4, <2>5
  <2> QED BY <2>6 DEF q
<1>3. v \in Seq(S) /\ Len(v) = n - p /\ \A i \in 1..(n - p) : v[i] = s[p + i]
  <2> DEFINE q == p + 1
  <2>1. q \in Int /\ n \in Int /\ q <= n + 1 /\ \A i \in q..n : s[i] \in S
    BY <1>1
  <2>2. n - q + 1 = n - p /\ (q <= n \/ n - p = 0)
    BY <1>1
  <2>3. \A i \in 1..(n - p) : q + i - 1 = p + i
    BY <1>1
  <2> HIDE DEF q
  <2>4. /\ SubSeq(s, q, n) \in Seq(S)
        /\ Len(SubSeq(s, q, n)) = IF q <= n THEN n - q + 1 ELSE 0
        /\ \A i \in 1..(n - q + 1) : SubSeq(s, q, n)[i] = s[q + i - 1]
    BY <2>1, SubSeqProperties
  <2>5. SubSeq(s, q, n) \in Seq(S) /\ Len(SubSeq(s, q, n)) = n - p
        /\ \A i \in 1..(n - p) : SubSeq(s, q, n)[i] = s[p + i]
    BY <2>1, <2>2, <2>3, <2>4
  <2> QED BY <2>5 DEF q
<1> HIDE DEF u, v
<1>4. t \in Seq(S) /\ Len(t) = n - 1
      /\ \A i \in 1..(n - 1) : t[i] = IF i < p THEN s[i] ELSE s[i + 1]
  <2>1. /\ t \in Seq(S) /\ Len(t) = (p - 1) + (n - p)
        /\ \A i \in 1..((p - 1) + (n - p)) : t[i] = IF i <= p - 1 THEN u[i] ELSE v[i - (p - 1)]
    <3>1. /\ t \in Seq(S) /\ Len(t) = Len(u) + Len(v)
          /\ \A i \in 1..(Len(u) + Len(v)) : t[i] = IF i <= Len(u) THEN u[i] ELSE v[i - Len(u)]
      BY <1>2, <1>3, ConcatProperties, Zenon
    <3> HIDE DEF t
    <3> QED BY <1>2, <1>3, <3>1
  <2> HIDE DEF t
  <2>2. (p - 1) + (n - p) = n - 1
    BY <1>1
  <2>3. ASSUME NEW i \in 1..(n - 1) PROVE t[i] = IF i < p THEN s[i] ELSE s[i + 1]
    <3>1. CASE i < p
      <4>1. i \in 1..(p - 1) /\ i <= p - 1
        BY <1>1, <3>1
      <4> QED BY <1>2, <2>1, <2>2, <3>1, <4>1
    <3>2. CASE ~(i < p)
      <4>1. i - (p - 1) \in 1..(n - p) /\ ~(i <= p - 1) /\ p + (i - (p - 1)) = i + 1
        BY <1>1, <3>2
      <4> QED BY <1>3, <2>1, <2>2, <3>2, <4>1
    <3> QED BY <3>1, <3>2
  <2> QED BY <2>1, <2>2, <2>3
<1> HIDE DEF t
<1>5. DOMAIN t = 1..(n - 1)
  BY <1>1, <1>4
<1>6. IsInjective(t)
  <2> SUFFICES ASSUME NEW i \in 1..(n - 1), NEW j \in 1..(n - 1), t[i] = t[j] PROVE i = j
    BY <1>5 DEF IsInjective
  <2> DEFINE k == IF i < p THEN i ELSE i + 1
             l == IF j < p THEN j ELSE j + 1
  <2>1. k \in DOMAIN s /\ l \in DOMAIN s /\ (k = l => i = j)
    BY <1>1
  <2>2. s[k] = s[l]
    BY <1>4
  <2> HIDE DEF k, l
  <2> QED BY <2>1, <2>2 DEF IsInjective
<1>7. ASSUME NEW y \in ToSet(t) PROVE y \in ToSet(s) \ {s[p]}
  <2>1. PICK i \in 1..(n - 1) : y = t[i]
    BY <1>5 DEF ToSet
  <2> DEFINE k == IF i < p THEN i ELSE i + 1
  <2>2. k \in DOMAIN s /\ k # p
    BY <1>1
  <2>3. y = s[k]
    BY <1>4, <2>1
  <2> HIDE DEF k
  <2> QED BY <2>2, <2>3 DEF IsInjective, ToSet
<1>8. ASSUME NEW y \in ToSet(s), y # s[p] PROVE y \in ToSet(t)
  <2>1. PICK k \in DOMAIN s : y = s[k]
    BY DEF ToSet
  <2> DEFINE i == IF k < p THEN k ELSE k - 1
  <2>2. i \in 1..(n - 1) /\ (IF i < p THEN i ELSE i + 1) = k
    BY <1>1, <1>8, <2>1
  <2>3. y = t[i]
    BY <1>4, <2>1, <2>2
  <2> HIDE DEF i
  <2> QED BY <1>5, <2>2, <2>3 DEF ToSet
<1>9. t = RemoveAt(s, p)
  BY DEF RemoveAt, t, u, v, n
<1> QED BY <1>4, <1>5, <1>6, <1>7, <1>8, <1>9 DEF n
-----------------------------------------------------------------------------
(* The operations on the bank. *)

LEMMA BankParts ==
    ASSUME NEW b \in Bank
    PROVE  /\ b.max \in Sizes /\ b.sess \in [Handle -> SessionS]
           /\ \A h \in Handle : b.sess[h] \in SessionS
           /\ b.active \in Seq(Handle) /\ b.unused \in Seq(Handle)
           /\ b.table \subseteq Handle /\ b.next \in Nat
BY DEF Bank

LEMMA SessionReplaced ==
    ASSUME NEW b \in Bank, NEW h \in Handle, NEW x \in SessionS
    PROVE  LET c == [b EXCEPT !.sess[h] = x] IN
           /\ c \in Bank /\ c.sess[h] = x /\ \A i \in Handle \ {h} : c.sess[i] = b.sess[i]
           /\ c.max = b.max /\ c.active = b.active /\ c.unused = b.unused
           /\ c.table = b.table /\ c.next = b.next
BY BankParts DEF Bank

\* The lists and the iterator are of those members alone.
SameLists(b, c) ==
    c.max = b.max /\ c.active = b.active /\ c.unused = b.unused /\ c.table = b.table

LEMMA ListsKept ==
    ASSUME NEW b, NEW c, SameLists(b, c)
    PROVE  /\ ListsOK(b) => ListsOK(c)
           /\ \A h : After(c, h) = After(b, h) /\ Onward(c, h) = Onward(b, h)
           /\ First(c) = First(b)
BY DEF SameLists, ListsOK, After, Onward, Place, First

LEMMA FirstIsAll ==
    ASSUME NEW b \in Bank, ListsOK(b)
    PROVE  /\ First(b) \in Handle \cup {End}
           /\ First(b) # End => First(b) \in b.table
           /\ Onward(b, First(b)) = b.table
<1> DEFINE a == b.active
<1>1. /\ a \in Seq(Handle) /\ IsInjective(a) /\ b.table = ToSet(a)
      /\ Len(a) \in Nat /\ DOMAIN a = 1..Len(a)
  BY BankParts DEF ListsOK
<1>2. CASE a = <<>>
  <2>1. DOMAIN a = {}
    BY <1>2
  <2>2. ToSet(a) = {}
    BY <2>1 DEF ToSet
  <2> QED BY <1>1, <1>2, <2>2 DEF First, Onward
<1>3. CASE a # <<>>
  <2> DEFINE h == Head(a)
  <2>1. h \in Handle /\ h \in ToSet(a) /\ First(b) = h /\ h # End
    BY <1>1, <1>3, Beheaded, EndIsNoHandle DEF First
  <2>2. 1 \in DOMAIN a /\ a[1] = h
    BY <1>1, <1>3
  <2>3. Place(b, h) = 1
    BY <1>1, <2>1, <2>2, PlaceFound
  <2> HIDE DEF h
  <2>4. Onward(b, h) = ToSet(a)
    BY <1>1, <2>1, <2>3 DEF Onward, ToSet
  <2> QED BY <1>1, <2>1, <2>4
<1> QED BY <1>2, <1>3

LEMMA AfterIsRest ==
    ASSUME NEW b \in Bank, ListsOK(b), NEW h \in b.table
    PROVE  LET n == After(b, h) IN
           /\ n \in Handle \cup {End}
           /\ n # End => n \in b.table \ {h}
           /\ Onward(b, n) = Onward(b, h) \ {h}
<1> DEFINE a == b.active
           p == Place(b, h)
<1>1. /\ a \in Seq(Handle) /\ IsInjective(a) /\ b.table = ToSet(a)
      /\ Len(a) \in Nat /\ DOMAIN a = 1..Len(a) /\ h \in ToSet(a) /\ h \in Handle
  BY BankParts DEF ListsOK
<1>2. p \in 1..Len(a) /\ a[p] = h /\ h # End
  BY <1>1, PlaceFound, EndIsNoHandle
<1>3. Onward(b, h) = {a[i] : i \in p..Len(a)}
  BY <1>2 DEF Onward
<1>4. Onward(b, h) \ {h} = {a[i] : i \in (p + 1)..Len(a)}
  <2>1. \A i \in p..Len(a) : a[i] = h <=> i = p
    BY <1>1, <1>2 DEF IsInjective
  <2>2. \A i : i \in (p + 1)..Len(a) <=> i \in p..Len(a) /\ i # p
    BY <1>1, <1>2
  <2> QED BY <1>3, <2>1, <2>2
<1>5. CASE p = Len(a)
  <2>1. (p + 1)..Len(a) = {}
    BY <1>1, <1>5
  <2> QED BY <1>4, <1>5, <2>1 DEF After, Onward
<1>6. CASE p # Len(a)
  <2> DEFINE n == a[p + 1]
  <2>1. After(b, h) = n /\ p + 1 \in DOMAIN a
    BY <1>1, <1>2, <1>6 DEF After
  <2>2. n \in Handle /\ n \in ToSet(a) /\ n # h /\ n # End
    <3>1. n \in ToSet(a) /\ n \in Handle
      BY <1>1, <2>1, ElementOfSeq DEF ToSet
    <3>2. p + 1 # p /\ p \in DOMAIN a
      BY <1>1, <1>2
    <3>3. n # a[p]
      BY <1>1, <2>1, <3>2 DEF IsInjective
    <3> QED BY <1>2, <3>1, <3>3, EndIsNoHandle
  <2>3. Place(b, n) = p + 1
    BY <1>1, <2>1, <2>2, PlaceFound
  <2> HIDE DEF n, p
  <2>4. Onward(b, n) = {a[i] : i \in (p + 1)..Len(a)}
    BY <2>2, <2>3 DEF Onward
  <2> QED BY <1>1, <1>4, <2>1, <2>2, <2>4
<1> QED BY <1>5, <1>6

LEMMA ClosedEffect ==
    ASSUME NEW b \in Bank, ListsOK(b), NEW h \in b.table
    PROVE  LET c == closeSession(b, h) IN
           /\ c \in Bank /\ ListsOK(c) /\ c.table = b.table \ {h} /\ c.next = b.next
           /\ \A i \in b.table \ {h} : c.sess[i] = b.sess[i]
           /\ Onward(c, After(b, h)) = Onward(b, h) \ {h}
<1> DEFINE a == b.active
           p == Place(b, h)
           r == RemoveAt(a, p)
           u == Append(b.unused, h)
           x == [b.sess[h] EXCEPT !.conn = NoConn]
           s == [b.sess EXCEPT ![h] = x]
           c == closeSession(b, h)
<1>1. /\ a \in Seq(Handle) /\ IsInjective(a) /\ b.table = ToSet(a)
      /\ Len(a) \in Nat /\ DOMAIN a = 1..Len(a) /\ h \in ToSet(a) /\ h \in Handle
      /\ b.unused \in Seq(Handle) /\ IsInjective(b.unused)
      /\ ToSet(a) \cap ToSet(b.unused) = {}
      /\ ToSet(a) \cup ToSet(b.unused) = Handles(b.max)
  BY BankParts DEF ListsOK
<1>2. p \in DOMAIN a /\ a[p] = h /\ h # End
  BY <1>1, PlaceFound, EndIsNoHandle
<1>3. /\ r \in Seq(Handle) /\ Len(r) = Len(a) - 1 /\ DOMAIN r = 1..(Len(a) - 1)
      /\ \A i \in 1..(Len(a) - 1) : r[i] = IF i < p THEN a[i] ELSE a[i + 1]
      /\ IsInjective(r) /\ ToSet(r) = ToSet(a) \ {h}
  BY <1>1, <1>2, Removed
<1>4. u \in Seq(Handle) /\ IsInjective(u) /\ ToSet(u) = ToSet(b.unused) \cup {h}
  BY <1>1, Joined
<1>5. s \in [Handle -> SessionS] /\ \A i \in Handle \ {h} : s[i] = b.sess[i]
  BY <1>1, BankParts DEF SessionS
<1>6. c = [b EXCEPT !.sess = s, !.active = r, !.table = b.table \ {h}, !.unused = u]
  BY DEF closeSession, Bank
<1> HIDE DEF r, u, s, c
<1>7. /\ c \in Bank /\ c.max = b.max /\ c.sess = s /\ c.active = r
      /\ c.table = b.table \ {h} /\ c.unused = u /\ c.next = b.next
  BY <1>3, <1>4, <1>5, <1>6, BankParts DEF Bank
<1>8. ListsOK(c)
  BY <1>1, <1>3, <1>4, <1>7 DEF ListsOK
<1>9. \A i \in b.table \ {h} : c.sess[i] = b.sess[i]
  BY <1>5, <1>7, BankParts
<1>10. Onward(c, After(b, h)) = Onward(b, h) \ {h}
  <2> DEFINE n == After(b, h)
  <2>1. /\ n \in Handle \cup {End}
        /\ n # End => n \in b.table \ {h}
        /\ Onward(b, n) = Onward(b, h) \ {h}
    BY AfterIsRest
  <2>2. CASE n = End
    BY <2>1, <2>2 DEF Onward
  <2>3. CASE n # End
    <3>1. n = a[p + 1] /\ p + 1 \in DOMAIN a
      BY <1>1, <1>2, <2>3 DEF After
    <3> HIDE DEF n
    <3>2. n \in ToSet(a) /\ n \in ToSet(r)
      BY <1>1, <1>3, <2>1, <2>3
    <3>3. Place(b, n) = p + 1
      BY <1>1, <3>1, <3>2, PlaceFound
    <3>4. p \in 1..(Len(a) - 1) /\ ~(p < p)
      BY <1>1, <1>2, <3>1
    <3>5. p \in DOMAIN r /\ r[p] = n
      BY <1>3, <3>1, <3>4
    <3>6. Place(c, n) = p
      BY <1>3, <1>7, <3>2, <3>5, PlaceFound
    <3> HIDE DEF p
    <3>7. Onward(b, n) = {a[i] : i \in (p + 1)..Len(a)}
      BY <2>3, <3>3 DEF Onward
    <3>8. Onward(c, n) = {r[i] : i \in p..(Len(a) - 1)}
      BY <1>3, <1>7, <2>3, <3>6 DEF Onward
    <3>9. ASSUME NEW y \in Onward(b, n) PROVE y \in Onward(c, n)
      <4>1. PICK i \in (p + 1)..Len(a) : y = a[i]
        BY <3>7
      <4>2. i - 1 \in p..(Len(a) - 1) /\ i - 1 \in 1..(Len(a) - 1) /\ ~(i - 1 < p) /\ (i - 1) + 1 = i
        BY <1>1, <3>4, <4>1
      <4>3. r[i - 1] = y
        BY <1>3, <4>1, <4>2
      <4> QED BY <3>8, <4>2, <4>3
    <3>10. ASSUME NEW y \in Onward(c, n) PROVE y \in Onward(b, n)
      <4>1. PICK i \in p..(Len(a) - 1) : y = r[i]
        BY <3>8
      <4>2. i + 1 \in (p + 1)..Len(a) /\ i \in 1..(Len(a) - 1) /\ ~(i < p)
        BY <1>1, <3>4, <4>1
      <4>3. y = a[i + 1]
        BY <1>3, <4>1, <4>2
      <4> QED BY <3>7, <4>2, <4>3
    <3>11. Onward(c, n) = Onward(b, n)
      BY <3>9, <3>10
    <3> QED BY <2>1, <3>11 DEF n
  <2> QED BY <2>2, <2>3
<1> QED BY <1>7, <1>8, <1>9, <1>10 DEF c

LEMMA OpenFails ==
    ASSUME NEW b \in Bank, ListsOK(b), b.unused # <<>>, NEW c \in Conn
    PROVE  LET d == Opened(b, c, FALSE) IN
           /\ d \in Bank /\ SameLists(b, d) /\ d.next = b.next
           /\ \A i \in b.table : d.sess[i] = b.sess[i]
<1> DEFINE h == Head(b.unused)
           x == [b.sess[h] EXCEPT !.serial = b.next]
           d == [b EXCEPT !.sess[h] = x]
<1>1. h \in Handle /\ h \notin b.table
  BY BankParts, Beheaded DEF ListsOK
<1>2. x \in SessionS
  BY <1>1, BankParts DEF SessionS
<1>3. Opened(b, c, FALSE) = d
  BY DEF Opened
<1> HIDE DEF h, x
<1>4. /\ d \in Bank /\ SameLists(b, d) /\ d.next = b.next
      /\ \A i \in Handle \ {h} : d.sess[i] = b.sess[i]
  BY <1>1, <1>2, SessionReplaced DEF SameLists
<1> HIDE DEF d
<1> QED BY <1>1, <1>3, <1>4, BankParts

LEMMA OpenedEffect ==
    ASSUME NEW b \in Bank, ListsOK(b), b.unused # <<>>, NEW c \in Conn
    PROVE  LET d == Opened(b, c, TRUE)
               h == Last(d.active)
           IN  /\ d \in Bank /\ ListsOK(d) /\ d.next = b.next + 1
               /\ h \in Handle \ b.table /\ d.table = b.table \cup {h}
               /\ d.sess[h].serial = b.next /\ d.sess[h].conn = c
               /\ \A i \in b.table : d.sess[i] = b.sess[i]
<1> DEFINE h == Head(b.unused)
           x == [b.sess[h] EXCEPT !.serial = b.next]
           t == [b EXCEPT !.sess[h] = x]
           y == [x EXCEPT !.conn = c, !.error = FALSE]
           u == Tail(b.unused)
           a == Append(b.active, h)
           s == [b.sess EXCEPT ![h] = y]
           n == b.next + 1
           T == b.table \cup {h}
           d == Opened(b, c, TRUE)
<1>1. /\ h \in Handle /\ h \in ToSet(b.unused) /\ u \in Seq(Handle) /\ IsInjective(u)
      /\ ToSet(u) = ToSet(b.unused) \ {h}
  BY BankParts, Beheaded DEF ListsOK
<1>2. /\ a \in Seq(Handle) /\ IsInjective(a) /\ ToSet(a) = b.table \cup {h} /\ Last(a) = h
      /\ h \notin b.table
  BY <1>1, BankParts, Joined DEF ListsOK
<1>3. y \in SessionS /\ y.serial = b.next /\ y.conn = c
  BY <1>1, BankParts DEF SessionS
<1>4. s \in [Handle -> SessionS] /\ s[h] = y /\ \A i \in Handle \ {h} : s[i] = b.sess[i]
  <2> HIDE DEF y, h
  <2> QED BY <1>1, <1>3, BankParts
<1>5. d = [b EXCEPT !.sess = s, !.next = n, !.unused = u, !.active = a, !.table = T]
  <2>1. d = Activated([t EXCEPT !.next = @ + 1, !.unused = Tail(@),
                                !.sess[h] = [@ EXCEPT !.conn = c, !.error = FALSE]], h)
    BY DEF Opened
  <2>2. t.next = b.next /\ t.unused = b.unused /\ t.sess = [b.sess EXCEPT ![h] = x]
        /\ t.active = b.active /\ t.table = b.table /\ t.max = b.max
    BY DEF Bank
  <2>3. t.sess[h] = x
    BY <1>1, <2>2, BankParts
  <2>4. [t.sess EXCEPT ![h] = y] = s
    <3> HIDE DEF x, y, h, t
    <3> QED BY <1>1, <2>2, BankParts DEF s
  <2>5. t = [b EXCEPT !.sess = [b.sess EXCEPT ![h] = x]]
    BY DEF Bank
  <2> DEFINE v == [t EXCEPT !.next = n, !.unused = u, !.sess = s]
  <2>6. [t EXCEPT !.next = @ + 1, !.unused = Tail(@),
                  !.sess[h] = [@ EXCEPT !.conn = c, !.error = FALSE]] = v
    <3> HIDE DEF x, h, t, s
    <3> QED BY <2>2, <2>3, <2>4
  <2>7. d = [v EXCEPT !.active = Append(@, h), !.table = @ \cup {h}]
    BY <2>1, <2>6 DEF Activated
  <2>8. v = [b EXCEPT !.sess = s, !.next = n, !.unused = u]
    <3> HIDE DEF x, h, s, n, u
    <3> QED BY <2>5 DEF Bank
  <2> HIDE DEF v, d, s, n, u, h
  <2>9. v.active = b.active /\ v.table = b.table
    BY <2>8 DEF Bank
  <2> QED BY <2>7, <2>8, <2>9 DEF Bank
<1>6. n \in Nat /\ T \subseteq Handle
  BY <1>1, BankParts
<1> HIDE DEF h, y, u, a, s, n, T, d
<1>7. /\ d \in Bank /\ d.max = b.max /\ d.sess = s /\ d.next = n /\ d.unused = u
      /\ d.active = a /\ d.table = T
  BY <1>1, <1>2, <1>4, <1>5, <1>6, BankParts DEF Bank
<1>8. ListsOK(d)
  BY <1>1, <1>2, <1>7 DEF ListsOK, T
<1>9. Last(d.active) = h
  BY <1>2, <1>7
<1>10. d.sess[h].serial = b.next /\ d.sess[h].conn = c
  BY <1>3, <1>4, <1>7
<1>11. \A i \in b.table : d.sess[i] = b.sess[i]
  BY <1>2, <1>4, <1>7, BankParts
<1> QED BY <1>1, <1>2, <1>7, <1>8, <1>9, <1>10, <1>11 DEF d, n, T
-----------------------------------------------------------------------------
(* The steps. *)

\* Only errors of sessions are set.
ErrorKinds(b, d) ==
    /\ d \in Bank /\ SameLists(b, d) /\ d.next = b.next
    /\ \A h \in Handle : d.sess[h].serial = b.sess[h].serial /\ d.sess[h].conn = b.sess[h].conn

LEMMA ErrorSet ==
    ASSUME NEW b \in Bank, NEW h \in Handle, NEW e \in BOOLEAN
    PROVE  ErrorKinds(b, [b EXCEPT !.sess[h].error = e])
<1> DEFINE x == [b.sess[h] EXCEPT !.error = e]
           d == [b EXCEPT !.sess[h] = x]
<1>1. x \in SessionS /\ x.serial = b.sess[h].serial /\ x.conn = b.sess[h].conn
  BY BankParts DEF SessionS
<1>2. [b EXCEPT !.sess[h].error = e] = d
  OBVIOUS
<1> HIDE DEF x
<1>3. /\ d \in Bank /\ SameLists(b, d) /\ d.next = b.next
      /\ d.sess[h] = x /\ \A i \in Handle \ {h} : d.sess[i] = b.sess[i]
  BY <1>1, SessionReplaced DEF SameLists
<1> HIDE DEF d
<1> QED BY <1>1, <1>2, <1>3 DEF ErrorKinds

LEMMA SetErrorsSet ==
    ASSUME NEW b \in Bank, NEW d \in setErrors(b)
    PROVE  ErrorKinds(b, d)
<1>1. CASE d = b
  BY <1>1 DEF ErrorKinds, SameLists
<1>2. CASE d # b
  <2>1. PICK h \in Noted(b) : d = [b EXCEPT !.sess[h].error = TRUE]
    BY <1>2 DEF setErrors
  <2>2. h \in Handle
    BY BankParts DEF Noted
  <2> QED BY <2>1, <2>2, ErrorSet
<1> QED BY <1>1, <1>2

LEMMA ErrorsTransitive ==
    ASSUME NEW b, NEW c, NEW d, ErrorKinds(b, c), ErrorKinds(c, d)
    PROVE  ErrorKinds(b, d)
BY DEF ErrorKinds, SameLists

LEMMA ErrorsKeep ==
    ASSUME NEW b \in Bank, NEW d, ErrorKinds(b, d), NEW l, NEW n, NEW K
    PROVE  /\ d \in Bank
           /\ ListsOK(b) => ListsOK(d)
           /\ LoopOK(b, l) => LoopOK(d, l)
           /\ NetOK(b, n) => NetOK(d, n)
           /\ KnownOK(b, K) => KnownOK(d, K)
<1>1. /\ d \in Bank /\ SameLists(b, d) /\ d.table = b.table /\ b.table \subseteq Handle
      /\ d.next = b.next
      /\ \A h \in b.table : d.sess[h].serial = b.sess[h].serial /\ d.sess[h].conn = b.sess[h].conn
  BY BankParts DEF ErrorKinds, SameLists
<1>2. ListsOK(b) => ListsOK(d)
  BY <1>1, ListsKept
<1>3. Onward(d, l.at) = Onward(b, l.at)
  BY <1>1, ListsKept
<1>4. LoopOK(b, l) => LoopOK(d, l)
  BY <1>1, <1>3 DEF LoopOK
<1>5. NetOK(b, n) => NetOK(d, n)
  <2>1. {d.sess[h].conn : h \in d.table} = {b.sess[h].conn : h \in b.table}
    BY <1>1
  <2> QED BY <1>1, <2>1 DEF NetOK
<1>6. KnownOK(b, K) => KnownOK(d, K)
  BY <1>1 DEF KnownOK
<1> QED BY <1>1, <1>2, <1>4, <1>5, <1>6

LEMMA CreatedGood ==
    ASSUME NEW n \in Sizes, NEW m \in Nat
    PROVE  LET c == Created(n, m) IN
           /\ c \in Bank /\ ListsOK(c) /\ c.table = {} /\ c.next = m
<1> DEFINE u == [i \in 1..n |-> i - 1]
           s == [h \in Handle |-> NewSession]
           c == Created(n, m)
<1>1. n \in Nat /\ Handles(n) \subseteq Handle
  BY EndIsNoHandle
<1>2. u \in [1..n -> Handle] /\ u \in Seq(Handle)
  BY <1>1 DEF Handles
<1>3. IsInjective(u) /\ ToSet(u) = Handles(n)
  <2>1. IsInjective(u)
    BY <1>1 DEF IsInjective
  <2>2. ASSUME NEW h \in Handles(n) PROVE h \in ToSet(u)
    <3>1. h + 1 \in 1..n /\ (h + 1) - 1 = h
      BY <1>1, <2>2 DEF Handles
    <3> QED BY <3>1 DEF ToSet
  <2>3. ToSet(u) \subseteq Handles(n)
    BY <1>1 DEF ToSet, Handles
  <2> QED BY <2>1, <2>2, <2>3
<1>4. s \in [Handle -> SessionS]
  <2>1. NewSession \in SessionS
    BY DEF NewSession, SessionS
  <2> QED BY <2>1
<1>5. c = [max |-> n, sess |-> s, active |-> <<>>, unused |-> u, table |-> {}, next |-> m]
  BY DEF Created
<1> HIDE DEF u, s, c
<1>6. /\ c \in Bank /\ c.max = n /\ c.active = <<>> /\ c.unused = u /\ c.table = {}
      /\ c.next = m
  BY <1>2, <1>4, <1>5 DEF Bank
<1>7. ToSet(<<>>) = {} /\ IsInjective(<<>>)
  BY DEF ToSet, IsInjective
<1>8. ListsOK(c)
  BY <1>3, <1>6, <1>7 DEF ListsOK
<1> QED BY <1>6, <1>8 DEF c

LEMMA SetMaxSessionsKeeps ==
    ASSUME IInv, NEW n \in Sizes, setMaxSessions(n)
    PROVE  IInv'
<1> DEFINE c == Created(n, bank.next)
<1>1. ~it.on /\ bank.active = <<>> /\ bank' = c /\ UNCHANGED <<it, net, known>>
  BY DEF setMaxSessions
<1>2. bank \in Bank /\ it \in Loop /\ ListsOK(bank) /\ LoopOK(bank, it)
      /\ NetOK(bank, net) /\ KnownOK(bank, known) /\ net \in Net
  BY DEF IInv
<1>3. bank.table = {}
  BY <1>1, <1>2 DEF ListsOK, ToSet
<1>4. c \in Bank /\ ListsOK(c) /\ c.table = {} /\ c.next = bank.next
  BY <1>2, BankParts, CreatedGood
<1> HIDE DEF c
<1>5. LoopOK(c, it)
  BY <1>1, <1>2 DEF LoopOK, Onward
<1>6. NetOK(c, net)
  BY <1>2, <1>3, <1>4 DEF NetOK
<1>7. KnownOK(c, known)
  BY <1>2, <1>4 DEF KnownOK
<1> QED BY <1>1, <1>2, <1>4, <1>5, <1>6, <1>7 DEF IInv

LEMMA ConnectsKeeps ==
    ASSUME IInv, NEW c \in Conn, Connects(c)
    PROVE  IInv'
<1> DEFINE w == Append(net.waiting, c)
           C == net.came \cup {c}
           n == [net EXCEPT !.waiting = w, !.came = C]
<1>1. c \notin net.came /\ net' = n /\ UNCHANGED <<bank, it, known>>
  BY DEF Connects
<1>2. /\ net \in Net /\ NetOK(bank, net)
      /\ net.waiting \in Seq(Conn) /\ net.came \subseteq Conn
  BY DEF IInv, Net
<1>3. w \in Seq(Conn) /\ IsInjective(w) /\ ToSet(w) = ToSet(net.waiting) \cup {c}
  BY <1>1, <1>2, Joined DEF NetOK
<1>4. C \subseteq Conn /\ net.came \subseteq C /\ c \in C
  BY <1>2
<1> HIDE DEF w, C
<1>5. n \in Net /\ n.waiting = w /\ n.came = C /\ n.open = net.open
  BY <1>2, <1>3, <1>4 DEF Net
<1> HIDE DEF n
<1>6. NetOK(bank, n)
  <2>1. c \notin net.open
    BY <1>1, <1>2 DEF NetOK
  <2> QED BY <1>2, <1>3, <1>4, <1>5, <2>1 DEF NetOK
<1> QED BY <1>1, <1>5, <1>6 DEF IInv

LEMMA SelectorKeeps ==
    ASSUME IInv, selectorTick
    PROVE  IInv'
<1>1. net' = [net EXCEPT !.canRecv = TRUE] /\ UNCHANGED <<bank, it, known>>
  BY DEF selectorTick
<1>2. net \in Net /\ NetOK(bank, net)
  BY DEF IInv
<1>3. /\ net' \in Net /\ net'.waiting = net.waiting /\ net'.came = net.came
      /\ net'.open = net.open
  BY <1>1, <1>2 DEF Net
<1>4. NetOK(bank, net')
  BY <1>2, <1>3 DEF NetOK
<1> QED BY <1>1, <1>3, <1>4 DEF IInv

\* A connection that is refused, or whose session could not be opened.
LEMMA Rejected ==
    ASSUME IInv, net.waiting # <<>>, NEW d \in Bank, SameLists(bank, d), d.next = bank.next,
           \A h \in bank.table : d.sess[h] = bank.sess[h]
    PROVE  LET n == [net EXCEPT !.canRecv = FALSE, !.waiting = Tail(@), !.open = @] IN
           n \in Net /\ ListsOK(d) /\ NetOK(d, n) /\ KnownOK(d, known)
<1> DEFINE w == Tail(net.waiting)
           n == [net EXCEPT !.canRecv = FALSE, !.waiting = w, !.open = net.open]
<1>1. /\ net \in Net /\ NetOK(bank, net) /\ KnownOK(bank, known) /\ ListsOK(bank)
      /\ net.waiting \in Seq(Conn) /\ bank \in Bank /\ net.open \subseteq Conn
  BY DEF IInv, Net
<1>2. w \in Seq(Conn) /\ IsInjective(w) /\ ToSet(w) \subseteq ToSet(net.waiting)
  BY <1>1, Beheaded DEF NetOK
<1> HIDE DEF w
<1>3. n \in Net /\ n.waiting = w /\ n.open = net.open /\ n.came = net.came
  BY <1>1, <1>2 DEF Net
<1>4. [net EXCEPT !.canRecv = FALSE, !.waiting = Tail(@), !.open = @] = n
  BY DEF w
<1> HIDE DEF n
<1>5. d.table = bank.table
  BY DEF SameLists
<1>6. ListsOK(d)
  BY <1>1, ListsKept
<1>7. NetOK(d, n)
  <2>1. {d.sess[h].conn : h \in d.table} = {bank.sess[h].conn : h \in bank.table}
    BY <1>5
  <2>2. n.open = {d.sess[h].conn : h \in d.table}
    BY <1>1, <1>3, <2>1 DEF NetOK
  <2> QED BY <1>1, <1>2, <1>3, <1>5, <2>2 DEF NetOK
<1>8. KnownOK(d, known)
  BY <1>1, <1>5 DEF KnownOK
<1> QED BY <1>3, <1>4, <1>6, <1>7, <1>8

LEMMA AcceptedOne ==
    ASSUME IInv, net.waiting # <<>>, bank.unused # <<>>
    PROVE  LET c == Head(net.waiting)
               d == Opened(bank, c, TRUE)
               h == Last(d.active)
               n == [net EXCEPT !.canRecv = FALSE, !.waiting = Tail(@), !.open = @ \cup {c}]
               K == known \cup {<<h, d.sess[h].serial, c>>}
           IN  d \in Bank /\ n \in Net /\ ListsOK(d) /\ NetOK(d, n) /\ KnownOK(d, K)
<1> DEFINE c == Head(net.waiting)
           d == Opened(bank, c, TRUE)
           h == Last(d.active)
           w == Tail(net.waiting)
           o == net.open \cup {c}
           n == [net EXCEPT !.canRecv = FALSE, !.waiting = w, !.open = o]
           K == known \cup {<<h, d.sess[h].serial, c>>}
<1>1. /\ net \in Net /\ NetOK(bank, net) /\ KnownOK(bank, known) /\ ListsOK(bank)
      /\ net.waiting \in Seq(Conn) /\ bank \in Bank /\ net.open \subseteq Conn
  BY DEF IInv, Net
<1>2. /\ c \in Conn /\ c \in ToSet(net.waiting)
      /\ w \in Seq(Conn) /\ IsInjective(w) /\ ToSet(w) = ToSet(net.waiting) \ {c}
  BY <1>1, Beheaded DEF NetOK
<1> HIDE DEF c
<1>3. /\ d \in Bank /\ ListsOK(d) /\ d.next = bank.next + 1
      /\ h \in Handle \ bank.table /\ d.table = bank.table \cup {h}
      /\ d.sess[h].serial = bank.next /\ d.sess[h].conn = c
      /\ \A i \in bank.table : d.sess[i] = bank.sess[i]
  BY <1>1, <1>2, OpenedEffect
<1> HIDE DEF d, h, w
<1>4. o \subseteq Conn
  BY <1>1, <1>2
<1> HIDE DEF o
<1>5. n \in Net /\ n.waiting = w /\ n.open = o /\ n.came = net.came
  BY <1>1, <1>2, <1>4 DEF Net
<1>6. [net EXCEPT !.canRecv = FALSE, !.waiting = Tail(@), !.open = @ \cup {c}] = n
  BY DEF w, o
<1> HIDE DEF n
<1>7. c \notin net.open /\ c \in net.came
  BY <1>1, <1>2 DEF NetOK
<1>8. NetOK(d, n)
  <2>1. \A i \in bank.table : d.sess[i].conn \in net.open
    BY <1>1, <1>3 DEF NetOK
  <2>2. {d.sess[i].conn : i \in d.table} = net.open \cup {c}
    BY <1>1, <1>3 DEF NetOK
  <2>3. \A i, j \in d.table : d.sess[i].conn = d.sess[j].conn => i = j
    <3> SUFFICES ASSUME NEW i \in d.table, NEW j \in d.table, d.sess[i].conn = d.sess[j].conn
                 PROVE  i = j
      OBVIOUS
    <3>1. CASE i = h \/ j = h
      BY <1>3, <1>7, <2>1, <3>1
    <3>2. CASE i # h /\ j # h
      BY <1>1, <1>3, <3>2 DEF NetOK
    <3> QED BY <3>1, <3>2
  <2>4. n.open = {d.sess[i].conn : i \in d.table}
    BY <1>5, <2>2 DEF o
  <2>5. n.open \subseteq n.came /\ ToSet(n.waiting) \subseteq n.came
        /\ ToSet(n.waiting) \cap n.open = {}
    BY <1>1, <1>2, <1>5, <1>7 DEF NetOK, o
  <2> QED BY <1>2, <1>5, <2>3, <2>4, <2>5 DEF NetOK
<1>9. KnownOK(d, K)
  <2> DEFINE m == bank.next
  <2>1. m \in Nat /\ m + 1 > m
    BY <1>1, BankParts
  <2>2. \A k \in known : k \in Handle \X Nat \X Conn /\ k[2] < m /\ k[2] \in Nat
    BY <1>1 DEF KnownOK
  <2>3. \A i \in bank.table : i \in Handle /\ bank.sess[i].serial \in Nat /\ bank.sess[i].serial < m
    BY <1>1, BankParts DEF KnownOK, SessionS
  <2>4. K = known \cup {<<h, m, c>>}
    BY <1>3
  <2> HIDE DEF m, K
  <2>5. K \subseteq Handle \X Nat \X Conn
    BY <1>2, <1>3, <2>1, <2>2, <2>4
  <2>6. \A k \in K : k[2] < d.next
    BY <1>3, <2>1, <2>2, <2>4 DEF m
  <2>7. \A i \in d.table : d.sess[i].serial < d.next
    <3> SUFFICES ASSUME NEW i \in d.table PROVE d.sess[i].serial < m + 1
      BY <1>3 DEF m
    <3>1. CASE i = h
      BY <1>3, <2>1, <3>1 DEF m
    <3>2. CASE i # h
      <4>1. i \in bank.table /\ d.sess[i] = bank.sess[i]
        BY <1>3, <3>2
      <4> QED BY <2>1, <2>3, <4>1
    <3> QED BY <3>1, <3>2
  <2>8. ASSUME NEW k \in K, k[1] \in d.table, d.sess[k[1]].serial = k[2]
        PROVE  d.sess[k[1]].conn = k[3]
    <3>1. CASE k = <<h, m, c>>
      BY <1>3, <3>1
    <3>2. CASE k \in known
      <4>1. k[2] < m /\ k[2] \in Nat
        BY <2>2, <3>2
      <4>2. k[1] # h
        BY <1>3, <2>1, <2>8, <4>1 DEF m
      <4>3. k[1] \in bank.table /\ d.sess[k[1]] = bank.sess[k[1]]
        BY <1>3, <2>8, <4>2
      <4> QED BY <1>1, <2>8, <3>2, <4>3 DEF KnownOK
    <3> QED BY <2>4, <3>1, <3>2
  <2> QED BY <2>5, <2>6, <2>7, <2>8 DEF KnownOK
<1> QED BY <1>3, <1>5, <1>6, <1>8, <1>9 DEF c, d, h, K

\* Of a run, all but the beginning of its loop.
LEMMA AcceptedKeeps ==
    ASSUME IInv, NEW ok \in BOOLEAN, Accepted(ok)
    PROVE  /\ bank' \in Bank /\ net' \in Net /\ ListsOK(bank') /\ NetOK(bank', net')
           /\ KnownOK(bank', known')
<1>1. /\ net \in Net /\ NetOK(bank, net) /\ KnownOK(bank, known) /\ ListsOK(bank)
      /\ net.waiting \in Seq(Conn) /\ bank \in Bank /\ net.open \subseteq Conn
  BY DEF IInv, Net
<1>2. CASE ~net.canRecv \/ net.waiting = <<>>
  <2>1. bank' = bank /\ net' = [net EXCEPT !.canRecv = FALSE] /\ known' = known
    BY <1>2 DEF Accepted
  <2>2. /\ net' \in Net /\ net'.waiting = net.waiting /\ net'.came = net.came
        /\ net'.open = net.open
    BY <1>1, <2>1 DEF Net
  <2>3. NetOK(bank, net')
    BY <1>1, <2>2 DEF NetOK
  <2> QED BY <1>1, <2>1, <2>2, <2>3
<1>3. CASE ~(~net.canRecv \/ net.waiting = <<>>)
  <2> DEFINE c == Head(net.waiting)
  <2>1. c \in Conn
    BY <1>1, <1>3, Beheaded DEF NetOK
  <2>2. CASE bank.unused = <<>> \/ ~ok
    <3> DEFINE d == IF bank.unused = <<>> THEN bank ELSE Opened(bank, c, FALSE)
    <3>1. /\ bank' = d /\ known' = known
          /\ net' = [net EXCEPT !.canRecv = FALSE, !.waiting = Tail(@), !.open = @]
      BY <1>3, <2>2 DEF Accepted
    <3>2. d \in Bank /\ SameLists(bank, d) /\ d.next = bank.next
          /\ \A h \in bank.table : d.sess[h] = bank.sess[h]
      <4>1. CASE bank.unused = <<>>
        BY <1>1, <4>1 DEF SameLists
      <4>2. CASE bank.unused # <<>>
        BY <1>1, <2>1, <4>2, OpenFails
      <4> QED BY <4>1, <4>2
    <3> HIDE DEF d
    <3> QED BY <1>3, <3>1, <3>2, Rejected
  <2>3. CASE bank.unused # <<>> /\ ok
    <3> DEFINE d == Opened(bank, c, TRUE)
               h == Last(d.active)
    <3>1. /\ bank' = d
          /\ net' = [net EXCEPT !.canRecv = FALSE, !.waiting = Tail(@), !.open = @ \cup {c}]
          /\ known' = known \cup {<<h, d.sess[h].serial, c>>}
      BY <1>3, <2>3 DEF Accepted
    <3> QED BY <1>3, <2>3, <3>1, AcceptedOne
  <2> QED BY <2>2, <2>3
<1> QED BY <1>2, <1>3

LEMMA RunBeginsKeeps ==
    ASSUME IInv, runBegins
    PROVE  IInv'
<1>1. PICK ok \in BOOLEAN : Accepted(ok)
  BY DEF runBegins
<1>2. /\ bank' \in Bank /\ net' \in Net /\ ListsOK(bank') /\ NetOK(bank', net')
      /\ KnownOK(bank', known')
  BY <1>1, AcceptedKeeps
<1> DEFINE f == First(bank')
           T == bank'.table
           l == [it EXCEPT !.on = TRUE, !.at = f, !.todo = T]
<1>3. /\ f \in Handle \cup {End}
      /\ f # End => f \in T
      /\ Onward(bank', f) = T /\ T \subseteq Handle
  BY <1>2, FirstIsAll, BankParts
<1>4. it' = l
  BY DEF runBegins
<1>5. it \in Loop /\ ~it.twice
  BY DEF IInv, LoopOK
<1> HIDE DEF f
<1>6. /\ l \in Loop /\ l.on /\ l.at = f /\ l.todo = T /\ ~l.twice
  BY <1>3, <1>5 DEF Loop
<1> HIDE DEF l
<1>7. LoopOK(bank', l)
  BY <1>3, <1>6 DEF LoopOK
<1> QED BY <1>2, <1>4, <1>6, <1>7 DEF IInv

\* The session under the iterator is closed.
LEMMA ClosedOne ==
    ASSUME IInv, NEW b, ErrorKinds(bank, b), NEW h \in bank.table
    PROVE  LET c == closeSession(b, h)
               n == [net EXCEPT !.open = @ \ {b.sess[h].conn}]
           IN  c \in Bank /\ n \in Net /\ ListsOK(c) /\ NetOK(c, n) /\ KnownOK(c, known)
<1> DEFINE c == closeSession(b, h)
           k == b.sess[h].conn
           o == net.open \ {k}
           n == [net EXCEPT !.open = o]
<1>1. /\ bank \in Bank /\ net \in Net /\ ListsOK(bank) /\ NetOK(bank, net)
      /\ KnownOK(bank, known)
  BY DEF IInv
<1>2. b \in Bank /\ ListsOK(b) /\ NetOK(b, net) /\ KnownOK(b, known)
  BY <1>1, ErrorsKeep
<1>3. h \in b.table
  BY DEF ErrorKinds, SameLists
<1>4. /\ c \in Bank /\ ListsOK(c) /\ c.table = b.table \ {h} /\ c.next = b.next
      /\ \A i \in b.table \ {h} : c.sess[i] = b.sess[i]
  BY <1>2, <1>3, ClosedEffect
<1> HIDE DEF c
<1>5. n \in Net /\ n.open = o /\ n.waiting = net.waiting /\ n.came = net.came
  BY <1>1 DEF Net
<1> HIDE DEF n
<1>6. {c.sess[i].conn : i \in c.table} = o
  <2>1. \A i \in b.table : b.sess[i].conn \in net.open
    BY <1>2 DEF NetOK
  <2>2. \A y \in net.open : \E i \in b.table : y = b.sess[i].conn
    BY <1>2 DEF NetOK
  <2>3. \A i \in b.table : b.sess[i].conn = k => i = h
    BY <1>2, <1>3 DEF NetOK
  <2>4. \A i \in c.table : i \in b.table /\ i # h /\ c.sess[i] = b.sess[i]
    BY <1>4
  <2>5. \A i \in c.table : c.sess[i].conn \in o
    BY <2>1, <2>3, <2>4
  <2>6. \A y \in o : \E i \in c.table : y = c.sess[i].conn
    BY <1>4, <2>2
  <2> HIDE DEF o
  <2> QED BY <2>5, <2>6
<1>7. NetOK(c, n)
  BY <1>2, <1>4, <1>5, <1>6 DEF NetOK
<1>8. KnownOK(c, known)
  BY <1>2, <1>4 DEF KnownOK
<1> QED BY <1>4, <1>5, <1>7, <1>8 DEF c, n

LEMMA DriveKeeps ==
    ASSUME IInv, drive
    PROVE  IInv'
<1> DEFINE h == it.at
           a == After(bank, h)
           D == it.todo \ {h}
<1>1. /\ bank \in Bank /\ it \in Loop /\ net \in Net /\ ListsOK(bank) /\ LoopOK(bank, it)
      /\ NetOK(bank, net) /\ KnownOK(bank, known)
  BY DEF IInv
<1>2. it.on /\ h # End /\ h \in bank.table /\ h \in Handle /\ it.todo = Onward(bank, h)
  BY <1>1, BankParts DEF drive, LoopOK
<1>3. PICK fails \in BOOLEAN, d \in setErrors(bank) :
        LET b == [d EXCEPT !.sess[h].error = @ \/ fails]
        IN  Driven(b, b.sess[h].error, a)
  BY DEF drive
<1> DEFINE e == d.sess[h].error \/ fails
           b == [d EXCEPT !.sess[h].error = e]
           closed == b.sess[h].error
<1>4. [d EXCEPT !.sess[h].error = @ \/ fails] = b
  OBVIOUS
<1>5. ErrorKinds(bank, d)
  BY <1>1, SetErrorsSet
<1>6. d \in Bank /\ e \in BOOLEAN
  BY <1>2, <1>5, BankParts DEF ErrorKinds, SessionS
<1>7. ErrorKinds(bank, b)
  <2> HIDE DEF e
  <2> QED BY <1>2, <1>5, <1>6, ErrorSet, ErrorsTransitive
<1> HIDE DEF b
<1>8. Driven(b, closed, a)
  BY <1>3, <1>4
<1>9. /\ a \in Handle \cup {End}
      /\ a # End => a \in bank.table \ {h}
      /\ Onward(bank, a) = Onward(bank, h) \ {h}
  BY <1>1, <1>2, AfterIsRest
<1>10. h \in it.todo
  <2>1. /\ Place(bank, h) \in DOMAIN bank.active /\ bank.active[Place(bank, h)] = h
        /\ DOMAIN bank.active = 1..Len(bank.active) /\ Len(bank.active) \in Nat
    BY <1>1, <1>2, PlaceFound, BankParts DEF ListsOK
  <2>2. Place(bank, h) \in Place(bank, h)..Len(bank.active)
    BY <2>1
  <2> QED BY <1>2, <2>1, <2>2 DEF Onward
<1>11. /\ it' \in Loop /\ it'.on = it.on /\ it'.at = a /\ it'.todo = D /\ ~it'.twice
  <2> DEFINE t == it.twice \/ h \notin it.todo
  <2>1. it' = [it EXCEPT !.at = a, !.todo = D, !.twice = t]
    BY <1>8 DEF Driven
  <2>2. t = FALSE
    BY <1>1, <1>10 DEF LoopOK, Loop
  <2> HIDE DEF t, a
  <2> QED BY <1>1, <1>9, <2>1, <2>2 DEF Loop
<1> HIDE DEF a
<1>12. b \in Bank /\ ListsOK(b) /\ NetOK(b, net) /\ KnownOK(b, known)
       /\ b.table = bank.table
  BY <1>1, <1>7, ErrorsKeep DEF ErrorKinds, SameLists
<1>13. Onward(b, a) = Onward(bank, a) /\ After(b, h) = a /\ Onward(b, h) = Onward(bank, h)
  BY <1>7, ListsKept DEF ErrorKinds, a
<1>14. CASE closed
  <2> DEFINE c == closeSession(b, h)
             n == [net EXCEPT !.open = @ \ {b.sess[h].conn}]
  <2>1. bank' = c /\ net' = n /\ known' = known
    BY <1>8, <1>14 DEF Driven
  <2>2. c \in Bank /\ n \in Net /\ ListsOK(c) /\ NetOK(c, n) /\ KnownOK(c, known)
    BY <1>2, <1>7, ClosedOne
  <2>3. c.table = b.table \ {h} /\ Onward(c, a) = Onward(b, h) \ {h}
    BY <1>2, <1>12, <1>13, ClosedEffect
  <2> HIDE DEF c, n
  <2>4. LoopOK(c, it')
    BY <1>2, <1>9, <1>11, <1>12, <1>13, <2>3 DEF LoopOK
  <2> QED BY <1>11, <2>1, <2>2, <2>4 DEF IInv
<1>15. CASE ~closed
  <2>1. bank' = b /\ net' = net /\ known' = known
    BY <1>8, <1>15 DEF Driven
  <2>2. LoopOK(b, it')
    BY <1>2, <1>9, <1>11, <1>12, <1>13 DEF LoopOK
  <2> QED BY <1>1, <1>11, <1>12, <2>1, <2>2 DEF IInv
<1> QED BY <1>14, <1>15

LEMMA RunEndsKeeps ==
    ASSUME IInv, runEnds
    PROVE  IInv'
<1>1. it.at = End /\ it' = [it EXCEPT !.on = FALSE] /\ UNCHANGED <<bank, net, known>>
  BY DEF runEnds
<1>2. it \in Loop /\ LoopOK(bank, it)
  BY DEF IInv
<1>3. it' \in Loop /\ it'.at = End /\ it'.todo = it.todo /\ it'.twice = it.twice
  BY <1>1, <1>2 DEF Loop
<1>4. LoopOK(bank, it')
  BY <1>1, <1>2, <1>3 DEF LoopOK
<1> QED BY <1>1, <1>3, <1>4 DEF IInv

LEMMA ProgramErrorKeeps ==
    ASSUME IInv, programError
    PROVE  IInv'
<1>1. PICK b \in setErrors(bank) : bank' = b
  BY DEF programError
<1>2. UNCHANGED <<it, net, known>>
  BY DEF programError
<1>3. ErrorKinds(bank, b) /\ bank \in Bank
  BY SetErrorsSet DEF IInv
<1>4. b \in Bank /\ ListsOK(b) /\ LoopOK(b, it) /\ NetOK(b, net) /\ KnownOK(b, known)
  BY <1>3, ErrorsKeep DEF IInv
<1> QED BY <1>1, <1>2, <1>4 DEF IInv

-----------------------------------------------------------------------------
(* The invariant and what follows from it. *)

LEMMA InitIInv == Init => IInv
<1> SUFFICES ASSUME Init PROVE IInv
  OBVIOUS
<1>1. PICK n \in Sizes : bank = Created(n, 0)
  BY DEF Init
<1>2. bank \in Bank /\ ListsOK(bank) /\ bank.table = {}
  BY <1>1, CreatedGood
<1>3. it \in Loop /\ LoopOK(bank, it)
  BY DEF Init, Loop, LoopOK, Onward
<1>4. net \in Net /\ NetOK(bank, net)
  <2>1. ToSet(<<>>) = {} /\ IsInjective(<<>>) /\ <<>> \in Seq(Conn)
    BY DEF ToSet, IsInjective
  <2> QED BY <1>2, <2>1 DEF Init, Net, NetOK
<1>5. KnownOK(bank, known)
  BY <1>2 DEF Init, KnownOK
<1> QED BY <1>2, <1>3, <1>4, <1>5 DEF IInv

LEMMA NextKeeps == IInv /\ [Next]_vars => IInv'
<1> SUFFICES ASSUME IInv, [Next]_vars PROVE IInv'
  OBVIOUS
<1>1. ASSUME NEW n \in Sizes, setMaxSessions(n) PROVE IInv'
  BY <1>1, SetMaxSessionsKeeps
<1>2. ASSUME NEW c \in Conn, Connects(c) PROVE IInv'
  BY <1>2, ConnectsKeeps
<1>3. CASE selectorTick
  BY <1>3, SelectorKeeps
<1>4. CASE runBegins
  BY <1>4, RunBeginsKeeps
<1>5. CASE drive
  BY <1>5, DriveKeeps
<1>6. CASE runEnds
  BY <1>6, RunEndsKeeps
<1>7. CASE programError
  BY <1>7, ProgramErrorKeeps
<1>8. CASE UNCHANGED vars
  BY <1>8 DEF vars, IInv
<1> QED BY <1>1, <1>2, <1>3, <1>4, <1>5, <1>6, <1>7, <1>8 DEF Next

LEMMA IInvHolds == IInv => PoolHolds
<1> SUFFICES ASSUME IInv PROVE PoolHolds
  OBVIOUS
<1>1. /\ bank \in Bank /\ it \in Loop /\ net \in Net
      /\ ListsOK(bank) /\ LoopOK(bank, it) /\ NetOK(bank, net) /\ KnownOK(bank, known)
  BY DEF IInv
<1>2. TypeOK
  BY <1>1, BankParts DEF TypeOK, Loop, LoopOK
<1>3. PoolConsistent
  <2> DEFINE s == bank.active
             t == bank.unused
             m == Len(s)
  <2>1. /\ s \in Seq(Handle) /\ t \in Seq(Handle) /\ m \in Nat /\ Len(t) \in Nat
        /\ DOMAIN s = 1..m /\ DOMAIN t = 1..Len(t)
        /\ \A i \in 1..m : s[i] \in ToSet(s)
        /\ \A i \in 1..Len(t) : t[i] \in ToSet(t)
        /\ IsInjective(s) /\ IsInjective(t) /\ ToSet(s) \cap ToSet(t) = {}
    <3>1. /\ s \in Seq(Handle) /\ t \in Seq(Handle)
          /\ IsInjective(s) /\ IsInjective(t) /\ ToSet(s) \cap ToSet(t) = {}
      BY <1>1, BankParts DEF ListsOK
    <3>2. /\ m \in Nat /\ Len(t) \in Nat /\ DOMAIN s = 1..m /\ DOMAIN t = 1..Len(t)
      BY <3>1
    <3> QED BY <3>1, <3>2 DEF ToSet
  <2> DEFINE w == s \o t
  <2>2. /\ w \in Seq(Handle) /\ Len(w) = m + Len(t)
        /\ \A i \in 1..(m + Len(t)) : w[i] = IF i <= m THEN s[i] ELSE t[i - m]
    <3> HIDE DEF s, t
    <3>1. s \in Seq(Handle) /\ t \in Seq(Handle)
      BY <2>1
    <3>2. /\ w \in Seq(Handle) /\ Len(w) = Len(s) + Len(t)
          /\ \A i \in 1..(Len(s) + Len(t)) : w[i] = IF i <= Len(s) THEN s[i] ELSE t[i - Len(s)]
      BY <3>1, ConcatProperties
    <3> QED BY <3>2
  <2> HIDE DEF w, s, t, m
  <2>3. DOMAIN w = 1..(m + Len(t))
    BY <2>2
  <2>4. ASSUME NEW i \in DOMAIN w, NEW j \in DOMAIN w, w[i] = w[j] PROVE i = j
    <3>1. CASE i <= m /\ j <= m
      <4>1. i \in DOMAIN s /\ j \in DOMAIN s /\ w[i] = s[i] /\ w[j] = s[j]
        BY <2>1, <2>2, <2>3, <3>1
      <4> QED BY <2>1, <2>4, <4>1 DEF IsInjective
    <3>2. CASE ~(i <= m) /\ ~(j <= m)
      <4>1. i - m \in DOMAIN t /\ j - m \in DOMAIN t /\ w[i] = t[i - m] /\ w[j] = t[j - m]
        BY <2>1, <2>2, <2>3, <3>2
      <4>2. i - m = j - m
        BY <2>1, <2>4, <4>1 DEF IsInjective
      <4> QED BY <2>1, <2>3, <4>2
    <3>3. CASE i <= m /\ ~(j <= m)
      <4>1. i \in 1..m /\ j - m \in 1..Len(t) /\ w[i] = s[i] /\ w[j] = t[j - m]
        BY <2>1, <2>2, <2>3, <3>3
      <4> QED BY <2>1, <2>4, <4>1
    <3>4. CASE ~(i <= m) /\ j <= m
      <4>1. j \in 1..m /\ i - m \in 1..Len(t) /\ w[j] = s[j] /\ w[i] = t[i - m]
        BY <2>1, <2>2, <2>3, <3>4
      <4> QED BY <2>1, <2>4, <4>1
    <3> QED BY <3>1, <3>2, <3>3, <3>4
  <2>5. IsInjective(w)
    BY <2>4 DEF IsInjective
  <2> QED BY <1>1, <2>5 DEF PoolConsistent, ListsOK, w, s, t
<1>4. SocketsOwned
  BY <1>1 DEF SocketsOwned, NetOK
<1>5. StaleHandles
  <2> SUFFICES ASSUME NEW k \in known, findSession(bank, k[1], k[2]) # End
               PROVE  bank.sess[findSession(bank, k[1], k[2])].conn = k[3]
    BY DEF StaleHandles
  <2>1. /\ findSession(bank, k[1], k[2]) = k[1]
        /\ k[1] \in bank.table /\ bank.sess[k[1]].serial = k[2]
    BY DEF findSession
  <2> QED BY <1>1, <2>1 DEF KnownOK
<1>6. DrivenOnce
  BY <1>1 DEF DrivenOnce, LoopOK, Onward
<1> QED BY <1>2, <1>3, <1>4, <1>5, <1>6 DEF PoolHolds

\* BankHolds: the lists of sessions, the sockets, the handles that were noted and
\* the iterator of run agree in every state, for any number of sessions and of
\* connections (SessionBank::run, recvData, closeSession, setMaxSessions).
THEOREM BankHolds == Spec => []PoolHolds
<1>1. Init => IInv
  BY InitIInv
<1>2. IInv /\ [Next]_vars => IInv'
  BY NextKeeps
<1>3. IInv => PoolHolds
  BY IInvHolds
<1> QED BY <1>1, <1>2, <1>3, PTL DEF Spec

-----------------------------------------------------------------------------
(* The editor's client.  Its inductive invariant says what the session may *)
(* hold: while it is open, all that is queued was queued on the present    *)
(* connection, and until the server has heard something, the login is the  *)
(* first in the queue; a client that was disconnected has nothing queued,  *)
(* for ConnectGameServer opens its session without closing it.             *)

Requests == [kind : Request, fresh : BOOLEAN]
Hearing == [first : Request \cup {"none"}, stale : BOOLEAN]
Server == [up : BOOLEAN, link : {"none", "up", "closed", "mute"}, heard : Hearing]

Fresh(q) == \A i \in DOMAIN q : q[i].fresh
Sound(t, h) ==
    /\ t \in Session /\ h \in Hearing
    /\ t.open => t.buffer /\ Fresh(t.queue)
    /\ ~h.stale /\ h.first \in {"none", "login"}
LoginNext(t, h) ==
    t.open /\ h.first = "none" => t.queue # <<>> /\ t.queue[1].kind = "login"

\* What DoConnect begins with, and what routine does not change then.
Untouched(t, h) ==
    t.open => t.queue = <<>> /\ t.pings = 0 /\ t.quiet = 0 /\ h = Silent

EditorIInv ==
    /\ EditorTypeOK /\ server \in Server
    /\ Sound(session, server.heard) /\ LoginNext(session, server.heard)
    /\ m_kNetState = "disconnect" => session.queue = <<>> /\ session.pings = 0

-----------------------------------------------------------------------------
(* The parts of routine. *)

LEMMA Times ==
    /\ LastPingC \in Nat /\ LastWait \in Nat /\ Len(Waits) \in Nat \ {0}
    /\ Len(PingTimesC) \in Nat \ {0} /\ PingTimesC[1] \in Nat \ {0}
    /\ \A i \in 1..Len(PingTimesC) : PingTimesC[i] \in Nat
    /\ \A i \in 1..Len(Waits) : Waits[i] \in Nat
    /\ MaxQueue \in Nat \ {0}
<1>1. /\ Waits \in Seq(Nat) /\ Waits # <<>> /\ PingTimesC \in Seq(Nat) /\ PingTimesC # <<>>
      /\ PingTimesC[1] > 0 /\ MaxQueue \in Nat \ {0}
  BY EditorAssumption
<1>2. /\ Len(Waits) \in Nat \ {0} /\ Len(PingTimesC) \in Nat \ {0}
      /\ \A i \in 1..Len(PingTimesC) : PingTimesC[i] \in Nat
      /\ \A i \in 1..Len(Waits) : Waits[i] \in Nat
  BY <1>1
<1>3. Len(Waits) \in 1..Len(Waits) /\ Len(PingTimesC) \in 1..Len(PingTimesC)
      /\ 1 \in 1..Len(PingTimesC)
  BY <1>2
<1> QED BY <1>1, <1>2, <1>3 DEF LastPingC, LastWait

LEMMA SessionParts ==
    \A t \in Session :
      /\ t.open \in BOOLEAN /\ t.error \in BOOLEAN /\ t.canRecv \in BOOLEAN
      /\ t.canSend \in BOOLEAN /\ t.buffer \in BOOLEAN /\ t.queue \in Seq(Requests)
      /\ t.pings \in 0..Len(PingTimesC) /\ t.quiet \in 0..LastPingC
BY DEF Session, Requests

\* sendMessage touches the queue and the error; what is queued comes last.
LEMMA SentOn ==
    ASSUME NEW t \in Session, NEW kind \in Request
    PROVE  LET u == sendMessageC(t, kind) IN
           /\ u \in Session
           /\ u.open = t.open /\ u.buffer = t.buffer
           /\ u.pings = t.pings /\ u.quiet = t.quiet
           /\ t.open /\ Fresh(t.queue) => Fresh(u.queue)
           /\ t.queue # <<>> => u.queue # <<>> /\ u.queue[1] = t.queue[1]
           /\ t.buffer /\ t.queue = <<>> => u.queue # <<>> /\ u.queue[1].kind = kind
<1> DEFINE q == Append(t.queue, [kind |-> kind, fresh |-> t.open])
<1>1. /\ q \in Seq(Requests) /\ q # <<>> /\ Len(t.queue) \in Nat
      /\ Len(q) = Len(t.queue) + 1
      /\ q[Len(t.queue) + 1] = [kind |-> kind, fresh |-> t.open]
      /\ \A i \in 1..Len(t.queue) : q[i] = t.queue[i]
      /\ DOMAIN q = 1..(Len(t.queue) + 1) /\ DOMAIN t.queue = 1..Len(t.queue)
  <2>1. [kind |-> kind, fresh |-> t.open] \in Requests /\ t.queue \in Seq(Requests)
    BY SessionParts DEF Requests
  <2> QED BY <2>1, AppendProperties
<1>2. [kind |-> kind, fresh |-> t.open].fresh = t.open
  OBVIOUS
<1>3. [kind |-> kind, fresh |-> t.open].kind = kind
  OBVIOUS
<1> HIDE DEF q
<1>4. t.open /\ Fresh(t.queue) => Fresh(q)
  <2> SUFFICES ASSUME t.open, Fresh(t.queue), NEW i \in DOMAIN q PROVE q[i].fresh
    BY DEF Fresh
  <2>1. i \in 1..Len(t.queue) \/ i = Len(t.queue) + 1
    BY <1>1
  <2> QED BY <1>1, <1>2, <2>1 DEF Fresh
<1>5. t.queue # <<>> => q[1] = t.queue[1]
  <2>1. t.queue # <<>> => 1 \in 1..Len(t.queue)
    BY SessionParts
  <2> QED BY <1>1, <2>1
<1>6. t.queue = <<>> => q[1].kind = kind
  <2>1. t.queue = <<>> => Len(t.queue) + 1 = 1
    OBVIOUS
  <2> QED BY <1>1, <1>3, <2>1
<1>7. CASE ~t.buffer
  BY <1>7 DEF sendMessageC
<1>8. CASE t.buffer /\ Len(t.queue) >= MaxQueue
  <2>1. t.queue # <<>>
    BY <1>8, Times
  <2> DEFINE u == [t EXCEPT !.error = TRUE]
  <2>2. sendMessageC(t, kind) = u
    BY <1>8 DEF sendMessageC
  <2>3. /\ u \in Session /\ u.open = t.open /\ u.buffer = t.buffer /\ u.queue = t.queue
        /\ u.pings = t.pings /\ u.quiet = t.quiet
    BY DEF Session
  <2> QED BY <2>1, <2>2, <2>3
<1>9. CASE t.buffer /\ ~(Len(t.queue) >= MaxQueue)
  <2> DEFINE u == [t EXCEPT !.queue = q]
  <2>2. sendMessageC(t, kind) = u
    BY <1>9 DEF sendMessageC, q
  <2>3. /\ u \in Session /\ u.open = t.open /\ u.buffer = t.buffer /\ u.queue = q
        /\ u.pings = t.pings /\ u.quiet = t.quiet
    BY <1>1 DEF Session, Requests
  <2> QED BY <1>1, <1>4, <1>5, <1>6, <2>2, <2>3
<1> QED BY <1>7, <1>8, <1>9, SessionParts

\* What the server makes of what it is sent.
LEMMA HeardKeeps ==
    ASSUME NEW h \in Hearing, NEW q \in Seq(Requests), Fresh(q), ~h.stale,
           h.first \in {"none", "login"},
           h.first = "none" => q = <<>> \/ q[1].kind = "login"
    PROVE  /\ Heard(h, q) \in Hearing /\ ~Heard(h, q).stale
           /\ Heard(h, q).first \in {"none", "login"}
           /\ q = <<>> => Heard(h, q) = h
           /\ q # <<>> => Heard(h, q).first = "login"
<1>1. CASE q = <<>>
  BY <1>1 DEF Heard
<1>2. CASE q # <<>>
  <2> DEFINE first == IF h.first = "none" THEN q[1].kind ELSE h.first
             stale == h.stale \/ \E i \in DOMAIN q : ~q[i].fresh
  <2>1. Heard(h, q) = [first |-> first, stale |-> stale]
    BY <1>2 DEF Heard
  <2>2. first = "login"
    BY <1>2
  <2>3. stale = FALSE
    BY DEF Fresh
  <2>4. "login" \in Request
    BY DEF Request
  <2> HIDE DEF first, stale
  <2>5. Heard(h, q) = [first |-> "login", stale |-> FALSE]
    BY <2>1, <2>2, <2>3
  <2> QED BY <1>2, <2>4, <2>5 DEF Hearing
<1> QED BY <1>1, <1>2

\* What a part of routine may make of a session and what the server heard of it.
Follows(x, y) ==
    /\ y = [t |-> y.t, h |-> y.h] /\ Sound(y.t, y.h) /\ y.t.open = x.t.open
    /\ LoginNext(x.t, x.h) => LoginNext(y.t, y.h)
    /\ Untouched(x.t, x.h) => Untouched(y.t, y.h)
Ready(x) ==
    /\ x = [t |-> x.t, h |-> x.h] /\ Sound(x.t, x.h)
    /\ LoginNext(x.t, x.h) \/ Untouched(x.t, x.h)

LEMMA FollowsMore ==
    /\ \A x, y : Ready(x) /\ Follows(x, y) => Ready(y)
    /\ \A x, y, z : Follows(x, y) /\ Follows(y, z) => Follows(x, z)
    /\ \A x : Ready(x) => Follows(x, x)
BY DEF Follows, Ready

\* A part that leaves the queue and what was heard.
LEMMA QueueLeft ==
    ASSUME NEW x, Ready(x), NEW u \in Session, u.open = x.t.open, u.buffer = x.t.buffer,
           u.queue = x.t.queue, NEW y, y = [t |-> u, h |-> x.h],
           Untouched(x.t, x.h) /\ u.open => u.pings = 0 /\ u.quiet = 0
    PROVE  Follows(x, y)
<1>1. y.t = u /\ y.h = x.h
  OBVIOUS
<1> QED BY <1>1 DEF Ready, Follows, Sound, LoginNext, Untouched

LEMMA ZeroFits == 0 \in 0..Len(PingTimesC) /\ 0 \in 0..LastPingC
BY Times

LEMMA RecvFollows ==
    ASSUME NEW x, Ready(x), NEW y \in recvDataC(x) PROVE Follows(x, y)
<1> DEFINE t == x.t
           u == [t EXCEPT !.canRecv = FALSE]
           v == [u EXCEPT !.error = TRUE]
           w == [u EXCEPT !.pings = 0, !.quiet = 0]
<1>1. t \in Session /\ x = [t |-> t, h |-> x.h]
  BY DEF Ready, Sound
<1>2. /\ u \in Session /\ v \in Session /\ w \in Session
      /\ u.open = t.open /\ u.buffer = t.buffer /\ u.queue = t.queue
      /\ v.open = t.open /\ v.buffer = t.buffer /\ v.queue = t.queue
      /\ w.open = t.open /\ w.buffer = t.buffer /\ w.queue = t.queue
      /\ u.pings = t.pings /\ u.quiet = t.quiet /\ v.pings = t.pings /\ v.quiet = t.quiet
      /\ w.pings = 0 /\ w.quiet = 0
  BY <1>1, ZeroFits DEF Session
<1>3. y = x \/ y = [x EXCEPT !.t = u] \/ y = [x EXCEPT !.t = v] \/ y = [x EXCEPT !.t = w]
  BY DEF recvDataC
<1> HIDE DEF u, v, w
<1>4. /\ [x EXCEPT !.t = u] = [t |-> u, h |-> x.h]
      /\ [x EXCEPT !.t = v] = [t |-> v, h |-> x.h]
      /\ [x EXCEPT !.t = w] = [t |-> w, h |-> x.h]
  BY <1>1
<1>7. y = x \/ y = [t |-> u, h |-> x.h] \/ y = [t |-> v, h |-> x.h] \/ y = [t |-> w, h |-> x.h]
  BY <1>3, <1>4
<1>8. t.open = x.t.open /\ t.buffer = x.t.buffer /\ t.queue = x.t.queue
      /\ (Untouched(x.t, x.h) /\ t.open => t.pings = 0 /\ t.quiet = 0)
  BY DEF Untouched
<1> HIDE DEF t, u, v, w
<1>9. CASE y = x
  BY <1>9, FollowsMore
<1>10. CASE y = [t |-> u, h |-> x.h]
  BY <1>2, <1>8, <1>10, QueueLeft
<1>11. CASE y = [t |-> v, h |-> x.h]
  BY <1>2, <1>8, <1>11, QueueLeft
<1>12. CASE y = [t |-> w, h |-> x.h]
  BY <1>2, <1>8, <1>12, QueueLeft
<1> QED BY <1>7, <1>9, <1>10, <1>11, <1>12

\* The probe: an untouched session is not silent for long enough to be probed.
LEMMA ProbeFollows ==
    ASSUME NEW x, Ready(x), NEW y \in probeC(x) PROVE Follows(x, y)
<1> DEFINE p == x.t.pings + 1
           t == [x.t EXCEPT !.pings = p]
           u == [t EXCEPT !.error = TRUE]
           v == sendMessageC(t, "probe")
           w == [v EXCEPT !.canSend = TRUE]
<1>1. x.t \in Session /\ x = [t |-> x.t, h |-> x.h] /\ x.t.pings \in 0..Len(PingTimesC)
      /\ x.t.open \in BOOLEAN /\ x.t.queue \in Seq(Requests)
  BY SessionParts DEF Ready, Sound
<1>2. CASE y = x
  BY <1>2, FollowsMore
<1>3. CASE y # x
  <2>1. /\ ~(x.t.pings >= Len(PingTimesC))
        /\ ~(x.t.quiet < PingTimesC[p])
        /\ y = IF t.pings >= Len(PingTimesC) THEN [x EXCEPT !.t = u] ELSE [x EXCEPT !.t = w]
    BY <1>1, <1>3 DEF probeC
  <2>2. p \in 1..Len(PingTimesC)
    BY <1>1, <2>1, Times
  <2>3. p \in 0..Len(PingTimesC)
    BY <2>2
  <2>4. Untouched(x.t, x.h) => ~x.t.open
    <3> SUFFICES ASSUME x.t.open, x.t.pings = 0, x.t.quiet = 0 PROVE FALSE
      BY DEF Untouched
    <3> QED BY <2>1, Times
  <2> HIDE DEF p
  <2>5. /\ t \in Session /\ t.open = x.t.open /\ t.buffer = x.t.buffer
        /\ t.queue = x.t.queue /\ t.quiet = x.t.quiet
    BY <1>1, <2>3 DEF Session
  <2>6. /\ u \in Session /\ u.open = x.t.open /\ u.buffer = x.t.buffer
        /\ u.queue = x.t.queue
    BY <2>5 DEF Session
  <2> HIDE DEF t
  <2>7. /\ v \in Session /\ v.open = t.open /\ v.buffer = t.buffer
        /\ t.open /\ Fresh(t.queue) => Fresh(v.queue)
        /\ t.queue # <<>> => v.queue # <<>> /\ v.queue[1] = t.queue[1]
    BY <2>5, SentOn DEF Request
  <2> HIDE DEF u, v
  <2>8. /\ w \in Session /\ w.open = v.open /\ w.buffer = v.buffer /\ w.queue = v.queue
    BY <2>7 DEF Session
  <2> HIDE DEF w
  <2>9. CASE y = [x EXCEPT !.t = u]
    <3>1. y = [t |-> u, h |-> x.h]
      BY <1>1, <2>9
    <3>2. Untouched(x.t, x.h) /\ u.open => u.pings = 0 /\ u.quiet = 0
      BY <2>4, <2>6
    <3> QED BY <2>6, <3>1, <3>2, QueueLeft
  <2>10. CASE y = [x EXCEPT !.t = w]
    <3>1. y = [t |-> w, h |-> x.h]
      BY <1>1, <2>10
    <3>2. y.t = w /\ y.h = x.h
      BY <3>1
    <3>3. Sound(y.t, y.h)
      BY <2>5, <2>7, <2>8, <3>2 DEF Ready, Sound
    <3>4. LoginNext(x.t, x.h) => LoginNext(y.t, y.h)
      BY <2>5, <2>7, <2>8, <3>2 DEF LoginNext
    <3>5. Untouched(x.t, x.h) => Untouched(y.t, y.h)
      BY <2>4, <2>5, <2>7, <2>8, <3>2 DEF Untouched
    <3> QED BY <2>5, <2>7, <2>8, <3>1, <3>2, <3>3, <3>4, <3>5 DEF Follows
  <2> QED BY <2>1, <2>9, <2>10
<1> QED BY <1>2, <1>3

\* A queue that is sent up to its n-th request.
LEMMA QueueSplit ==
    ASSUME NEW q \in Seq(Requests), Fresh(q), NEW n \in 0..Len(q)
    PROVE  LET a == SubSeq(q, 1, n)
               b == SubSeq(q, n + 1, Len(q)) IN
           /\ a \in Seq(Requests) /\ b \in Seq(Requests) /\ Fresh(a) /\ Fresh(b)
           /\ n = 0 => a = <<>> /\ b = q
           /\ n # 0 => a # <<>> /\ a[1] = q[1]
<1> DEFINE a == SubSeq(q, 1, n)
           b == SubSeq(q, n + 1, Len(q))
           m == n + 1
<1>1. /\ Len(q) \in Nat /\ n \in Int /\ m \in Int /\ Len(q) \in Int /\ 1 \in Int
      /\ \A i \in 1..Len(q) : q[i] \in Requests /\ q[i].fresh
      /\ DOMAIN q = 1..Len(q)
  BY DEF Fresh
<1>2. /\ \A i \in 1..n : q[i] \in Requests /\ q[i].fresh
      /\ \A i \in m..Len(q) : q[i] \in Requests /\ q[i].fresh
  BY <1>1
<1>3. /\ a \in Seq(Requests) /\ Len(a) = (IF 1 <= n THEN n - 1 + 1 ELSE 0)
      /\ \A i \in 1..(n - 1 + 1) : a[i] = q[1 + i - 1]
  BY <1>1, <1>2, SubSeqProperties
<1>4. /\ b \in Seq(Requests) /\ Len(b) = (IF m <= Len(q) THEN Len(q) - m + 1 ELSE 0)
      /\ \A i \in 1..(Len(q) - m + 1) : b[i] = q[m + i - 1]
  <2> HIDE DEF m
  <2>1. LET c == SubSeq(q, m, Len(q)) IN
        /\ c \in Seq(Requests) /\ Len(c) = (IF m <= Len(q) THEN Len(q) - m + 1 ELSE 0)
        /\ \A i \in 1..(Len(q) - m + 1) : c[i] = q[m + i - 1]
    BY <1>1, <1>2, SubSeqProperties
  <2> QED BY <2>1 DEF m
<1>5. Fresh(a)
  <2> SUFFICES ASSUME NEW i \in DOMAIN a PROVE a[i].fresh
    BY DEF Fresh
  <2> HIDE DEF a
  <2>1. i \in 1..n /\ 1 + i - 1 = i /\ a[i] = q[1 + i - 1]
    BY <1>1, <1>3
  <2> QED BY <1>2, <2>1
<1>6. Fresh(b)
  <2> SUFFICES ASSUME NEW i \in DOMAIN b PROVE b[i].fresh
    BY DEF Fresh
  <2> HIDE DEF b, m
  <2>1. i \in 1..Len(b) /\ Len(b) \in Nat
    BY <1>4
  <2>2. m <= Len(q) /\ Len(b) = Len(q) - m + 1
    BY <1>1, <1>4, <2>1
  <2>3. i \in 1..(Len(q) - m + 1) /\ m + i - 1 \in m..Len(q)
    BY <1>1, <2>1, <2>2
  <2>4. b[i] = q[m + i - 1]
    BY <1>4, <2>3
  <2> QED BY <1>2, <2>3, <2>4
<1>7. n = 0 => a = <<>> /\ b = q
  <2> SUFFICES ASSUME n = 0 PROVE a = <<>> /\ b = q
    OBVIOUS
  <2>1. b = SubSeq(q, 1, Len(q)) /\ a = SubSeq(q, 1, 0)
    OBVIOUS
  <2> QED BY <2>1, SubSeqFull, SubSeqEmpty
<1>8. n # 0 => a # <<>> /\ a[1] = q[1]
  <2> HIDE DEF a
  <2> SUFFICES ASSUME n # 0 PROVE a # <<>> /\ a[1] = q[1]
    OBVIOUS
  <2>1. 1 \in 1..(n - 1 + 1) /\ 1 + 1 - 1 = 1 /\ Len(a) # 0
    BY <1>1, <1>3
  <2>2. a[1] = q[1 + 1 - 1]
    BY <1>3, <2>1
  <2> QED BY <1>3, <2>1, <2>2
<1> QED BY <1>3, <1>4, <1>5, <1>6, <1>7, <1>8

LEMMA SendFollows ==
    ASSUME NEW x, Ready(x), NEW y \in sendDataC(x) PROVE Follows(x, y)
<1> DEFINE q == x.t.queue
           u == [x.t EXCEPT !.error = TRUE]
<1>1. /\ x.t \in Session /\ x = [t |-> x.t, h |-> x.h] /\ q \in Seq(Requests)
      /\ x.h \in Hearing /\ ~x.h.stale /\ x.h.first \in {"none", "login"}
      /\ x.t.open => x.t.buffer /\ Fresh(q)
  BY SessionParts DEF Ready, Sound
<1>2. CASE y = x
  BY <1>2, FollowsMore
<1>3. CASE y = [x EXCEPT !.t = u]
  <2>1. /\ u \in Session /\ u.open = x.t.open /\ u.buffer = x.t.buffer /\ u.queue = x.t.queue
        /\ u.pings = x.t.pings /\ u.quiet = x.t.quiet
    BY <1>1 DEF Session
  <2>2. y = [t |-> u, h |-> x.h]
    <3> HIDE DEF u
    <3> QED BY <1>1, <1>3
  <2> HIDE DEF u, q
  <2>3. Untouched(x.t, x.h) /\ u.open => u.pings = 0 /\ u.quiet = 0
    BY <2>1 DEF Untouched
  <2> QED BY <2>1, <2>2, <2>3, QueueLeft
<1>4. ASSUME q # <<>>, x.t.open, NEW n \in 0..Len(q),
             y = [t |-> [x.t EXCEPT !.queue = SubSeq(q, n + 1, Len(q))],
                  h |-> Heard(x.h, SubSeq(q, 1, n))]
      PROVE  Follows(x, y)
  <2> DEFINE a == SubSeq(q, 1, n)
             b == SubSeq(q, n + 1, Len(q))
             v == [x.t EXCEPT !.queue = b]
             h == Heard(x.h, a)
  <2>1. y.t = v /\ y.h = h /\ y = [t |-> v, h |-> h]
    BY <1>4
  <2>2. ~Untouched(x.t, x.h) /\ (x.h.first = "none" => q[1].kind = "login")
    BY <1>4 DEF Ready, Untouched, LoginNext
  <2> HIDE DEF q
  <2>3. /\ a \in Seq(Requests) /\ b \in Seq(Requests) /\ Fresh(a) /\ Fresh(b)
        /\ n = 0 => a = <<>> /\ b = q
        /\ n # 0 => a # <<>> /\ a[1] = q[1]
    BY <1>1, <1>4, QueueSplit
  <2> HIDE DEF a, b
  <2>4. /\ v \in Session /\ v.open = x.t.open /\ v.buffer = x.t.buffer /\ v.queue = b
    BY <1>1, <2>3 DEF Session, Requests
  <2>5. x.h.first = "none" => a = <<>> \/ a[1].kind = "login"
    BY <2>2, <2>3
  <2>6. /\ h \in Hearing /\ ~h.stale /\ h.first \in {"none", "login"}
        /\ a = <<>> => h = x.h
        /\ a # <<>> => h.first = "login"
    BY <1>1, <2>3, <2>5, HeardKeeps
  <2> HIDE DEF v, h
  <2>7. Sound(v, h)
    BY <1>1, <2>3, <2>4, <2>6 DEF Sound
  <2>8. LoginNext(v, h)
    BY <1>4, <2>2, <2>3, <2>4, <2>6 DEF LoginNext, q
  <2> QED BY <2>1, <2>2, <2>4, <2>7, <2>8 DEF Follows
<1>5. \/ y = x
      \/ y = [x EXCEPT !.t = u]
      \/ /\ q # <<>> /\ x.t.open
         /\ \E n \in 0..Len(q) :
              y = [t |-> [x.t EXCEPT !.queue = SubSeq(q, n + 1, Len(q))],
                   h |-> Heard(x.h, SubSeq(q, 1, n))]
  <2> HIDE DEF u
  <2>1. CASE q = <<>>
    BY <2>1 DEF sendDataC, u
  <2>2. CASE q # <<>> /\ (~x.t.open \/ server.link = "closed")
    BY <2>2 DEF sendDataC, u
  <2>3. CASE q # <<>> /\ ~(~x.t.open \/ server.link = "closed")
    BY <2>3 DEF sendDataC
  <2> QED BY <2>1, <2>2, <2>3
<1> QED BY <1>2, <1>3, <1>4, <1>5

LEMMA SendIfFollows ==
    ASSUME NEW x, Ready(x), NEW y \in sendIf(x) PROVE Follows(x, y)
<1>1. CASE y = x
  BY <1>1, FollowsMore
<1>2. ASSUME NEW z \in sendDataC(x), y = [z EXCEPT !.t = [z.t EXCEPT !.canSend = FALSE]]
      PROVE  Follows(x, y)
  <2> DEFINE u == [z.t EXCEPT !.canSend = FALSE]
  <2>1. Follows(x, z) /\ Ready(z)
    BY SendFollows, FollowsMore
  <2>2. z.t \in Session /\ z = [t |-> z.t, h |-> z.h]
    BY <2>1 DEF Ready, Sound
  <2>3. /\ u \in Session /\ u.open = z.t.open /\ u.buffer = z.t.buffer /\ u.queue = z.t.queue
        /\ u.pings = z.t.pings /\ u.quiet = z.t.quiet
    BY <2>2 DEF Session
  <2> HIDE DEF u
  <2>4. y = [t |-> u, h |-> z.h]
    BY <1>2, <2>2 DEF u
  <2>5. Untouched(z.t, z.h) /\ u.open => u.pings = 0 /\ u.quiet = 0
    BY <2>3 DEF Untouched
  <2>6. Follows(z, y)
    BY <2>1, <2>3, <2>4, <2>5, QueueLeft
  <2> QED BY <2>1, <2>6, FollowsMore
<1> QED BY <1>1, <1>2 DEF sendIf

LEMMA RoutineFollows ==
    ASSUME NEW t, NEW h, Ready([t |-> t, h |-> h]), NEW y \in routine(t, h)
    PROVE  Follows([t |-> t, h |-> h], y)
<1> DEFINE x == [t |-> t, h |-> h]
<1>1. PICK a \in recvDataC(x) : \E b \in probeC(a) : \E c \in sendIf(b) :
         y \in IF c.t.error THEN sendDataC(c) ELSE {c}
  BY DEF routine
<1>2. PICK b \in probeC(a) : \E c \in sendIf(b) : y \in IF c.t.error THEN sendDataC(c) ELSE {c}
  BY <1>1
<1>3. PICK c \in sendIf(b) : y \in IF c.t.error THEN sendDataC(c) ELSE {c}
  BY <1>2
<1> HIDE DEF x
<1>4. Ready(x)
  BY DEF x
<1>5. Follows(x, a) /\ Ready(a)
  BY <1>4, RecvFollows, FollowsMore
<1>6. Follows(a, b) /\ Ready(b)
  BY <1>5, ProbeFollows, FollowsMore
<1>7. Follows(b, c) /\ Ready(c)
  BY <1>6, SendIfFollows, FollowsMore
<1>8. Follows(c, y)
  BY <1>3, <1>7, SendFollows, FollowsMore
<1>9. Follows(x, y)
  BY <1>5, <1>6, <1>7, <1>8, FollowsMore
<1> QED BY <1>9 DEF x

-----------------------------------------------------------------------------
(* Connecting and closing. *)

LEMMA ClosedClean ==
    ASSUME NEW t \in Session
    PROVE  /\ Closed(t) \in Session /\ ~Closed(t).open
           /\ Closed(t).queue = <<>> /\ Closed(t).pings = 0 /\ Closed(t).quiet = t.quiet
<1> DEFINE e == <<>>
<1>1. e \in Seq(Requests)
  OBVIOUS
<1>2. Closed(t) = [t EXCEPT !.open = FALSE, !.queue = e, !.pings = 0]
  BY DEF Closed
<1> HIDE DEF e
<1>3. /\ Closed(t) \in Session /\ ~Closed(t).open
      /\ Closed(t).queue = e /\ Closed(t).pings = 0 /\ Closed(t).quiet = t.quiet
  BY <1>1, <1>2, ZeroFits DEF Session, Requests
<1> QED BY <1>3 DEF e

LEMMA SilentFits == Silent \in Hearing /\ ~Silent.stale /\ Silent.first = "none"
BY DEF Silent, Hearing

\* Where a step of the client may leave the net, the session and what was heard.
Placed(x) ==
    /\ x.net \in {"wait", "connect", "disconnect"}
    /\ Sound(x.t, x.h) /\ LoginNext(x.t, x.h)
    /\ x.t.open => x.net = "connect"
    /\ x.net = "disconnect" => x.t.queue = <<>> /\ x.t.pings = 0

\* A session that is not open has nothing to say.
LEMMA ClosedPlaced ==
    ASSUME NEW t \in Session, ~t.open, NEW h, h \in Hearing, ~h.stale,
           h.first \in {"none", "login"}
    PROVE  Sound(t, h) /\ LoginNext(t, h) /\ Untouched(t, h)
BY DEF Sound, LoginNext, Untouched

LEMMA RunCFollows ==
    ASSUME NEW t, NEW h, Ready([t |-> t, h |-> h]), NEW r \in RunC(t, h)
    PROVE  /\ r.ok \in BOOLEAN /\ Sound(r.t, r.h)
           /\ r.ok => r.t.open = t.open
           /\ ~r.ok => ~r.t.open /\ r.t.queue = <<>> /\ r.t.pings = 0
           /\ LoginNext(t, h) => LoginNext(r.t, r.h)
           /\ Untouched(t, h) => Untouched(r.t, r.h)
<1>1. PICK y \in routine(t, h) :
         r = IF y.t.error THEN [t |-> Closed(y.t), h |-> y.h, ok |-> FALSE]
             ELSE [t |-> y.t, h |-> y.h, ok |-> TRUE]
  BY DEF RunC
<1> DEFINE x == [t |-> t, h |-> h]
<1>2. x.t = t /\ x.h = h
  OBVIOUS
<1>3. Follows(x, y)
  BY RoutineFollows
<1> HIDE DEF x
<1>4. /\ y.t.open = t.open /\ Sound(y.t, y.h)
      /\ LoginNext(t, h) => LoginNext(y.t, y.h)
      /\ Untouched(t, h) => Untouched(y.t, y.h)
  BY <1>2, <1>3 DEF Follows
<1>5. /\ y.t \in Session /\ y.h \in Hearing /\ ~y.h.stale /\ y.h.first \in {"none", "login"}
  BY <1>4 DEF Sound
<1>6. CASE y.t.error
  <2>1. r.t = Closed(y.t) /\ r.h = y.h /\ r.ok = FALSE
    BY <1>1, <1>6
  <2>2. /\ r.t \in Session /\ ~r.t.open /\ r.t.queue = <<>> /\ r.t.pings = 0
    BY <1>5, <2>1, ClosedClean
  <2>3. Sound(r.t, r.h) /\ LoginNext(r.t, r.h) /\ Untouched(r.t, r.h)
    BY <1>5, <2>1, <2>2, ClosedPlaced
  <2> QED BY <2>1, <2>2, <2>3
<1>7. CASE ~y.t.error
  <2>1. r.t = y.t /\ r.h = y.h /\ r.ok = TRUE
    BY <1>1, <1>7
  <2> QED BY <1>4, <2>1
<1> QED BY <1>6, <1>7

\* open of a session with an empty queue.
LEMMA OpenedUntouched ==
    ASSUME NEW t \in Session, t.queue = <<>>, t.pings = 0
    PROVE  Sound(OpenedC(t), Silent) /\ Untouched(OpenedC(t), Silent)
<1> DEFINE q == [i \in DOMAIN t.queue |-> [t.queue[i] EXCEPT !.fresh = FALSE]]
           u == OpenedC(t)
<1>1. q = <<>>
  <2>1. DOMAIN t.queue = {}
    OBVIOUS
  <2> QED BY <2>1
<1>2. u = [t EXCEPT !.open = TRUE, !.error = FALSE, !.canRecv = TRUE, !.canSend = TRUE,
                    !.buffer = TRUE, !.quiet = 0, !.queue = <<>>]
  BY <1>1 DEF OpenedC
<1>3. /\ u \in Session /\ u.buffer /\ u.queue = <<>> /\ u.quiet = 0 /\ u.pings = 0
  BY <1>2, ZeroFits DEF Session
<1> HIDE DEF u
<1> QED BY <1>3, SilentFits DEF Sound, Untouched, Fresh, u

\* DoConnect of a client whose session is closed and has nothing queued: a connection
\* that is open when run returns has heard nothing yet.
LEMMA DoConnectPlaced ==
    ASSUME NEW x, Sound(x.t, x.h), ~x.t.open, x.t.queue = <<>>, x.t.pings = 0,
           x = [net |-> x.net, t |-> x.t, h |-> x.h], NEW y \in DoConnect(x)
    PROVE  /\ y = [net |-> y.net, t |-> y.t, h |-> y.h]
           /\ y.net \in {"wait", "connect"} /\ Sound(y.t, y.h) /\ Untouched(y.t, y.h)
           /\ y.t.open => y.net = "connect"
<1> DEFINE z == IF server.up THEN [x EXCEPT !.t = OpenedC(x.t), !.h = Silent] ELSE x
<1>1. PICK r \in RunC(z.t, z.h) :
         y = [net |-> IF r.ok THEN "connect" ELSE "wait", t |-> r.t, h |-> r.h]
  BY DEF DoConnect
<1>2. /\ x.t \in Session /\ x.h \in Hearing /\ ~x.h.stale /\ x.h.first \in {"none", "login"}
  BY DEF Sound
<1>3. Sound(z.t, z.h) /\ Untouched(z.t, z.h)
  <2>1. CASE server.up
    <3>1. z.t = OpenedC(x.t) /\ z.h = Silent
      BY <2>1
    <3> QED BY <1>2, <3>1, OpenedUntouched
  <2>2. CASE ~server.up
    <3>1. z.t = x.t /\ z.h = x.h
      BY <2>2
    <3> QED BY <1>2, <3>1, ClosedPlaced
  <2> QED BY <2>1, <2>2
<1> HIDE DEF z
<1> DEFINE T == z.t
           H == z.h
<1>4. Ready([t |-> T, h |-> H])
  <2>1. [t |-> T, h |-> H].t = T /\ [t |-> T, h |-> H].h = H
    OBVIOUS
  <2> HIDE DEF T, H
  <2>2. Sound(T, H) /\ Untouched(T, H)
    BY <1>3 DEF T, H
  <2> QED BY <2>1, <2>2 DEF Ready
<1> HIDE DEF T, H
<1>5. r \in RunC(T, H) /\ Untouched(T, H)
  BY <1>1, <1>3 DEF T, H
<1>6. /\ r.ok \in BOOLEAN /\ Sound(r.t, r.h)
      /\ ~r.ok => ~r.t.open
      /\ Untouched(r.t, r.h)
  BY <1>4, <1>5, RunCFollows
<1>7. /\ y.net = (IF r.ok THEN "connect" ELSE "wait") /\ y.t = r.t /\ y.h = r.h
      /\ y = [net |-> y.net, t |-> y.t, h |-> y.h]
  BY <1>1
<1> QED BY <1>6, <1>7

LEMMA CloseServerPlaced ==
    ASSUME NEW x, x = [net |-> x.net, t |-> x.t, h |-> x.h],
           x.net \in {"wait", "connect", "disconnect"}, Sound(x.t, x.h)
    PROVE  LET y == CloseServer(x) IN
           /\ y = [net |-> y.net, t |-> y.t, h |-> y.h]
           /\ Placed(y) /\ ~y.t.open /\ y.t.queue = <<>> /\ y.t.pings = 0
           /\ y.net \in {"wait", "disconnect"}
<1> DEFINE y == CloseServer(x)
           c == Closed(x.t)
           n == IF x.net = "connect" THEN "disconnect" ELSE x.net
<1>1. /\ y.t = c /\ y.h = x.h /\ y.net = n
      /\ y = [net |-> y.net, t |-> y.t, h |-> y.h]
  <2>1. y = [x EXCEPT !.t = c, !.net = n]
    BY DEF CloseServer
  <2> HIDE DEF c, n
  <2>2. y = [net |-> n, t |-> c, h |-> x.h]
    BY <2>1
  <2> HIDE DEF y
  <2> QED BY <2>2
<1>2. /\ x.t \in Session /\ x.h \in Hearing /\ ~x.h.stale /\ x.h.first \in {"none", "login"}
  BY DEF Sound
<1> HIDE DEF y
<1>3. /\ y.t \in Session /\ ~y.t.open /\ y.t.queue = <<>> /\ y.t.pings = 0
  BY <1>1, <1>2, ClosedClean
<1>4. Sound(y.t, y.h) /\ LoginNext(y.t, y.h)
  BY <1>1, <1>2, <1>3, ClosedPlaced
<1>5. y.net \in {"wait", "disconnect"}
  BY <1>1
<1> QED BY <1>1, <1>3, <1>4, <1>5 DEF Placed, y

\* A try to connect starts from a closed session: either ConnectGameServer closes
\* it, or the client was disconnected and has nothing queued.
LEMMA ConnectPlaced ==
    ASSUME NEW x, x = [net |-> x.net, t |-> x.t, h |-> x.h], Placed(x),
           NEW y \in ConnectGameServer(x)
    PROVE  /\ y = [net |-> y.net, t |-> y.t, h |-> y.h]
           /\ y.net \in {"wait", "connect"} /\ Sound(y.t, y.h) /\ Untouched(y.t, y.h)
           /\ y.t.open => y.net = "connect"
<1>1. CASE x.net \in {"connect", "wait"}
  <2> DEFINE z == CloseServer(x)
  <2>1. /\ z = [net |-> z.net, t |-> z.t, h |-> z.h]
        /\ Placed(z) /\ ~z.t.open /\ z.t.queue = <<>> /\ z.t.pings = 0
    BY CloseServerPlaced DEF Placed
  <2>2. y \in DoConnect(z)
    BY <1>1 DEF ConnectGameServer
  <2> HIDE DEF z
  <2> QED BY <2>1, <2>2, DoConnectPlaced DEF Placed
<1>2. CASE x.net \notin {"connect", "wait"}
  <2>1. y \in DoConnect(x) /\ x.net = "disconnect"
    BY <1>2 DEF ConnectGameServer, Placed
  <2>2. ~x.t.open
    BY <2>1, SessionParts DEF Placed, Sound
  <2> QED BY <2>1, <2>2, DoConnectPlaced DEF Placed
<1> QED BY <1>1, <1>2

\* The login that is queued then is the first request of the new connection.
LEMMA LoginPlaced ==
    ASSUME NEW x, x = [net |-> x.net, t |-> x.t, h |-> x.h],
           x.net \in {"wait", "connect"}, Sound(x.t, x.h), Untouched(x.t, x.h),
           x.t.open => x.net = "connect"
    PROVE  Placed([x EXCEPT !.t = sendMessageC(@, "login")])
<1> DEFINE u == sendMessageC(x.t, "login")
           y == [x EXCEPT !.t = u]
<1>1. [x EXCEPT !.t = sendMessageC(@, "login")] = y
  OBVIOUS
<1>2. x.t \in Session /\ "login" \in Request
  BY DEF Sound, Request
<1>3. /\ u \in Session /\ u.open = x.t.open /\ u.buffer = x.t.buffer
      /\ x.t.open /\ Fresh(x.t.queue) => Fresh(u.queue)
      /\ x.t.buffer /\ x.t.queue = <<>> => u.queue # <<>> /\ u.queue[1].kind = "login"
  BY <1>2, SentOn
<1> HIDE DEF u
<1>4. y.net = x.net /\ y.t = u /\ y.h = x.h
  OBVIOUS
<1> HIDE DEF y
<1>5. Sound(y.t, y.h)
  BY <1>3, <1>4 DEF Sound
<1>6. LoginNext(y.t, y.h)
  BY <1>3, <1>4 DEF LoginNext, Untouched, Sound
<1>7. Placed(y)
  BY <1>3, <1>4, <1>5, <1>6 DEF Placed
<1> QED BY <1>1, <1>7

-----------------------------------------------------------------------------
(* The steps. *)

Retry == [since : 0..(LastWait + 1), wait : 1..Len(Waits), begun : BOOLEAN]

LEMMA PresentPlaced ==
    EditorIInv => /\ Placed(Present)
                  /\ Present = [net |-> Present.net, t |-> Present.t, h |-> Present.h]
                  /\ Present.t = session /\ Present.h = server.heard /\ Present.net = m_kNetState
                  /\ retry \in Retry
BY DEF EditorIInv, EditorTypeOK, Present, Placed, Retry

\* What every step that goes through UpdateConnectState comes to.
LEMMA BecomesKeeps ==
    ASSUME EditorIInv, NEW x, Placed(x), Becomes(x), retry' \in Retry
    PROVE  EditorIInv'
<1> DEFINE link == Link(x.t)
           heard == IF x.t.open THEN x.h ELSE Silent
<1>1. /\ m_kNetState' = x.net /\ session' = x.t /\ shown' = (x.net = "connect")
      /\ server' = [server EXCEPT !.link = link, !.heard = heard]
  BY DEF Becomes
<1>2. /\ x.t \in Session /\ x.h \in Hearing /\ server \in Server
  BY DEF Placed, Sound, EditorIInv
<1>3. link \in {"none", "up", "closed", "mute"} /\ heard \in Hearing
  BY <1>2, SilentFits DEF Link, Server
<1>4. Sound(x.t, heard) /\ LoginNext(x.t, heard)
  <2>1. CASE x.t.open
    BY <2>1 DEF Placed
  <2>2. CASE ~x.t.open
    BY <1>2, <2>2, ClosedPlaced, SilentFits
  <2> QED BY <2>1, <2>2
<1> HIDE DEF link, heard
<1>5. server' \in Server /\ server'.heard = heard
  BY <1>1, <1>2, <1>3 DEF Server
<1>6. EditorTypeOK'
  BY <1>1, <1>2 DEF EditorTypeOK, Placed, Retry
<1>7. (m_kNetState = "disconnect" => session.queue = <<>> /\ session.pings = 0)'
  BY <1>1 DEF Placed
<1>8. (Sound(session, server.heard) /\ LoginNext(session, server.heard))'
  BY <1>1, <1>4, <1>5
<1> QED BY <1>5, <1>6, <1>7, <1>8 DEF EditorIInv

LEMMA TriesKeep ==
    ASSUME EditorIInv, NEW x, x = [net |-> x.net, t |-> x.t, h |-> x.h], Placed(x),
           TriesFrom(x), retry' \in Retry
    PROVE  EditorIInv'
<1>1. PICK y \in ConnectGameServer(x) : Becomes([y EXCEPT !.t = sendMessageC(@, "login")])
  BY DEF TriesFrom
<1> DEFINE z == [y EXCEPT !.t = sendMessageC(@, "login")]
<1>2. Placed(z)
  BY ConnectPlaced, LoginPlaced
<1>3. Becomes(z)
  BY <1>1
<1> HIDE DEF z
<1> QED BY <1>2, <1>3, BecomesKeeps

\* The least of two numbers.
LEMMA LesserOfTwo ==
    ASSUME NEW a \in Nat, NEW b \in Nat
    PROVE  Min({a, b}) \in {a, b} /\ Min({a, b}) <= a /\ Min({a, b}) <= b
<1> DEFINE P(x) == x \in {a, b} /\ \A y \in {a, b} : x <= y
<1>1. \E x : P(x)
  <2>1. CASE a <= b
    BY <2>1
  <2>2. CASE ~(a <= b)
    BY <2>2
  <2> QED BY <2>1, <2>2
<1>2. Min({a, b}) = CHOOSE x : P(x)
  BY DEF Min
<1>3. P(CHOOSE x : P(x))
  BY <1>1, Zenon
<1>4. P(Min({a, b}))
  BY <1>2, <1>3
<1> QED BY <1>4

LEMMA WaitedFits == retry \in Retry => Waited \in 1..Len(Waits)
<1> SUFFICES ASSUME retry \in Retry PROVE Waited \in 1..Len(Waits)
  OBVIOUS
<1> DEFINE a == retry.wait + 1
           b == Len(Waits)
<1>1. a \in Nat /\ a >= 1 /\ b \in Nat /\ b >= 1
  BY Times DEF Retry
<1>2. Waited = IF m_kNetState = "disconnect" THEN 1 ELSE Min({a, b})
  BY DEF Waited
<1> HIDE DEF a, b
<1>3. Min({a, b}) \in 1..b
  BY <1>1, LesserOfTwo
<1> QED BY <1>1, <1>2, <1>3 DEF b

LEMMA LuaClientInitKeeps == EditorIInv /\ LuaClientInit => EditorIInv'
<1> SUFFICES ASSUME EditorIInv, LuaClientInit PROVE EditorIInv'
  OBVIOUS
<1>1. retry' \in Retry
  BY PresentPlaced DEF LuaClientInit, Retry
<1> QED BY <1>1, PresentPlaced, TriesKeep DEF LuaClientInit

LEMMA TickConnectedKeeps == EditorIInv /\ TickConnected => EditorIInv'
<1> SUFFICES ASSUME EditorIInv, TickConnected PROVE EditorIInv'
  OBVIOUS
<1> DEFINE h == server.heard
<1>1. PICK r \in RunC(session, h) :
        Becomes([net |-> IF r.ok THEN "connect" ELSE "disconnect", t |-> r.t, h |-> r.h])
  BY DEF TickConnected
<1> DEFINE x == [net |-> IF r.ok THEN "connect" ELSE "disconnect", t |-> r.t, h |-> r.h]
<1>2. Sound(session, h) /\ LoginNext(session, h)
  BY DEF EditorIInv
<1> HIDE DEF h
<1>3. Ready([t |-> session, h |-> h])
  BY <1>2 DEF Ready
<1>4. /\ r.ok \in BOOLEAN /\ Sound(r.t, r.h) /\ LoginNext(r.t, r.h)
      /\ ~r.ok => ~r.t.open /\ r.t.queue = <<>> /\ r.t.pings = 0
  BY <1>1, <1>2, <1>3, RunCFollows
<1>5. Placed(x)
  BY <1>4 DEF Placed
<1>6. retry' \in Retry
  BY PresentPlaced DEF TickConnected
<1>7. Becomes(x)
  BY <1>1
<1> HIDE DEF x
<1> QED BY <1>5, <1>6, <1>7, BecomesKeeps

LEMMA TickWaitsKeeps == EditorIInv /\ TickWaits => EditorIInv'
<1> SUFFICES ASSUME EditorIInv, TickWaits PROVE EditorIInv'
  OBVIOUS
<1>1. retry' \in Retry
  BY PresentPlaced, WaitedFits DEF TickWaits, Retry
<1> QED BY <1>1 DEF TickWaits, EditorIInv, EditorTypeOK, Retry

LEMMA TickTriesKeeps == EditorIInv /\ TickTries => EditorIInv'
<1> SUFFICES ASSUME EditorIInv, TickTries PROVE EditorIInv'
  OBVIOUS
<1> DEFINE n == Waited
<1>1. retry \in Retry /\ n \in 1..Len(Waits) /\ 0 \in 0..(LastWait + 1)
  BY PresentPlaced, WaitedFits, Times
<1>2. retry' = [retry EXCEPT !.wait = n, !.since = 0]
  BY DEF TickTries
<1> HIDE DEF n
<1>3. retry' \in Retry
  BY <1>1, <1>2 DEF Retry
<1> QED BY <1>3, PresentPlaced, TriesKeep DEF TickTries

LEMMA ConnectKeeps == EditorIInv /\ Connect => EditorIInv'
<1> SUFFICES ASSUME EditorIInv, Connect PROVE EditorIInv'
  OBVIOUS
<1> DEFINE x == CloseServer(Present)
<1>1. /\ x = [net |-> x.net, t |-> x.t, h |-> x.h] /\ Placed(x)
  BY PresentPlaced, CloseServerPlaced DEF Placed
<1>2. TriesFrom(x) /\ retry' \in Retry
  BY PresentPlaced DEF Connect
<1> HIDE DEF x
<1> QED BY <1>1, <1>2, TriesKeep

LEMMA DisConnectKeeps == EditorIInv /\ DisConnect => EditorIInv'
<1> SUFFICES ASSUME EditorIInv, DisConnect PROVE EditorIInv'
  OBVIOUS
<1> DEFINE x == CloseServer(Present)
<1>1. Placed(x)
  BY PresentPlaced, CloseServerPlaced DEF Placed
<1>2. Becomes(x) /\ retry' \in Retry
  BY PresentPlaced DEF DisConnect
<1> HIDE DEF x
<1> QED BY <1>1, <1>2, BecomesKeeps

\* A request is queued behind what is there already; while it is connected with an
\* open socket that is at least the login, or the server has heard it.
LEMMA GenKeeps == EditorIInv /\ Gen => EditorIInv'
<1> SUFFICES ASSUME EditorIInv, Gen PROVE EditorIInv'
  OBVIOUS
<1> DEFINE u == sendMessageC(session, "reload")
<1>1. session \in Session /\ "reload" \in Request /\ m_kNetState = "connect"
  BY DEF EditorIInv, EditorTypeOK, Request, Gen
<1>2. /\ u \in Session /\ u.open = session.open /\ u.buffer = session.buffer
      /\ session.open /\ Fresh(session.queue) => Fresh(u.queue)
      /\ session.queue # <<>> => u.queue # <<>> /\ u.queue[1] = session.queue[1]
  BY <1>1, SentOn
<1>3. session' = u /\ UNCHANGED <<m_kNetState, retry, shown, server>>
  BY DEF Gen
<1> HIDE DEF u
<1>4. Sound(u, server.heard) /\ LoginNext(u, server.heard)
  BY <1>2 DEF EditorIInv, Sound, LoginNext
<1> QED BY <1>1, <1>2, <1>3, <1>4 DEF EditorIInv, EditorTypeOK

\* A session of which only the flags and the time have changed.
LEMMA FlagsKeep ==
    ASSUME EditorIInv, NEW u \in Session, session' = u,
           u.open = session.open, u.buffer = session.buffer, u.queue = session.queue,
           u.pings = session.pings, retry' \in Retry, UNCHANGED <<m_kNetState, shown, server>>
    PROVE  EditorIInv'
<1>1. Sound(u, server.heard) /\ LoginNext(u, server.heard)
  BY DEF EditorIInv, Sound, LoginNext
<1> QED BY <1>1 DEF EditorIInv, EditorTypeOK, Retry

LEMMA SelectorTickKeeps == EditorIInv /\ SelectorTick => EditorIInv'
<1> SUFFICES ASSUME EditorIInv, SelectorTick PROVE EditorIInv'
  OBVIOUS
<1>1. session \in Session
  BY DEF EditorIInv, EditorTypeOK
<1>2. PICK r \in BOOLEAN, w \in BOOLEAN :
        session' = [session EXCEPT !.canRecv = @ \/ r, !.canSend = @ \/ w]
  BY DEF SelectorTick
<1> DEFINE a == session.canRecv \/ r
           b == session.canSend \/ w
           u == [session EXCEPT !.canRecv = a, !.canSend = b]
<1>3. a \in BOOLEAN /\ b \in BOOLEAN /\ session' = u
  BY <1>2
<1> HIDE DEF a, b
<1>4. /\ u \in Session /\ u.open = session.open /\ u.buffer = session.buffer
      /\ u.queue = session.queue /\ u.pings = session.pings
  BY <1>1, <1>3 DEF Session
<1>5. retry' \in Retry /\ UNCHANGED <<m_kNetState, shown, server>>
  BY PresentPlaced DEF SelectorTick
<1> HIDE DEF u
<1> QED BY <1>3, <1>4, <1>5, FlagsKeep

LEMMA ClockTickKeeps == EditorIInv /\ clockTick => EditorIInv'
<1> SUFFICES ASSUME EditorIInv, clockTick PROVE EditorIInv'
  OBVIOUS
<1>1. session \in Session /\ retry \in Retry
  BY PresentPlaced DEF EditorIInv, EditorTypeOK
<1> DEFINE q1 == session.quiet + 1
           r1 == retry.since + 1
           w1 == LastWait + 1
           q == Min({q1, LastPingC})
           r == Min({r1, w1})
           u == [session EXCEPT !.quiet = q]
<1>2. q1 \in Nat /\ r1 \in Nat /\ w1 \in Nat /\ LastPingC \in Nat
  BY <1>1, Times, SessionParts DEF Retry
<1>3. session' = u /\ retry' = [retry EXCEPT !.since = r]
      /\ UNCHANGED <<m_kNetState, shown, server>>
  BY DEF clockTick
<1> HIDE DEF q1, r1
<1>4. q \in 0..LastPingC
  BY <1>2, LesserOfTwo
<1> HIDE DEF w1
<1>5. r \in 0..w1
  BY <1>2, LesserOfTwo
<1> HIDE DEF q, r
<1>6. retry' \in Retry
  BY <1>1, <1>3, <1>5 DEF Retry, w1
<1>7. /\ u \in Session /\ u.open = session.open /\ u.buffer = session.buffer
      /\ u.queue = session.queue /\ u.pings = session.pings
  BY <1>1, <1>4 DEF Session
<1> HIDE DEF u
<1> QED BY <1>3, <1>6, <1>7, FlagsKeep

LEMMA ServerChangesKeeps == EditorIInv /\ ServerChanges => EditorIInv'
<1> SUFFICES ASSUME EditorIInv, ServerChanges PROVE EditorIInv'
  OBVIOUS
<1>1. server' \in Server /\ server'.heard = server.heard
  BY DEF EditorIInv, ServerChanges, Server
<1> QED BY <1>1 DEF ServerChanges, EditorIInv, EditorTypeOK

LEMMA EditorInitIInv == EditorInit => EditorIInv
<1> SUFFICES ASSUME EditorInit PROVE EditorIInv
  OBVIOUS
<1>1. session = NewSessionC /\ ~session.open
  BY DEF EditorInit, NewSessionC
<1>2. session \in Session
  <2>1. <<>> \in Seq(Requests) /\ LastPingC \in 0..LastPingC
    BY Times
  <2> QED BY <1>1, <2>1, ZeroFits DEF NewSessionC, Session, Requests
<1>3. server \in Server /\ server.heard = Silent
  BY SilentFits DEF EditorInit, Server
<1>4. Sound(session, server.heard) /\ LoginNext(session, server.heard)
  BY <1>1, <1>2, <1>3, ClosedPlaced, SilentFits
<1>5. retry \in Retry
  BY Times DEF EditorInit, Retry
<1> QED BY <1>1, <1>2, <1>3, <1>4, <1>5 DEF EditorInit, EditorIInv, EditorTypeOK, Retry

LEMMA EditorNextKeeps == EditorIInv /\ [EditorNext]_editorVars => EditorIInv'
<1> SUFFICES ASSUME EditorIInv, [EditorNext]_editorVars PROVE EditorIInv'
  OBVIOUS
<1>1. CASE LuaClientInit
  BY <1>1, LuaClientInitKeeps
<1>2. CASE TickConnected
  BY <1>2, TickConnectedKeeps
<1>3. CASE TickWaits
  BY <1>3, TickWaitsKeeps
<1>4. CASE TickTries
  BY <1>4, TickTriesKeeps
<1>5. CASE Connect
  BY <1>5, ConnectKeeps
<1>6. CASE DisConnect
  BY <1>6, DisConnectKeeps
<1>7. CASE Gen
  BY <1>7, GenKeeps
<1>8. CASE SelectorTick
  BY <1>8, SelectorTickKeeps
<1>9. CASE clockTick
  BY <1>9, ClockTickKeeps
<1>10. CASE ServerChanges
  BY <1>10, ServerChangesKeeps
<1>11. CASE UNCHANGED editorVars
  BY <1>11 DEF EditorIInv, EditorTypeOK, editorVars
<1> QED BY <1>1, <1>2, <1>3, <1>4, <1>5, <1>6, <1>7, <1>8, <1>9, <1>10, <1>11 DEF EditorNext

\* EditorHeard: for any waits, silences and room in the buffer, the first thing a
\* server hears on a connection is the login, nothing it hears was queued for an
\* earlier one, and a socket that is open is one the client knows of, however the
\* user connects and disconnects, the server stops and connections end
\* (LuaClient::ConnectGameServer, DoConnect, Tick; Session::routine).
THEOREM EditorHeard == EditorSpec => []ServerHears
<1>1. EditorInit => EditorIInv
  BY EditorInitIInv
<1>2. EditorIInv /\ [EditorNext]_editorVars => EditorIInv'
  BY EditorNextKeeps
<1>3. EditorIInv => ServerHears
  BY DEF EditorIInv, ServerHears, LoginFirst, NothingStale, Sound
<1> QED BY <1>1, <1>2, <1>3, PTL DEF EditorSpec
================================================================================
