-------------------------- MODULE SendStateProofs --------------------------
(***************************************************************************)
(* Proofs about SendState: the control buffer always has room; and, when   *)
(* messages with and without fds are not mixed, the peer sees whole        *)
(* messages with their fds, and a send that returned was written, for any  *)
(* number of futures, any sizes and however the kernel cuts the writes.    *)
(***************************************************************************)
EXTENDS SendState, SequenceTheorems, Induction, TLAPS

WireBytes == Futures \X Nat

-----------------------------------------------------------------------------
(* What is left to write                                                   *)

\* A RawOut that is not done has something to write.
LEMMA Sizes ==
  ASSUME NEW o \in Outs
  PROVE  /\ o \in [msg : Futures, written : Nat] /\ o.msg \in Futures /\ o.written \in Nat
         /\ Hdr[o.msg] \in Nat /\ Hdr[o.msg] > 0 /\ Body[o.msg] \in Nat
         /\ Size(o.msg) = Hdr[o.msg] + Body[o.msg] /\ Size(o.msg) \in Nat
         /\ o.written < Size(o.msg) /\ ToWrite(o) \in Nat /\ ToWrite(o) > 0
         /\ ToWrite(o) = Size(o.msg) - o.written
<1>1. o \in [msg : Futures, written : Nat] /\ o.written < Size(o.msg)
  BY DEF Outs
<1>2. o.msg \in Futures /\ o.written \in Nat
  BY <1>1
<1>3. Hdr[o.msg] \in Nat /\ Hdr[o.msg] > 0 /\ Body[o.msg] \in Nat
  BY <1>2, SendAssumption
<1>4. Size(o.msg) = Hdr[o.msg] + Body[o.msg] /\ ToWrite(o) = Size(o.msg) - o.written
  BY DEF Size, ToWrite
<1> QED BY <1>1, <1>2, <1>3, <1>4

\* The bytes of one RawOut
LEMMA LeftOfIs ==
  ASSUME NEW o \in Outs
  PROVE  /\ LeftOf(o) \in Seq(WireBytes) /\ Len(LeftOf(o)) = ToWrite(o) /\ LeftOf(o) # <<>>
         /\ \A j \in 1 .. ToWrite(o) : LeftOf(o)[j] = <<o.msg, o.written + j>>
<1> DEFINE l == ToWrite(o)
<1> DEFINE m == o.msg
<1> DEFINE k == o.written
<1>1. l \in Nat /\ l > 0 /\ m \in Futures /\ k \in Nat
  BY Sizes
<1> DEFINE s == LeftOf(o)
<1>2. s = [j \in 1 .. l |-> <<m, k + j>>]
  BY DEF LeftOf
<1> HIDE DEF l, m, k, s
<1>3. \A j \in 1 .. l : <<m, k + j>> \in WireBytes
  BY <1>1 DEF WireBytes
<1>4. s \in Seq(WireBytes) /\ Len(s) = l /\ \A j \in 1 .. l : s[j] = <<m, k + j>>
  <2>1. s \in [1 .. l -> WireBytes] /\ \A j \in 1 .. l : s[j] = <<m, k + j>>
    BY <1>2, <1>3
  <2> QED BY <1>1, <2>1, FunctionSeq
<1>5. s # <<>>
  BY <1>1, <1>4, EmptySeq
<1> QED BY <1>4, <1>5 DEF s, l, m, k

\* The bytes of the first i messages of a queue
LEMMA LeftStep ==
  ASSUME NEW q \in Seq(Outs)
  PROVE  /\ LeftUpTo(q, 0) = <<>>
         /\ \A i \in 0 .. Len(q) : LeftUpTo(q, i) \in Seq(WireBytes)
         /\ \A i \in 1 .. Len(q) : LeftUpTo(q, i) = LeftUpTo(q, i - 1) \o LeftOf(q[i])
<1>1. Len(q) \in Nat /\ \A k \in 1 .. Len(q) : LeftOf(q[k]) \in Seq(WireBytes)
  BY LenProperties, ElementOfSeq, LeftOfIs
<1> DEFINE s(i) == [k \in 1 .. i |-> LeftOf(q[k])]
<1>2. \A i \in 0 .. Len(q) : Len(s(i)) = i /\ \A k \in 1 .. i : s(i)[k] = LeftOf(q[k])
  BY <1>1
<1>3. \A i : LeftUpTo(q, i) = FlattenSeq(s(i))
  BY DEF LeftUpTo
<1>4. s(0) = <<>>
  OBVIOUS
<1> HIDE DEF s
<1>5. LeftUpTo(q, 0) = <<>>
  <2>1. Len(s(0)) = 0
    BY <1>1, <1>2
  <2> QED BY <1>3, <1>4, <2>1, FlattenEmpty
<1>6. ASSUME NEW i \in 0 .. Len(q) PROVE LeftUpTo(q, i) \in Seq(WireBytes)
  <2>1. CASE i = 0
    BY <1>5, <2>1, EmptySeq
  <2>2. CASE i # 0
    <3>1. Len(s(i)) = i /\ i \in Nat /\ \A k \in 1 .. i : s(i)[k] \in Seq(WireBytes)
      BY <1>1, <1>2
    <3> QED BY <1>3, <2>2, <3>1, FlattenType
  <2> QED BY <2>1, <2>2
<1>7. ASSUME NEW i \in 1 .. Len(q)
      PROVE  LeftUpTo(q, i) = LeftUpTo(q, i - 1) \o LeftOf(q[i])
  <2> DEFINE a == s(i - 1)
  <2> DEFINE b == s(i)
  <2>1. i - 1 \in 0 .. Len(q) /\ i \in 0 .. Len(q) /\ i - 1 \in Nat
    BY <1>1
  <2>2. Len(a) = i - 1 /\ Len(b) = i /\ \A k \in 1 .. i : b[k] = LeftOf(q[k])
    BY <1>2, <2>1
  <2>3. \A k \in 1 .. Len(a) : b[k] = a[k] /\ a[k] \in Seq(WireBytes)
    BY <1>1, <1>2, <2>1, <2>2
  <2>4. Len(a) = 0 => a = <<>>
    BY <1>4, <2>1, <2>2
  <2>5. b[Len(b)] = LeftOf(q[i]) /\ b[Len(b)] \in Seq(WireBytes) /\ Len(b) = Len(a) + 1
    BY <1>1, <2>1, <2>2
  <2> HIDE DEF a, b
  <2>6. FlattenSeq(b) = FlattenSeq(a) \o b[Len(b)]
    <3>1. Len(a) \in Nat
      BY <2>1, <2>2
    <3> QED BY <2>3, <2>4, <2>5, <3>1, FlattenAppend
  <2> QED BY <1>3, <2>5, <2>6 DEF a, b
<1> QED BY <1>5, <1>6, <1>7

\* One message more
LEMMA LeftAppend ==
  ASSUME NEW q \in Seq(Outs), NEW o \in Outs
  PROVE  /\ Append(q, o) \in Seq(Outs) /\ Len(Append(q, o)) = Len(q) + 1
         /\ Left(Append(q, o)) = Left(q) \o LeftOf(o)
<1> DEFINE r == Append(q, o)
<1>1. /\ r \in Seq(Outs) /\ Len(r) = Len(q) + 1 /\ r[Len(r)] = o /\ Len(q) \in Nat
      /\ \A k \in 1 .. Len(q) : r[k] = q[k]
  BY AppendProperties, LenProperties
<1> HIDE DEF r
<1>2. LeftUpTo(r, Len(r)) = LeftUpTo(r, Len(r) - 1) \o LeftOf(r[Len(r)])
  <2>1. Len(r) \in 1 .. Len(r)
    BY <1>1
  <2> QED BY <1>1, <2>1, LeftStep
<1>3. LeftUpTo(r, Len(r) - 1) = LeftUpTo(q, Len(q))
  <2>1. Len(r) - 1 = Len(q)
    BY <1>1
  <2>2. [k \in 1 .. Len(q) |-> LeftOf(r[k])] = [k \in 1 .. Len(q) |-> LeftOf(q[k])]
    BY <1>1
  <2> QED BY <2>1, <2>2 DEF LeftUpTo
<1> QED BY <1>1, <1>2, <1>3 DEF Left, r

\* The bytes of a whole queue
LEMMA LeftIs ==
  ASSUME NEW q \in Seq(Outs)
  PROVE  Left(q) \in Seq(WireBytes) /\ (q = <<>> => Left(q) = <<>>)
<1>1. Len(q) \in 0 .. Len(q) /\ (q = <<>> => Len(q) = 0)
  BY LenProperties, EmptySeq
<1> QED BY <1>1, LeftStep DEF Left

-----------------------------------------------------------------------------
(* update_written                                                          *)

UpdateAt(f, q, n0, i) == IF i = 0 THEN [queue |-> <<>>, left |-> n0] ELSE Advance(f[i - 1], q[i])

\* The loop of update_written: the recursive definition has a solution.
LEMMA UpdateRec ==
  ASSUME NEW q, Len(q) \in Nat, NEW n0
  PROVE  \E f : /\ f[0] = [queue |-> <<>>, left |-> n0]
                /\ \A i \in 1 .. Len(q) : f[i] = Advance(f[i - 1], q[i])
                /\ UpdateWritten(q, n0) = f[Len(q)]
<1> DEFINE n == Len(q)
<1> DEFINE S == {k \in 0 .. n : \E g : g = [i \in 0 .. k |-> UpdateAt(g, q, n0, i)]}
<1>1. 0 \in S
  <2> DEFINE g == [i \in 0 .. 0 |-> [queue |-> <<>>, left |-> n0]]
  <2>1. \A i \in 0 .. 0 : g[i] = UpdateAt(g, q, n0, i)
    BY DEF UpdateAt
  <2>2. g = [i \in 0 .. 0 |-> UpdateAt(g, q, n0, i)]
    BY <2>1
  <2> HIDE DEF g
  <2> QED BY <2>2
<1>2. \A k \in 0 .. n - 1 : k \in S => k + 1 \in S
  <2>1. SUFFICES ASSUME NEW k \in 0 .. n - 1, k \in S PROVE k + 1 \in S
    OBVIOUS
  <2>2. PICK g : g = [i \in 0 .. k |-> UpdateAt(g, q, n0, i)]
    BY <2>1
  <2> DEFINE v == Advance(g[k], q[k + 1])
  <2> HIDE DEF v
  <2> DEFINE h == [i \in 0 .. k + 1 |-> IF i = k + 1 THEN v ELSE g[i]]
  <2>3. ASSUME NEW i \in 0 .. k + 1 PROVE h[i] = UpdateAt(h, q, n0, i)
    <3>1. CASE i = k + 1
      <4>1. h[k] = g[k] /\ i # 0 /\ i - 1 = k /\ h[i] = v
        BY <3>1
      <4> QED BY <3>1, <4>1 DEF UpdateAt, v
    <3>2. CASE i # k + 1
      <4>1. i \in 0 .. k /\ h[i] = g[i] /\ (i # 0 => h[i - 1] = g[i - 1])
        BY <3>2
      <4>2. g[i] = UpdateAt(g, q, n0, i)
        BY <2>2, <4>1
      <4> QED BY <4>1, <4>2 DEF UpdateAt
    <3> QED BY <3>1, <3>2
  <2>4. h = [i \in 0 .. k + 1 |-> UpdateAt(h, q, n0, i)]
    BY <2>3
  <2> HIDE DEF h
  <2> QED BY <2>1, <2>4
<1>3. n \in S
  <2>1. n \in 0 .. n /\ n \in Nat
    OBVIOUS
  <2> HIDE DEF S, n
  <2> QED BY <1>1, <1>2, <2>1, ZeroInduction
<1> DEFINE f == CHOOSE g : g = [i \in 0 .. n |-> UpdateAt(g, q, n0, i)]
<1>4. f = [i \in 0 .. n |-> UpdateAt(f, q, n0, i)]
  <2>1. PICK g : g = [i \in 0 .. n |-> UpdateAt(g, q, n0, i)]
    BY <1>3
  <2> QED BY <2>1
<1>5. UpdateWritten(q, n0) = f[n]
  BY DEF UpdateWritten, UpdateAt
<1> HIDE DEF f
<1>6. \A i \in 0 .. n : f[i] = UpdateAt(f, q, n0, i)
  BY <1>4
<1>7. f[0] = [queue |-> <<>>, left |-> n0]
  <2>1. f[0] = UpdateAt(f, q, n0, 0)
    BY <1>6
  <2> QED BY <2>1 DEF UpdateAt
<1>8. ASSUME NEW i \in 1 .. n PROVE f[i] = Advance(f[i - 1], q[i])
  <2>1. f[i] = UpdateAt(f, q, n0, i) /\ i # 0
    BY <1>6
  <2> QED BY <2>1 DEF UpdateAt
<1> QED BY <1>5, <1>7, <1>8

\* advance, for a part n of what o has still to write
LEMMA Partly ==
  ASSUME NEW o \in Outs, NEW n \in Nat, n < ToWrite(o)
  PROVE  /\ [o EXCEPT !.written = @ + n] \in Outs
         /\ [o EXCEPT !.written = @ + n].msg = o.msg
         /\ [o EXCEPT !.written = @ + n].written = o.written + n
         /\ n = 0 => [o EXCEPT !.written = @ + n] = o
         /\ SubSeq(LeftOf(o), 1, n) \in Seq(WireBytes) /\ Len(SubSeq(LeftOf(o), 1, n)) = n
         /\ SubSeq(LeftOf(o), 1, n) \o LeftOf([o EXCEPT !.written = @ + n]) = LeftOf(o)
<1> DEFINE p == [o EXCEPT !.written = @ + n]
<1> DEFINE s == LeftOf(o)
<1> DEFINE l == ToWrite(o)
<1>1. /\ o \in [msg : Futures, written : Nat] /\ o.written \in Nat /\ Size(o.msg) \in Nat
      /\ l \in Nat /\ l = Size(o.msg) - o.written
  BY Sizes
<1>2. p \in [msg : Futures, written : Nat] /\ p.msg = o.msg /\ p.written = o.written + n
  BY <1>1
<1>3. n = 0 => p = o
  BY <1>1
<1> HIDE DEF p
<1>4. p \in Outs
  BY <1>1, <1>2 DEF Outs
<1>5. ToWrite(p) = l - n
  BY <1>1, <1>2 DEF ToWrite
<1>6. /\ s \in Seq(WireBytes) /\ Len(s) = l
      /\ \A j \in 1 .. l : s[j] = <<o.msg, o.written + j>>
  BY LeftOfIs
<1>7. /\ LeftOf(p) \in Seq(WireBytes) /\ Len(LeftOf(p)) = l - n
      /\ \A j \in 1 .. l - n : LeftOf(p)[j] = <<o.msg, (o.written + n) + j>>
  BY <1>2, <1>4, <1>5, LeftOfIs
<1> HIDE DEF s, l
<1> DEFINE a == SubSeq(s, 1, n)
<1> DEFINE b == SubSeq(s, n + 1, Len(s))
<1>8. a \in Seq(WireBytes) /\ b \in Seq(WireBytes) /\ Len(a) = n /\ Len(b) = l - n /\ a \o b = s
  <2>1. n \in 0 .. Len(s)
    BY <1>1, <1>6 DEF l
  <2> QED BY <1>6, <2>1, Cut
<1>9. b = LeftOf(p)
  <2>1. \A j \in 1 .. l - n : b[j] = s[n + j]
    BY <1>1, <1>6, SubSeqProperties DEF l
  <2>2. \A j \in 1 .. l - n : b[j] = LeftOf(p)[j]
    <3>1. SUFFICES ASSUME NEW j \in 1 .. l - n PROVE b[j] = LeftOf(p)[j]
      OBVIOUS
    <3>2. n + j \in 1 .. l /\ o.written + (n + j) = (o.written + n) + j
      BY <1>1
    <3>3. s[n + j] = <<o.msg, o.written + (n + j)>>
      BY <1>6, <3>2
    <3> QED BY <1>7, <2>1, <3>2, <3>3
  <2> HIDE DEF b
  <2> QED BY <1>7, <1>8, <2>2, SeqEqual
<1> QED BY <1>2, <1>3, <1>4, <1>8, <1>9 DEF p, s, l

Has(s, e) == \E j \in 1 .. Len(s) : s[j] = e

\* The front part p of the bytes of i messages is credited, the rest is left;
\* what has left the queue is sent to the last byte.
Taken(q, n, i, a, p) ==
  /\ p \o Left(a.queue) = LeftUpTo(q, i)
  /\ IF a.queue = <<>> THEN Len(p) + a.left = n ELSE Len(p) = n /\ a.left = 0
  /\ \A k \in 1 .. i - Len(a.queue) : Has(p, <<q[k].msg, Size(q[k].msg)>>)
Suffix(q, i, r) ==
  \A k \in 1 .. Len(r) : /\ r[k].msg = q[i - Len(r) + k].msg
                         /\ k > 1 => r[k] = q[i - Len(r) + k]
Credited(q, n, i, a) ==
  /\ a.queue \in Seq(Outs) /\ a.left \in Nat /\ Len(a.queue) \in 0 .. i /\ Suffix(q, i, a.queue)
  /\ \E p \in Seq(WireBytes) : Taken(q, n, i, a, p)

\* The last byte of a RawOut is among those it has still to write.
LEMMA LastByte ==
  ASSUME NEW o \in Outs
  PROVE  ToWrite(o) \in 1 .. ToWrite(o) /\ LeftOf(o)[ToWrite(o)] = <<o.msg, Size(o.msg)>>
<1>1. /\ ToWrite(o) \in Nat /\ ToWrite(o) > 0 /\ ToWrite(o) = Size(o.msg) - o.written
      /\ Size(o.msg) \in Nat /\ o.written \in Nat
  BY Sizes
<1>2. ToWrite(o) \in 1 .. ToWrite(o) /\ o.written + ToWrite(o) = Size(o.msg)
  BY <1>1
<1> QED BY <1>2, LeftOfIs

\* Elements of a concatenation
LEMMA InConcat ==
  ASSUME NEW S, NEW a \in Seq(S), NEW b \in Seq(S), NEW e
  PROVE  Has(a \o b, e) <=> Has(a, e) \/ Has(b, e)
<1> DEFINE la == Len(a)
<1> DEFINE lb == Len(b)
<1> DEFINE c == a \o b
<1>1. /\ la \in Nat /\ lb \in Nat /\ Len(c) = la + lb
      /\ \A i \in 1 .. la + lb : c[i] = IF i <= la THEN a[i] ELSE b[i - la]
  BY ConcatProperties, LenProperties
<1> HIDE DEF la, lb, c
<1>2. ASSUME NEW j \in 1 .. la, a[j] = e PROVE \E k \in 1 .. Len(c) : c[k] = e
  <2>1. j \in 1 .. la + lb /\ j <= la
    BY <1>1
  <2> QED BY <1>1, <1>2, <2>1
<1>3. ASSUME NEW j \in 1 .. lb, b[j] = e PROVE \E k \in 1 .. Len(c) : c[k] = e
  <2>1. la + j \in 1 .. la + lb /\ ~(la + j <= la) /\ (la + j) - la = j
    BY <1>1
  <2> QED BY <1>1, <1>3, <2>1
<1>4. ASSUME NEW k \in 1 .. Len(c), c[k] = e
      PROVE  (\E j \in 1 .. la : a[j] = e) \/ (\E j \in 1 .. lb : b[j] = e)
  <2>1. CASE k <= la
    <3>1. k \in 1 .. la
      BY <1>1, <2>1
    <3> QED BY <1>1, <1>4, <2>1, <3>1
  <2>2. CASE ~(k <= la)
    <3>1. k - la \in 1 .. lb
      BY <1>1, <2>2
    <3> QED BY <1>1, <1>4, <2>2, <3>1
  <2> QED BY <2>1, <2>2
<1> QED BY <1>2, <1>3, <1>4 DEF la, lb, c, Has

\* One more message of the queue
LEMMA AdvanceIs ==
  ASSUME NEW q \in Seq(Outs), NEW n \in Nat, NEW i \in 1 .. Len(q), NEW a,
         Credited(q, n, i - 1, a)
  PROVE  Credited(q, n, i, Advance(a, q[i]))
<1> DEFINE o == q[i]
<1> DEFINE Q == a.queue
<1> DEFINE l == a.left
<1> DEFINE L == LeftUpTo(q, i - 1)
<1> DEFINE u == Advance(a, q[i])
<1>1. o \in Outs /\ i \in Nat /\ i >= 1 /\ Len(q) \in Nat
  BY ElementOfSeq, LenProperties
<1>2. /\ Q \in Seq(Outs) /\ l \in Nat /\ Len(Q) \in 0 .. i - 1 /\ Len(Q) \in Nat
      /\ \A k \in 1 .. Len(Q) : /\ Q[k].msg = q[(i - 1) - Len(Q) + k].msg
                                /\ k > 1 => Q[k] = q[(i - 1) - Len(Q) + k]
  BY LenProperties DEF Credited, Suffix
<1>3. PICK p \in Seq(WireBytes) :
        /\ p \o Left(Q) = L
        /\ IF Q = <<>> THEN Len(p) + l = n ELSE Len(p) = n /\ l = 0
        /\ \A k \in 1 .. (i - 1) - Len(Q) : Has(p, <<q[k].msg, Size(q[k].msg)>>)
  BY DEF Credited, Taken
<1>4. LeftUpTo(q, i) = L \o LeftOf(o)
  BY LeftStep
<1>5. /\ ToWrite(o) \in Nat /\ ToWrite(o) > 0
      /\ LeftOf(o) \in Seq(WireBytes) /\ Len(LeftOf(o)) = ToWrite(o)
  BY <1>1, Sizes, LeftOfIs
<1>6. /\ u = IF l >= ToWrite(o) /\ Q = <<>> THEN [queue |-> <<>>, left |-> l - ToWrite(o)]
             ELSE [queue |-> Append(Q, [o EXCEPT !.written = @ + l]), left |-> 0]
  BY DEF Advance
<1>7. Left(Q) \in Seq(WireBytes) /\ (Q = <<>> => Left(Q) = <<>>) /\ Len(p) \in Nat
  BY <1>2, LeftIs, LenProperties
<1>8. <<>> \in Seq(Outs) /\ Len(<<>>) = 0 /\ Left(<<>>) = <<>>
  BY EmptySeq, LeftIs
<1> HIDE DEF u, L, o, Q, l
<1>9. CASE l >= ToWrite(o) /\ Q = <<>>
  <2>1. u.queue = <<>> /\ u.left = l - ToWrite(o)
    BY <1>6, <1>9
  <2>2. u.queue \in Seq(Outs) /\ Len(u.queue) = 0 /\ u.left \in Nat
    BY <1>2, <1>5, <1>8, <1>9, <2>1
  <2> DEFINE r == p \o LeftOf(o)
  <2>3. r \in Seq(WireBytes) /\ Len(r) = Len(p) + ToWrite(o)
    BY <1>5, ConcatProperties
  <2>4. r \o Left(u.queue) = LeftUpTo(q, i)
    <3>1. p = L
      BY <1>3, <1>7, <1>9, ConcatEmptySeq
    <3>2. r \o <<>> = r
      BY <2>3, ConcatEmptySeq
    <3> QED BY <1>4, <1>8, <2>1, <3>1, <3>2
  <2>5. Len(r) + u.left = n
    BY <1>2, <1>3, <1>5, <1>7, <1>9, <2>1, <2>3
  <2>6. ASSUME NEW k \in 1 .. i - Len(u.queue)
        PROVE  Has(r, <<q[k].msg, Size(q[k].msg)>>)
    <3>1. k = i \/ k \in 1 .. (i - 1) - Len(Q)
      BY <1>1, <1>8, <1>9, <2>2
    <3>2. CASE k = i
      <4>1. Has(LeftOf(o), <<o.msg, Size(o.msg)>>)
        BY <1>1, <1>5, LastByte DEF Has
      <4>2. Has(r, <<o.msg, Size(o.msg)>>)
        BY <1>5, <4>1, InConcat
      <4> QED BY <3>2, <4>2 DEF o
    <3>3. CASE k \in 1 .. (i - 1) - Len(Q)
      <4>1. Has(p, <<q[k].msg, Size(q[k].msg)>>)
        BY <1>3, <3>3
      <4> QED BY <1>5, <4>1, InConcat
    <3> QED BY <3>1, <3>2, <3>3
  <2> HIDE DEF r
  <2>7. Credited(q, n, i, u)
    <3>1. Taken(q, n, i, u, r)
      BY <2>1, <2>4, <2>5, <2>6 DEF Taken
    <3>2. Suffix(q, i, u.queue)
      <4>1. 1 .. Len(u.queue) = {}
        BY <2>2
      <4> QED BY <4>1 DEF Suffix
    <3>3. Len(u.queue) \in 0 .. i
      BY <1>1, <2>2
    <3> QED BY <2>2, <2>3, <3>1, <3>2, <3>3 DEF Credited
  <2> QED BY <2>7 DEF u, o
<1>10. CASE ~(l >= ToWrite(o) /\ Q = <<>>)
  <2> DEFINE z == [o EXCEPT !.written = @ + l]
  <2>1. u.queue = Append(Q, z) /\ u.left = 0
    BY <1>6, <1>10
  <2>2. l < ToWrite(o)
    BY <1>2, <1>3, <1>5, <1>10
  <2> DEFINE f == SubSeq(LeftOf(o), 1, l)
  <2>3. /\ z \in Outs /\ z.msg = o.msg /\ (l = 0 => z = o)
        /\ f \in Seq(WireBytes) /\ Len(f) = l /\ f \o LeftOf(z) = LeftOf(o)
    BY <1>1, <1>2, <2>2, Partly
  <2> HIDE DEF z, f
  <2>4. /\ u.queue \in Seq(Outs) /\ Len(u.queue) = Len(Q) + 1
        /\ Left(u.queue) = Left(Q) \o LeftOf(z)
        /\ u.queue[Len(Q) + 1] = z /\ \A k \in 1 .. Len(Q) : u.queue[k] = Q[k]
    <3>1. /\ Append(Q, z) \in Seq(Outs) /\ Len(Append(Q, z)) = Len(Q) + 1
          /\ Left(Append(Q, z)) = Left(Q) \o LeftOf(z)
      BY <1>2, <2>3, LeftAppend
    <3>2. Append(Q, z)[Len(Q) + 1] = z /\ \A k \in 1 .. Len(Q) : Append(Q, z)[k] = Q[k]
      BY <1>2, <2>3, AppendProperties
    <3> QED BY <2>1, <3>1, <3>2
  <2>5. Len(u.queue) \in 0 .. i /\ u.queue # <<>>
    BY <1>1, <1>2, <2>4, EmptySeq
  <2>6. ASSUME NEW k \in 1 .. Len(u.queue)
        PROVE  /\ u.queue[k].msg = q[i - Len(u.queue) + k].msg
               /\ k > 1 => u.queue[k] = q[i - Len(u.queue) + k]
    <3>1. i - Len(u.queue) + k = (i - 1) - Len(Q) + k
      BY <1>1, <1>2, <2>4
    <3>2. CASE k = Len(Q) + 1
      <4>1. i - Len(u.queue) + k = i
        BY <1>1, <1>2, <2>4, <3>2
      <4>2. k > 1 => l = 0
        <5>1. k > 1 => Q # <<>>
          BY <1>8, <3>2
        <5> QED BY <1>3, <5>1
      <4> QED BY <2>3, <2>4, <3>2, <4>1, <4>2 DEF o
    <3>3. CASE k # Len(Q) + 1
      <4>1. k \in 1 .. Len(Q)
        BY <1>2, <2>4, <3>3
      <4> QED BY <1>2, <2>4, <3>1, <4>1
    <3> QED BY <3>2, <3>3
  <2> DEFINE r == IF Q = <<>> THEN p \o f ELSE p
  <2>7. r \in Seq(WireBytes) /\ Len(r) = n
    <3>1. p \o f \in Seq(WireBytes) /\ Len(p \o f) = Len(p) + l
      BY <2>3, ConcatProperties
    <3> QED BY <1>3, <3>1
  <2>8. r \o Left(u.queue) = LeftUpTo(q, i)
    <3> DEFINE x == LeftOf(z)
    <3> DEFINE y == Left(Q)
    <3>1. x \in Seq(WireBytes) /\ y \in Seq(WireBytes)
      BY <1>7, <2>3, LeftOfIs
    <3>2. CASE Q = <<>>
      <4>1. Left(u.queue) = x
        BY <1>7, <2>4, <3>1, <3>2, ConcatEmptySeq
      <4>2. p = L
        BY <1>3, <1>7, <3>2, ConcatEmptySeq
      <4> HIDE DEF x
      <4>3. (p \o f) \o x = p \o (f \o x)
        <5>1. f \in Seq(WireBytes)
          BY <2>3
        <5>2. x \in Seq(WireBytes)
          BY <3>1
        <5> HIDE DEF r, y
        <5> QED BY <5>1, <5>2, Regroup, SMTT(40)
      <4> QED BY <1>4, <2>3, <3>2, <4>1, <4>2, <4>3 DEF x
    <3>3. CASE Q # <<>>
      <4>1. z = o
        BY <1>3, <2>3, <3>3
      <4> HIDE DEF x, y
      <4>2. (p \o y) \o x = p \o (y \o x)
        BY <3>1, Regroup, SMTT(40)
      <4> QED BY <1>3, <1>4, <2>4, <3>3, <4>1, <4>2 DEF x, y
    <3> QED BY <3>2, <3>3
  <2>9. ASSUME NEW k \in 1 .. i - Len(u.queue)
        PROVE  Has(r, <<q[k].msg, Size(q[k].msg)>>)
    <3>1. k \in 1 .. (i - 1) - Len(Q)
      BY <1>1, <1>2, <2>4
    <3>2. Has(p, <<q[k].msg, Size(q[k].msg)>>)
      BY <1>3, <3>1
    <3>3. Has(p \o f, <<q[k].msg, Size(q[k].msg)>>)
      BY <2>3, <3>2, InConcat
    <3> QED BY <3>2, <3>3
  <2> HIDE DEF r
  <2>10. Credited(q, n, i, u)
    <3>1. Taken(q, n, i, u, r)
      BY <2>1, <2>5, <2>7, <2>8, <2>9 DEF Taken
    <3>2. Suffix(q, i, u.queue)
      BY <2>6 DEF Suffix
    <3>3. u.left \in Nat
      BY <2>1
    <3> QED BY <2>4, <2>5, <2>7, <3>1, <3>2, <3>3 DEF Credited
  <2> QED BY <2>10 DEF u, o
<1> QED BY <1>9, <1>10

\* update_written credits the written bytes to the messages in front.
LEMMA UpdateIs ==
  ASSUME NEW q \in Seq(Outs), NEW n \in Nat
  PROVE  Credited(q, n, Len(q), UpdateWritten(q, n))
<1>1. Len(q) \in Nat
  BY LenProperties
<1>2. PICK f : /\ f[0] = [queue |-> <<>>, left |-> n]
               /\ \A i \in 1 .. Len(q) : f[i] = Advance(f[i - 1], q[i])
               /\ UpdateWritten(q, n) = f[Len(q)]
  BY <1>1, UpdateRec
<1> DEFINE S == {i \in 0 .. Len(q) : Credited(q, n, i, f[i])}
<1>3. 0 \in S
  <2>1. f[0].queue = <<>> /\ f[0].left = n
    BY <1>2
  <2>2. <<>> \in Seq(Outs) /\ <<>> \in Seq(WireBytes) /\ Len(<<>>) = 0 /\ Left(<<>>) = <<>>
    BY EmptySeq, LeftIs
  <2>3. LeftUpTo(q, 0) = <<>> /\ <<>> \o <<>> = <<>>
    BY <2>2, LeftStep, ConcatEmptySeq
  <2>4. 1 .. 0 = {} /\ 0 - 0 = 0 /\ 0 \in 0 .. 0 /\ 0 + n = n
    OBVIOUS
  <2>5. Credited(q, n, 0, f[0])
    <3>1. Taken(q, n, 0, f[0], <<>>)
      BY <2>1, <2>2, <2>3, <2>4 DEF Taken
    <3>2. Suffix(q, 0, f[0].queue)
      BY <2>1, <2>2, <2>4 DEF Suffix
    <3> QED BY <2>1, <2>2, <2>4, <3>1, <3>2 DEF Credited
  <2> QED BY <1>1, <2>5
<1>4. \A i \in 0 .. Len(q) - 1 : i \in S => i + 1 \in S
  <2>1. SUFFICES ASSUME NEW i \in 0 .. Len(q) - 1, i \in S PROVE i + 1 \in S
    OBVIOUS
  <2>2. i + 1 \in 1 .. Len(q) /\ i + 1 \in 0 .. Len(q) /\ (i + 1) - 1 = i
    BY <1>1
  <2>3. f[i + 1] = Advance(f[i], q[i + 1]) /\ Credited(q, n, i, f[i])
    BY <1>2, <2>1, <2>2
  <2>4. Credited(q, n, i + 1, Advance(f[i], q[i + 1]))
    BY <2>2, <2>3, AdvanceIs
  <2> QED BY <2>2, <2>3, <2>4
<1>5. Len(q) \in S
  <2>1. Len(q) \in 0 .. Len(q)
    BY <1>1
  <2> HIDE DEF S
  <2> QED BY <1>1, <1>3, <1>4, <2>1, ZeroInduction
<1> QED BY <1>2, <1>5

-----------------------------------------------------------------------------
(* populate                                                                *)

\* The io-slices of a RawOut
Slices == {io \in Futures \X Nat \X Nat : io[2] >= 1}

\* The bytes of a slice
LEMMA SliceIs ==
  ASSUME NEW m \in Futures, NEW a \in Nat, NEW b \in Nat, a <= b
  PROVE  /\ <<m, a + 1, b>> \in Slices
         /\ Slice(<<m, a + 1, b>>) \in Seq(WireBytes) /\ Len(Slice(<<m, a + 1, b>>)) = b - a
         /\ \A j \in 1 .. b - a : Slice(<<m, a + 1, b>>)[j] = <<m, a + j>>
<1> DEFINE io == <<m, a + 1, b>>
<1> DEFINE s == Slice(io)
<1>1. io \in Slices
  BY DEF Slices
<1>2. s = [j \in 1 .. b - a |-> <<m, a + j>>]
  <2>1. io[1] = m /\ io[2] = a + 1 /\ io[3] = b
    OBVIOUS
  <2> HIDE DEF io
  <2>2. s = [j \in 1 .. b - (a + 1) + 1 |-> <<m, (a + 1) + j - 1>>]
    BY <2>1 DEF Slice
  <2>3. b - (a + 1) + 1 = b - a /\ \A j \in 1 .. b - a : (a + 1) + j - 1 = a + j
    OBVIOUS
  <2> QED BY <2>2, <2>3
<1> HIDE DEF s
<1>3. b - a \in Nat /\ \A j \in 1 .. b - a : <<m, a + j>> \in WireBytes
  BY DEF WireBytes
<1>4. s \in [1 .. b - a -> WireBytes] /\ \A j \in 1 .. b - a : s[j] = <<m, a + j>>
  BY <1>2, <1>3
<1>5. s \in Seq(WireBytes) /\ Len(s) = b - a
  <2> DEFINE n == b - a
  <2>1. n \in Nat /\ s \in [1 .. n -> WireBytes]
    BY <1>3, <1>4
  <2> HIDE DEF n
  <2>2. s \in Seq(WireBytes) /\ Len(s) = n
    BY <2>1, FunctionSeq
  <2> QED BY <2>2 DEF n
<1> QED BY <1>1, <1>4, <1>5 DEF s

\* A slice of any kind is a sequence of bytes.
LEMMA SliceType ==
  ASSUME NEW io \in Slices
  PROVE  Slice(io) \in Seq(WireBytes)
<1> DEFINE n == IF io[3] - io[2] + 1 >= 0 THEN io[3] - io[2] + 1 ELSE 0
<1>1. io[1] \in Futures /\ io[2] \in Nat /\ io[2] >= 1 /\ io[3] \in Nat /\ n \in Nat
  BY DEF Slices
<1>2. 1 .. io[3] - io[2] + 1 = 1 .. n
  BY <1>1
<1>3. \A j \in 1 .. n : <<io[1], io[2] + j - 1>> \in WireBytes
  BY <1>1 DEF WireBytes
<1> HIDE DEF n
<1>4. Slice(io) = [j \in 1 .. n |-> <<io[1], io[2] + j - 1>>]
  BY <1>2 DEF Slice
<1>5. Slice(io) \in [1 .. n -> WireBytes]
  BY <1>3, <1>4
<1> QED BY <1>1, <1>5, FunctionSeq

\* One slice more
LEMMA BytesAppend ==
  ASSUME NEW ios \in Seq(Slices), NEW io \in Slices
  PROVE  /\ Bytes(ios) \in Seq(WireBytes) /\ (ios = <<>> => Bytes(ios) = <<>>)
         /\ Bytes(Append(ios, io)) = Bytes(ios) \o Slice(io)
<1> DEFINE r == Append(ios, io)
<1> DEFINE s == [i \in 1 .. Len(ios) |-> Slice(ios[i])]
<1> DEFINE t == [i \in 1 .. Len(r) |-> Slice(r[i])]
<1>1. /\ r \in Seq(Slices) /\ Len(r) = Len(ios) + 1 /\ r[Len(r)] = io /\ Len(ios) \in Nat
      /\ \A k \in 1 .. Len(ios) : r[k] = ios[k]
  BY AppendProperties, LenProperties
<1> HIDE DEF r
<1>2. \A k \in 1 .. Len(ios) : Slice(ios[k]) \in Seq(WireBytes)
  BY ElementOfSeq, SliceType
<1>3. Slice(io) \in Seq(WireBytes)
  BY SliceType
<1>4. Len(s) = Len(ios) /\ \A k \in 1 .. Len(ios) : s[k] = Slice(ios[k])
  BY <1>1
<1>5. Len(t) = Len(ios) + 1 /\ \A k \in 1 .. Len(ios) + 1 : t[k] = Slice(r[k])
  BY <1>1
<1>6. Len(ios) = 0 => s = <<>>
  OBVIOUS
<1>7. Bytes(ios) = FlattenSeq(s) /\ Bytes(r) = FlattenSeq(t)
  BY DEF Bytes
<1> HIDE DEF s, t
<1>8. Bytes(ios) \in Seq(WireBytes) /\ (ios = <<>> => Bytes(ios) = <<>>)
  <2>1. CASE Len(ios) = 0
    <3>1. Bytes(ios) = <<>>
      BY <1>4, <1>6, <1>7, <2>1, FlattenEmpty
    <3> QED BY <3>1, EmptySeq
  <2>2. CASE Len(ios) # 0
    <3>1. Bytes(ios) \in Seq(WireBytes)
      BY <1>1, <1>2, <1>4, <1>7, <2>2, FlattenType
    <3>2. ios # <<>>
      BY <2>2, EmptySeq
    <3> QED BY <3>1, <3>2
  <2> QED BY <2>1, <2>2
<1>9. FlattenSeq(t) = FlattenSeq(s) \o t[Len(t)]
  <2>1. Len(s) \in Nat /\ Len(t) = Len(s) + 1 /\ (Len(s) = 0 => s = <<>>)
    BY <1>1, <1>4, <1>5, <1>6
  <2>2. \A k \in 1 .. Len(s) : t[k] = s[k] /\ s[k] \in Seq(WireBytes)
    BY <1>1, <1>2, <1>4, <1>5
  <2>3. t[Len(t)] \in Seq(WireBytes)
    BY <1>1, <1>3, <1>5
  <2> QED BY <2>1, <2>2, <2>3, FlattenAppend
<1>10. t[Len(t)] = Slice(io)
  BY <1>1, <1>5
<1> QED BY <1>7, <1>8, <1>9, <1>10 DEF r

\* What a RawOut adds to a write: its bytes from the first that is left on, all of
\* them unless there is no more room.
Pushed(ios, o, cap, new, r, s) ==
  /\ new \in Seq(Slices) /\ new # <<>> /\ Len(new) <= cap
  /\ r \in Seq(WireBytes) /\ r # <<>> /\ s \in Seq(WireBytes)
  /\ Bytes(new) = Bytes(ios) \o r /\ r \o s = LeftOf(o)
  /\ Len(new) < cap => s = <<>>

\* Two elements
LEMMA Pair ==
  ASSUME NEW S, NEW a \in S, NEW b \in S
  PROVE  <<a>> \in Seq(S) /\ <<b>> \in Seq(S) /\ <<a>> \o <<b>> = <<a, b>>
<1>1. <<a>> \in Seq(S) /\ <<b>> \in Seq(S)
  OBVIOUS
<1> DEFINE x == <<a>>
<1> DEFINE y == <<a, b>>
<1> DEFINE c == Append(x, b)
<1>2. c = x \o <<b>>
  BY <1>1, AppendIsConcat
<1>3. x \in Seq(S) /\ Len(x) = 1 /\ x[1] = a
  OBVIOUS
<1>4. y \in Seq(S) /\ Len(y) = 2 /\ y[1] = a /\ y[2] = b
  OBVIOUS
<1> HIDE DEF x, y
<1>5. c \in Seq(S) /\ Len(c) = 2 /\ c[1] = a /\ c[2] = b
  <2>1. c \in Seq(S) /\ Len(c) = Len(x) + 1
    BY <1>3, AppendProperties, ZenonT(60)
  <2>2. c[Len(x) + 1] = b
    BY <1>3, AppendProperties, SMTT(40)
  <2>3. \A i \in 1 .. Len(x) : c[i] = x[i]
    BY <1>3
  <2>4. 1 + 1 = 2 /\ 1 \in 1 .. 1
    OBVIOUS
  <2> HIDE DEF c
  <2> QED BY <1>3, <2>1, <2>2, <2>3, <2>4
<1> HIDE DEF c
<1>6. c = y
  <2>1. \A i \in 1 .. Len(c) : c[i] = y[i]
    BY <1>4, <1>5
  <2> QED BY <1>4, <1>5, <2>1, SeqEqual
<1> QED BY <1>1, <1>2, <1>6 DEF x, y

\* As far as they fit: one slice always does,
LEMMA PushOne ==
  ASSUME NEW ios \in Seq(Slices), NEW io \in Slices, NEW cap \in Nat, Len(ios) < cap, NEW o,
         BufsLeft(o) = <<io>>
  PROVE  PushBufs(ios, o, cap) = Append(ios, io)
<1> DEFINE r == Append(ios, io)
<1>1. r \in Seq(Slices) /\ Len(r) = Len(ios) + 1 /\ Len(ios) \in Nat
  BY AppendProperties, LenProperties
<1>2. ios \o <<io>> = r
  BY AppendIsConcat
<1> HIDE DEF r
<1>3. PushBufs(ios, o, cap) = SubSeq(r, 1, IF Len(r) < cap THEN Len(r) ELSE cap)
  BY <1>2 DEF PushBufs
<1>4. (IF Len(r) < cap THEN Len(r) ELSE cap) = Len(r)
  BY <1>1
<1>5. SubSeq(r, 1, Len(r)) = r
  BY <1>1, SubSeqFull
<1> QED BY <1>3, <1>4, <1>5 DEF r

\* and a second one if there is room.
LEMMA PushTwo ==
  ASSUME NEW ios \in Seq(Slices), NEW a \in Slices, NEW b \in Slices, NEW cap \in Nat,
         Len(ios) < cap, NEW o, BufsLeft(o) = <<a, b>>
  PROVE  PushBufs(ios, o, cap) =
           IF Len(ios) + 1 < cap THEN Append(Append(ios, a), b) ELSE Append(ios, a)
<1> DEFINE c == Append(ios, a)
<1> DEFINE r == Append(c, b)
<1>1. c \in Seq(Slices) /\ Len(c) = Len(ios) + 1 /\ Len(ios) \in Nat
  BY AppendProperties, LenProperties
<1>2. c = ios \o <<a>>
  BY AppendIsConcat
<1>3. ios \o <<a, b>> = r
  <2> HIDE DEF c, r
  <2>1. <<a>> \in Seq(Slices) /\ <<b>> \in Seq(Slices) /\ <<a>> \o <<b>> = <<a, b>>
    BY Pair
  <2>2. r = c \o <<b>>
    BY <1>1, AppendIsConcat DEF r
  <2>3. (ios \o <<a>>) \o <<b>> = ios \o (<<a>> \o <<b>>)
    <3> DEFINE x == <<a>>
    <3> DEFINE y == <<b>>
    <3>1. x \in Seq(Slices) /\ y \in Seq(Slices)
      BY <2>1
    <3> HIDE DEF x, y
    <3>2. (ios \o x) \o y = ios \o (x \o y)
      BY <3>1, Regroup
    <3> QED BY <3>2 DEF x, y
  <2> QED BY <1>2, <2>1, <2>2, <2>3
<1> HIDE DEF c
<1>4. /\ r \in Seq(Slices) /\ Len(r) = Len(ios) + 2
      /\ \A k \in 1 .. Len(c) : r[k] = c[k]
  <2>1. r \in Seq(Slices) /\ Len(r) = Len(c) + 1 /\ \A k \in 1 .. Len(c) : r[k] = c[k]
    BY <1>1, AppendProperties
  <2> QED BY <1>1, <2>1
<1> HIDE DEF r
<1>5. PushBufs(ios, o, cap) = SubSeq(r, 1, IF Len(r) < cap THEN Len(r) ELSE cap)
  BY <1>3 DEF PushBufs
<1>6. CASE Len(ios) + 1 < cap
  <2>1. (IF Len(r) < cap THEN Len(r) ELSE cap) = Len(r)
    BY <1>1, <1>4, <1>6
  <2>2. SubSeq(r, 1, Len(r)) = r
    BY <1>4, SubSeqFull
  <2> QED BY <1>5, <1>6, <2>1, <2>2 DEF r, c
<1>7. CASE ~(Len(ios) + 1 < cap)
  <2>1. (IF Len(r) < cap THEN Len(r) ELSE cap) = Len(c)
    BY <1>1, <1>4, <1>7
  <2> DEFINE d == SubSeq(r, 1, Len(c))
  <2>2. Len(c) \in 0 .. Len(r) /\ Len(c) \in Int /\ 1 \in Int
    BY <1>1, <1>4
  <2>3. d \in Seq(Slices) /\ Len(d) = Len(c)
    BY <1>4, <2>2, Cut
  <2>4. \A k \in 1 .. Len(c) : d[k] = c[k]
    <3>1. \A k \in 1 .. Len(c) : r[k] \in Slices
      BY <1>1, <1>4, ElementOfSeq
    <3>2. \A k \in 1 .. Len(c) - 1 + 1 : d[k] = r[1 + k - 1]
      BY <2>2, <3>1, SubSeqProperties
    <3>3. ASSUME NEW k \in 1 .. Len(c) PROVE d[k] = c[k]
      <4>1. k \in 1 .. Len(c) - 1 + 1 /\ 1 + k - 1 = k
        BY <1>1
      <4> QED BY <1>4, <3>2, <4>1
    <3> QED BY <3>3
  <2> HIDE DEF d
  <2>5. d = c
    BY <1>1, <2>3, <2>4, SeqEqual
  <2> QED BY <1>5, <1>7, <2>1, <2>5 DEF d, c
<1> QED BY <1>6, <1>7

\* push_bufs adds the first bytes that are left, or all.
LEMMA PushIs ==
  ASSUME NEW o \in Outs, NEW cap \in Nat, NEW ios \in Seq(Slices), Len(ios) < cap
  PROVE  \E r, s : Pushed(ios, o, cap, PushBufs(ios, o, cap), r, s)
<1> DEFINE m == o.msg
<1> DEFINE w == o.written
<1> DEFINE h == Hdr[m]
<1> DEFINE z == Size(m)
<1>1. /\ m \in Futures /\ w \in Nat /\ h \in Nat /\ h > 0 /\ Body[m] \in Nat
      /\ z = h + Body[m] /\ z \in Nat /\ w < z /\ ToWrite(o) = z - w
  BY Sizes
<1>2. /\ LeftOf(o) \in Seq(WireBytes) /\ Len(LeftOf(o)) = z - w
      /\ \A j \in 1 .. z - w : LeftOf(o)[j] = <<m, w + j>>
  BY <1>1, LeftOfIs
<1>3. BufsLeft(o) = IF w < h THEN <<<<m, w + 1, h>>>> \o
                       (IF Body[m] = 0 THEN <<>> ELSE <<<<m, h + 1, z>>>>)
                    ELSE <<<<m, w + 1, z>>>>
  BY DEF BufsLeft
<1>4. Len(ios) \in Nat
  BY LenProperties
<1> HIDE DEF m, w, h, z
<1>5. CASE ~(w < h /\ Body[m] # 0)
  <2> DEFINE io == <<m, w + 1, z>>
  <2> DEFINE r == Slice(io)
  <2>1. /\ io \in Slices /\ r \in Seq(WireBytes) /\ Len(r) = z - w
        /\ \A j \in 1 .. z - w : r[j] = <<m, w + j>>
    <3>1. w <= z /\ m \in Futures /\ w \in Nat /\ z \in Nat
      BY <1>1
    <3> QED BY ONLY <3>1, SliceIs
  <2>2. BufsLeft(o) = <<io>>
    <3>1. CASE w < h
      <4>1. Body[m] = 0 /\ h = z
        BY <1>1, <1>5, <3>1
      <4>2. <<io>> \o <<>> = <<io>>
        OBVIOUS
      <4> QED BY <1>3, <3>1, <4>1, <4>2
    <3>2. CASE ~(w < h)
      BY <1>3, <3>2
    <3> QED BY <3>1, <3>2
  <2> HIDE DEF io
  <2>3. PushBufs(ios, o, cap) = Append(ios, io)
    BY <2>1, <2>2, PushOne
  <2>4. r = LeftOf(o)
    <3> HIDE DEF r
    <3>1. \A j \in 1 .. Len(r) : r[j] = LeftOf(o)[j]
      BY <1>2, <2>1
    <3> QED BY <1>2, <2>1, <3>1, SeqEqual
  <2>5. Bytes(Append(ios, io)) = Bytes(ios) \o r
    BY <2>1, BytesAppend
  <2>6. /\ Append(ios, io) \in Seq(Slices) /\ Append(ios, io) # <<>>
        /\ Len(Append(ios, io)) = Len(ios) + 1 /\ Len(Append(ios, io)) <= cap
    BY <1>4, <2>1, AppendProperties
  <2>7. r \o <<>> = r /\ r # <<>> /\ <<>> \in Seq(WireBytes)
    BY <2>1, <2>4, ConcatEmptySeq, EmptySeq, LeftOfIs
  <2> HIDE DEF r
  <2>8. Pushed(ios, o, cap, Append(ios, io), r, <<>>)
    BY <2>1, <2>4, <2>5, <2>6, <2>7 DEF Pushed
  <2> QED BY <2>3, <2>8
<1>6. CASE w < h /\ Body[m] # 0
  <2> DEFINE a == <<m, w + 1, h>>
  <2> DEFINE b == <<m, h + 1, z>>
  <2> DEFINE r == Slice(a)
  <2> DEFINE s == Slice(b)
  <2>1. /\ a \in Slices /\ r \in Seq(WireBytes) /\ Len(r) = h - w
        /\ \A j \in 1 .. h - w : r[j] = <<m, w + j>>
    <3>1. w <= h /\ m \in Futures /\ w \in Nat /\ h \in Nat
      BY <1>1, <1>6
    <3> QED BY ONLY <3>1, SliceIs
  <2>2. /\ b \in Slices /\ s \in Seq(WireBytes) /\ Len(s) = z - h
        /\ \A j \in 1 .. z - h : s[j] = <<m, h + j>>
    <3>1. h <= z /\ m \in Futures /\ h \in Nat /\ z \in Nat
      BY <1>1
    <3> QED BY ONLY <3>1, SliceIs
  <2>3. BufsLeft(o) = <<a, b>>
    <3>1. BufsLeft(o) = <<a>> \o <<b>>
      BY <1>3, <1>6
    <3> HIDE DEF a, b
    <3>2. <<a>> \o <<b>> = <<a, b>>
      BY <2>1, <2>2, Pair
    <3> QED BY <3>1, <3>2
  <2> HIDE DEF a, b, r, s
  <2>4. r \o s = LeftOf(o)
    <3> DEFINE c == r \o s
    <3>1. /\ c \in Seq(WireBytes) /\ Len(c) = (h - w) + (z - h)
          /\ \A i \in 1 .. (h - w) + (z - h) : c[i] = IF i <= h - w THEN r[i] ELSE s[i - (h - w)]
      <4>1. /\ c \in Seq(WireBytes) /\ Len(c) = Len(r) + Len(s)
            /\ \A i \in 1 .. Len(r) + Len(s) : c[i] = IF i <= Len(r) THEN r[i] ELSE s[i - Len(r)]
        BY <2>1, <2>2, ConcatProperties
      <4> HIDE DEF c
      <4> QED BY <2>1, <2>2, <4>1
    <3> HIDE DEF c
    <3>2. (h - w) + (z - h) = z - w
      BY <1>1
    <3>3. ASSUME NEW i \in 1 .. z - w PROVE c[i] = LeftOf(o)[i]
      <4>1. CASE i <= h - w
        <5>1. i \in 1 .. h - w
          BY <1>1, <4>1
        <5> QED BY <1>2, <2>1, <3>1, <3>2, <4>1, <5>1
      <4>2. CASE ~(i <= h - w)
        <5>1. i - (h - w) \in 1 .. z - h /\ h + (i - (h - w)) = w + i
          BY <1>1, <4>2, SMTT(40)
        <5>2. s[i - (h - w)] = <<m, w + i>>
          BY <2>2, <5>1
        <5> QED BY <1>2, <3>1, <3>2, <4>2, <5>2
      <4> QED BY <4>1, <4>2
    <3>4. c = LeftOf(o)
      BY <1>2, <3>1, <3>2, <3>3, SeqEqual
    <3> QED BY <3>4 DEF c
  <2>5. r # <<>> /\ <<>> \in Seq(WireBytes)
    BY <1>1, <1>6, <2>1, EmptySeq
  <2> DEFINE one == Append(ios, a)
  <2> DEFINE two == Append(one, b)
  <2>6. PushBufs(ios, o, cap) = IF Len(ios) + 1 < cap THEN two ELSE one
    BY <2>1, <2>2, <2>3, PushTwo
  <2>7. /\ one \in Seq(Slices) /\ one # <<>> /\ Len(one) = Len(ios) + 1
        /\ Bytes(one) = Bytes(ios) \o r /\ Bytes(ios) \in Seq(WireBytes)
    BY <2>1, AppendProperties, BytesAppend, ZenonT(60) DEF r
  <2> HIDE DEF one
  <2>8. /\ two \in Seq(Slices) /\ two # <<>> /\ Len(two) = Len(one) + 1
        /\ Bytes(two) = Bytes(one) \o s
    BY <2>2, <2>7, AppendProperties, BytesAppend, ZenonT(60) DEF s
  <2> HIDE DEF two
  <2>9. CASE Len(ios) + 1 < cap
    <3> DEFINE c == Bytes(ios)
    <3>1. (c \o r) \o s = c \o (r \o s)
      <4>1. c \in Seq(WireBytes) /\ r \in Seq(WireBytes) /\ s \in Seq(WireBytes)
        BY <2>1, <2>2, <2>7
      <4> HIDE DEF c
      <4> QED BY <4>1, Regroup
    <3>2. Bytes(two) = Bytes(ios) \o LeftOf(o)
      BY <2>4, <2>7, <2>8, <3>1
    <3>3. LeftOf(o) \o <<>> = LeftOf(o) /\ LeftOf(o) # <<>>
      BY <1>2, ConcatEmptySeq, LeftOfIs
    <3>4. Len(two) <= cap
      BY <1>4, <2>7, <2>8, <2>9
    <3>5. Pushed(ios, o, cap, two, LeftOf(o), <<>>)
      BY <1>2, <2>5, <2>8, <3>2, <3>3, <3>4 DEF Pushed
    <3> QED BY <2>6, <2>9, <3>5
  <2>10. CASE ~(Len(ios) + 1 < cap)
    <3>1. Len(one) <= cap /\ ~(Len(one) < cap)
      BY <1>4, <2>7, <2>10
    <3>2. Pushed(ios, o, cap, one, r, s)
      BY <2>1, <2>2, <2>4, <2>5, <2>7, <3>1 DEF Pushed
    <3> QED BY <2>6, <2>10, <3>2
  <2> QED BY <2>9, <2>10
<1> QED BY <1>5, <1>6

PopulateAt(f, q, cap, i) == IF i = 0 THEN NoBufs ELSE AddOut(f[i - 1], q[i], cap)

\* The loop of populate: the recursive definition has a solution.
LEMMA PopulateRec ==
  ASSUME NEW q, Len(q) \in Nat, NEW cap
  PROVE  \E f : /\ f[0] = NoBufs /\ \A i \in 1 .. Len(q) : f[i] = AddOut(f[i - 1], q[i], cap)
                /\ Populate(q, cap) = f[Len(q)]
<1> DEFINE n == Len(q)
<1> DEFINE S == {k \in 0 .. n : \E g : g = [i \in 0 .. k |-> PopulateAt(g, q, cap, i)]}
<1>1. 0 \in S
  <2> DEFINE g == [i \in 0 .. 0 |-> NoBufs]
  <2>1. \A i \in 0 .. 0 : g[i] = PopulateAt(g, q, cap, i)
    BY DEF PopulateAt
  <2>2. g = [i \in 0 .. 0 |-> PopulateAt(g, q, cap, i)]
    BY <2>1
  <2> HIDE DEF g
  <2> QED BY <2>2
<1>2. \A k \in 0 .. n - 1 : k \in S => k + 1 \in S
  <2>1. SUFFICES ASSUME NEW k \in 0 .. n - 1, k \in S PROVE k + 1 \in S
    OBVIOUS
  <2>2. PICK g : g = [i \in 0 .. k |-> PopulateAt(g, q, cap, i)]
    BY <2>1
  <2> DEFINE v == AddOut(g[k], q[k + 1], cap)
  <2> HIDE DEF v
  <2> DEFINE h == [i \in 0 .. k + 1 |-> IF i = k + 1 THEN v ELSE g[i]]
  <2>3. ASSUME NEW i \in 0 .. k + 1 PROVE h[i] = PopulateAt(h, q, cap, i)
    <3>1. CASE i = k + 1
      <4>1. h[k] = g[k] /\ i # 0 /\ i - 1 = k /\ h[i] = v
        BY <3>1
      <4> QED BY <3>1, <4>1 DEF PopulateAt, v
    <3>2. CASE i # k + 1
      <4>1. i \in 0 .. k /\ h[i] = g[i] /\ (i # 0 => h[i - 1] = g[i - 1])
        BY <3>2
      <4>2. g[i] = PopulateAt(g, q, cap, i)
        BY <2>2, <4>1
      <4> QED BY <4>1, <4>2 DEF PopulateAt
    <3> QED BY <3>1, <3>2
  <2>4. h = [i \in 0 .. k + 1 |-> PopulateAt(h, q, cap, i)]
    BY <2>3
  <2> HIDE DEF h
  <2> QED BY <2>1, <2>4
<1>3. n \in S
  <2>1. n \in 0 .. n /\ n \in Nat
    OBVIOUS
  <2> HIDE DEF S, n
  <2> QED BY <1>1, <1>2, <2>1, ZeroInduction
<1> DEFINE f == CHOOSE g : g = [i \in 0 .. n |-> PopulateAt(g, q, cap, i)]
<1>4. f = [i \in 0 .. n |-> PopulateAt(f, q, cap, i)]
  <2>1. PICK g : g = [i \in 0 .. n |-> PopulateAt(g, q, cap, i)]
    BY <1>3
  <2> QED BY <2>1
<1>5. Populate(q, cap) = f[n]
  BY DEF Populate, PopulateAt
<1> HIDE DEF f
<1>6. \A i \in 0 .. n : f[i] = PopulateAt(f, q, cap, i)
  BY <1>4
<1>7. f[0] = NoBufs
  <2>1. f[0] = PopulateAt(f, q, cap, 0)
    BY <1>6
  <2> QED BY <2>1 DEF PopulateAt
<1>8. ASSUME NEW i \in 1 .. n PROVE f[i] = AddOut(f[i - 1], q[i], cap)
  <2>1. f[i] = PopulateAt(f, q, cap, i) /\ i # 0
    BY <1>6
  <2> QED BY <2>1 DEF PopulateAt
<1> QED BY <1>5, <1>7, <1>8

\* The bytes of a list of slices
LEMMA BytesType ==
  ASSUME NEW ios \in Seq(Slices)
  PROVE  Bytes(ios) \in Seq(WireBytes)
<1> DEFINE s == [i \in 1 .. Len(ios) |-> Slice(ios[i])]
<1>1. Len(ios) \in Nat /\ \A k \in 1 .. Len(ios) : Slice(ios[k]) \in Seq(WireBytes)
  BY LenProperties, ElementOfSeq, SliceType
<1>2. Len(s) = Len(ios) /\ \A k \in 1 .. Len(ios) : s[k] = Slice(ios[k])
  BY <1>1
<1>3. Len(ios) = 0 => s = <<>>
  OBVIOUS
<1>4. Bytes(ios) = FlattenSeq(s)
  BY DEF Bytes
<1> HIDE DEF s
<1>5. CASE Len(ios) = 0
  <2>1. Bytes(ios) = <<>>
    BY <1>2, <1>3, <1>4, <1>5, FlattenEmpty
  <2> QED BY <2>1, EmptySeq
<1>6. CASE Len(ios) # 0
  BY <1>1, <1>2, <1>4, <1>6, FlattenType
<1> QED BY <1>5, <1>6

\* No slices, no bytes
LEMMA BytesEmpty == Bytes(<<>>) = <<>>
<1> DEFINE s == [i \in 1 .. Len(<<>>) |-> Slice(<<>>[i])]
<1>1. s = <<>>
  OBVIOUS
<1>2. Len(<<>>) = 0
  OBVIOUS
<1> HIDE DEF s
<1>3. FlattenSeq(s) = s
  BY <1>1, <1>2, FlattenEmpty
<1> QED BY <1>1, <1>3 DEF Bytes, s

\* Every byte of s is of one of the messages T.
From(s, T) == \A j \in 1 .. Len(s) : s[j][1] \in T

\* The bytes of a concatenation
LEMMA ConcatFrom ==
  ASSUME NEW a \in Seq(WireBytes), NEW b \in Seq(WireBytes), NEW T
  PROVE  From(a \o b, T) <=> From(a, T) /\ From(b, T)
<1> DEFINE la == Len(a)
<1> DEFINE lb == Len(b)
<1> DEFINE c == a \o b
<1>1. /\ la \in Nat /\ lb \in Nat /\ Len(c) = la + lb
      /\ \A i \in 1 .. la + lb : c[i] = IF i <= la THEN a[i] ELSE b[i - la]
  BY ConcatProperties, LenProperties
<1> HIDE DEF la, lb, c
<1>2. ASSUME \A i \in 1 .. la + lb : c[i][1] \in T, NEW j \in 1 .. la PROVE a[j][1] \in T
  <2>1. j \in 1 .. la + lb /\ j <= la
    BY <1>1
  <2> QED BY <1>1, <1>2, <2>1
<1>3. ASSUME \A i \in 1 .. la + lb : c[i][1] \in T, NEW j \in 1 .. lb PROVE b[j][1] \in T
  <2>1. la + j \in 1 .. la + lb /\ ~(la + j <= la) /\ (la + j) - la = j
    BY <1>1
  <2> QED BY <1>1, <1>3, <2>1
<1>4. ASSUME \A j \in 1 .. la : a[j][1] \in T, \A j \in 1 .. lb : b[j][1] \in T,
             NEW i \in 1 .. la + lb
      PROVE  c[i][1] \in T
  <2>1. CASE i <= la
    <3>1. i \in 1 .. la
      BY <1>1, <2>1
    <3> QED BY <1>1, <1>4, <2>1, <3>1
  <2>2. CASE ~(i <= la)
    <3>1. i - la \in 1 .. lb
      BY <1>1, <2>2
    <3> QED BY <1>1, <1>4, <2>2, <3>1
  <2> QED BY <2>1, <2>2
<1>5. From(c, T) <=> \A i \in 1 .. la + lb : c[i][1] \in T
  BY <1>1 DEF From
<1>6. From(a, T) <=> \A i \in 1 .. la : a[i][1] \in T
  BY DEF From, la
<1>7. From(b, T) <=> \A i \in 1 .. lb : b[i][1] \in T
  BY DEF From, lb
<1> QED BY <1>2, <1>3, <1>4, <1>5, <1>6, <1>7 DEF c

\* The bytes a RawOut has to write are its message's.
LEMMA LeftFrom ==
  ASSUME NEW o \in Outs, NEW r \in Seq(WireBytes), NEW s \in Seq(WireBytes), r \o s = LeftOf(o)
  PROVE  From(r, {o.msg})
<1>1. From(LeftOf(o), {o.msg})
  <2>1. /\ Len(LeftOf(o)) = ToWrite(o)
        /\ \A j \in 1 .. ToWrite(o) : LeftOf(o)[j] = <<o.msg, o.written + j>>
    BY LeftOfIs
  <2>2. \A j \in 1 .. ToWrite(o) : LeftOf(o)[j][1] = o.msg
    BY <2>1
  <2> QED BY <2>1, <2>2 DEF From
<1> QED BY <1>1, ConcatFrom, ZenonT(60)

\* The messages whose bytes populate may take: the first, and those without fds
Takes(q, i) == {q[k].msg : k \in {k \in 1 .. i : k = 1 \/ ~HasFds(q[k])}}
FdsOf(o) == IF HasFds(o) THEN o.msg ELSE None
Writes == [ios : Seq(Slices), anc : Futures \cup {None}, stop : BOOLEAN]

\* What populate has collected after i messages
Filled(q, cap, i, w) ==
  /\ w \in Writes /\ Len(w.ios) <= cap
  /\ \E r \in Seq(WireBytes) : /\ Bytes(w.ios) \o r = LeftUpTo(q, i)
                               /\ w.stop = FALSE /\ Len(w.ios) < cap => r = <<>>
  /\ w.stop = TRUE => Len(w.ios) >= cap \/ \E k \in 1 .. i : HasFds(q[k])
  /\ IF i = 0 THEN w = NoBufs ELSE w.ios # <<>> /\ w.anc = FdsOf(q[1])
  /\ From(Bytes(w.ios), Takes(q, i))

\* One message more
LEMMA AddIs ==
  ASSUME NEW q \in Seq(Outs), NEW cap \in Nat, cap > 0, NEW i \in 1 .. Len(q), NEW w,
         Filled(q, cap, i - 1, w)
  PROVE  Filled(q, cap, i, AddOut(w, q[i], cap))
<1> DEFINE o == q[i]
<1> DEFINE u == AddOut(w, q[i], cap)
<1> DEFINE ios == w.ios
<1>1. o \in Outs /\ i \in Nat /\ i >= 1 /\ Len(q) \in Nat
  BY ElementOfSeq, LenProperties
<1>2. /\ w \in Writes /\ ios \in Seq(Slices) /\ Len(ios) <= cap /\ Len(ios) \in Nat
      /\ w.anc \in Futures \cup {None} /\ w.stop \in BOOLEAN
      /\ IF i - 1 = 0 THEN w = NoBufs ELSE ios # <<>> /\ w.anc = FdsOf(q[1])
      /\ From(Bytes(ios), Takes(q, i - 1))
      /\ w.stop = TRUE => Len(ios) >= cap \/ \E k \in 1 .. i - 1 : HasFds(q[k])
  BY LenProperties DEF Filled, Writes
<1>3. PICK r \in Seq(WireBytes) : /\ Bytes(ios) \o r = LeftUpTo(q, i - 1)
                                  /\ w.stop = FALSE /\ Len(ios) < cap => r = <<>>
  BY DEF Filled
<1>4. LeftUpTo(q, i) = LeftUpTo(q, i - 1) \o LeftOf(o)
  BY LeftStep
<1>5. LeftOf(o) \in Seq(WireBytes) /\ Bytes(ios) \in Seq(WireBytes)
  BY <1>1, <1>2, LeftOfIs, BytesType
<1>6. u = IF w.stop \/ Len(ios) >= cap \/ (HasFds(o) /\ ios # <<>>)
          THEN [w EXCEPT !.stop = TRUE]
          ELSE [w EXCEPT !.ios = PushBufs(ios, o, cap), !.anc = IF HasFds(o) THEN o.msg ELSE w.anc]
  BY DEF AddOut
<1>7. Takes(q, i - 1) \subseteq Takes(q, i)
  BY <1>1 DEF Takes
<1> HIDE DEF o, u, ios
<1>8. CASE w.stop \/ Len(ios) >= cap \/ (HasFds(o) /\ ios # <<>>)
  <2>1. u \in Writes /\ u.ios = ios /\ u.anc = w.anc /\ u.stop = TRUE
    BY <1>2, <1>6, <1>8 DEF Writes, ios
  <2> DEFINE v == r \o LeftOf(o)
  <2>2. v \in Seq(WireBytes) /\ Bytes(ios) \o v = LeftUpTo(q, i)
    <3> DEFINE x == LeftOf(o)
    <3> DEFINE y == Bytes(ios)
    <3>1. x \in Seq(WireBytes) /\ y \in Seq(WireBytes) /\ r \in Seq(WireBytes)
      BY <1>5
    <3> HIDE DEF x, y, v
    <3>2. (y \o r) \o x = y \o (r \o x) /\ r \o x \in Seq(WireBytes)
      BY <3>1, Regroup, SMTT(40)
    <3> QED BY <1>3, <1>4, <3>2 DEF x, y, v
  <2>3. Len(ios) >= cap \/ \E k \in 1 .. i : HasFds(q[k])
    <3>1. CASE w.stop
      <4>1. w.stop = TRUE
        BY <1>2, <3>1
      <4>2. 1 .. i - 1 \subseteq 1 .. i
        BY <1>1
      <4> QED BY <1>2, <4>1, <4>2
    <3>2. CASE Len(ios) >= cap
      BY <3>2
    <3>3. CASE HasFds(o)
      <4>1. i \in 1 .. i
        BY <1>1
      <4> QED BY <3>3, <4>1 DEF o
    <3> QED BY <1>8, <3>1, <3>2, <3>3
  <2>4. i - 1 # 0
    <3>1. SUFFICES ASSUME i - 1 = 0 PROVE FALSE
      OBVIOUS
    <3>2. w = NoBufs
      BY <1>2, <3>1
    <3>3. ios = <<>> /\ w.stop = FALSE
      BY <3>2 DEF NoBufs, ios
    <3>4. Len(ios) = 0
      BY <3>3, EmptySeq
    <3> QED BY <1>8, <3>3, <3>4
  <2>5. ios # <<>> /\ w.anc = FdsOf(q[1]) /\ i # 0
    BY <1>1, <1>2, <2>4
  <2>6. From(Bytes(ios), Takes(q, i))
    BY <1>2, <1>7 DEF From
  <2> HIDE DEF v
  <2>7. Filled(q, cap, i, u)
    BY <1>2, <2>1, <2>2, <2>3, <2>5, <2>6 DEF Filled
  <2> QED BY <2>7 DEF u, o
<1>9. CASE ~(w.stop \/ Len(ios) >= cap \/ (HasFds(o) /\ ios # <<>>))
  <2> DEFINE new == PushBufs(ios, o, cap)
  <2>1. w.stop = FALSE /\ Len(ios) < cap /\ (HasFds(o) => ios = <<>>)
    BY <1>2, <1>9
  <2>2. PICK x, y : Pushed(ios, o, cap, new, x, y)
    BY <1>1, <1>2, <2>1, PushIs
  <2>3. /\ new \in Seq(Slices) /\ new # <<>> /\ Len(new) <= cap
        /\ x \in Seq(WireBytes) /\ y \in Seq(WireBytes)
        /\ Bytes(new) = Bytes(ios) \o x /\ x \o y = LeftOf(o)
        /\ Len(new) < cap => y = <<>>
    BY <2>2 DEF Pushed
  <2> DEFINE a == IF HasFds(o) THEN o.msg ELSE w.anc
  <2> HIDE DEF new
  <2>4. o.msg \in Futures
    BY <1>1, Sizes
  <2>5. u \in Writes /\ u.ios = new /\ u.anc = a /\ u.stop = FALSE
    <3>1. a \in Futures \cup {None}
      BY <1>2, <2>4
    <3>2. u = [w EXCEPT !.ios = new, !.anc = a]
      BY <1>6, <1>9 DEF new
    <3> HIDE DEF a
    <3> QED BY <1>2, <2>1, <2>3, <3>1, <3>2 DEF Writes
  <2>6. Bytes(new) \o y = LeftUpTo(q, i)
    <3> DEFINE b == Bytes(ios)
    <3>1. b = LeftUpTo(q, i - 1)
      BY <1>3, <1>5, <2>1, ConcatEmptySeq
    <3>2. b \in Seq(WireBytes) /\ x \in Seq(WireBytes) /\ y \in Seq(WireBytes)
      BY <1>5, <2>3
    <3>3. Bytes(new) = b \o x
      BY <2>3
    <3> HIDE DEF b, a
    <3>4. (b \o x) \o y = b \o (x \o y)
      BY <3>2, Regroup, SMTT(40)
    <3> QED BY <1>4, <2>3, <3>1, <3>3, <3>4
  <2>7. a = FdsOf(q[1])
    <3>1. CASE i - 1 = 0
      <4>1. w.anc = None /\ i = 1
        BY <1>1, <1>2, <3>1 DEF NoBufs
      <4> QED BY <4>1 DEF FdsOf, o
    <3>2. CASE i - 1 # 0
      BY <1>2, <2>1, <3>2
    <3> QED BY <3>1, <3>2
  <2>8. From(Bytes(new), Takes(q, i))
    <3>1. From(Bytes(ios), Takes(q, i))
      BY <1>2, <1>7 DEF From
    <3>2. From(x, {o.msg})
      BY <1>1, <2>3, LeftFrom
    <3>3. o.msg \in Takes(q, i)
      <4>1. i = 1 \/ ~HasFds(o)
        BY <1>1, <1>2, <2>1
      <4>2. i \in 1 .. i
        BY <1>1
      <4> QED BY <4>1, <4>2 DEF Takes, o
    <3>4. From(x, Takes(q, i))
      BY <3>2, <3>3 DEF From
    <3>5. From(Bytes(ios) \o x, Takes(q, i))
      BY <1>5, <2>3, <3>1, <3>4, ConcatFrom
    <3> QED BY <2>3, <3>5
  <2> HIDE DEF a
  <2>9. i # 0
    BY <1>1
  <2>10. Filled(q, cap, i, u)
    BY <2>3, <2>5, <2>6, <2>7, <2>8, <2>9 DEF Filled
  <2> QED BY <2>10 DEF u, o
<1> QED BY <1>8, <1>9

\* populate collects the first bytes that are left to write, as many as there is
\* room for, up to the first message with fds that is not in front.
LEMMA PopulateIs ==
  ASSUME NEW q \in Seq(Outs), NEW cap \in Nat, cap > 0
  PROVE  Filled(q, cap, Len(q), Populate(q, cap))
<1>1. Len(q) \in Nat
  BY LenProperties
<1>2. PICK f : /\ f[0] = NoBufs /\ \A i \in 1 .. Len(q) : f[i] = AddOut(f[i - 1], q[i], cap)
               /\ Populate(q, cap) = f[Len(q)]
  BY <1>1, PopulateRec
<1> DEFINE S == {i \in 0 .. Len(q) : Filled(q, cap, i, f[i])}
<1>3. 0 \in S
  <2> DEFINE w == f[0]
  <2>1. w = NoBufs /\ w \in Writes /\ w.ios = <<>> /\ w.stop = FALSE
    <3>1. w = NoBufs
      BY <1>2
    <3> QED BY <3>1, EmptySeq DEF NoBufs, Writes
  <2> HIDE DEF w
  <2>2. Len(w.ios) <= cap
    BY <2>1, EmptySeq
  <2>3. Bytes(<<>>) = <<>> /\ <<>> \in Seq(WireBytes) /\ Len(<<>>) = 0
    BY BytesEmpty, EmptySeq
  <2>4. LeftUpTo(q, 0) = <<>> /\ <<>> \o <<>> = <<>>
    BY <2>3, LeftStep, ConcatEmptySeq
  <2>5. From(<<>>, Takes(q, 0))
    <3>1. 1 .. 0 = {}
      OBVIOUS
    <3> QED BY <2>3, <3>1 DEF From
  <2>6. Filled(q, cap, 0, w)
    BY <2>1, <2>2, <2>3, <2>4, <2>5 DEF Filled
  <2> QED BY <1>1, <2>6 DEF w
<1>4. \A i \in 0 .. Len(q) - 1 : i \in S => i + 1 \in S
  <2>1. SUFFICES ASSUME NEW i \in 0 .. Len(q) - 1, i \in S PROVE i + 1 \in S
    OBVIOUS
  <2>2. i + 1 \in 1 .. Len(q) /\ i + 1 \in 0 .. Len(q) /\ (i + 1) - 1 = i
    BY <1>1
  <2>3. f[i + 1] = AddOut(f[i], q[i + 1], cap) /\ Filled(q, cap, i, f[i])
    BY <1>2, <2>1, <2>2
  <2>4. Filled(q, cap, i + 1, AddOut(f[i], q[i + 1], cap))
    BY <2>2, <2>3, AddIs
  <2> QED BY <2>2, <2>3, <2>4
<1>5. Len(q) \in S
  <2>1. Len(q) \in 0 .. Len(q)
    BY <1>1
  <2> HIDE DEF S
  <2> QED BY <1>1, <1>3, <1>4, <2>1, ZeroInduction
<1> QED BY <1>2, <1>5

\* A write of what is pending in q: it begins with the first byte that is left
\* and carries the fds of the first message.
Chunk(q, w) ==
  /\ w \in Writes
  /\ w.anc = IF q = <<>> THEN None ELSE FdsOf(q[1])
  /\ From(Bytes(w.ios), Takes(q, Len(q)))
  /\ \E r \in Seq(WireBytes) : Bytes(w.ios) \o r = Left(q)

\* The write of finish_sending_next
LEMMA PopulateChunk ==
  ASSUME NEW q \in Seq(Outs), NEW cap \in Nat, cap > 0
  PROVE  Chunk(q, Populate(q, cap))
<1> DEFINE w == Populate(q, cap)
<1>1. Filled(q, cap, Len(q), w) /\ Len(q) \in Nat
  BY PopulateIs, LenProperties
<1> HIDE DEF w
<1>2. q = <<>> <=> Len(q) = 0
  BY EmptySeq
<1>3. w.anc = IF q = <<>> THEN None ELSE FdsOf(q[1])
  <2>1. IF Len(q) = 0 THEN w = NoBufs ELSE w.ios # <<>> /\ w.anc = FdsOf(q[1])
    BY <1>1 DEF Filled
  <2>2. NoBufs.anc = None
    BY DEF NoBufs
  <2> QED BY <1>2, <2>1, <2>2
<1>4. \E r \in Seq(WireBytes) : Bytes(w.ios) \o r = Left(q)
  BY <1>1 DEF Filled, Left
<1>5. w \in Writes /\ From(Bytes(w.ios), Takes(q, Len(q)))
  BY <1>1 DEF Filled
<1>6. Chunk(q, w)
  BY <1>3, <1>4, <1>5 DEF Chunk
<1> QED BY <1>6 DEF w

\* A queue with one RawOut more
LEMMA Appended ==
  ASSUME NEW q \in Seq(Outs), NEW o \in Outs
  PROVE  /\ Append(q, o) \in Seq(Outs) /\ Len(Append(q, o)) = Len(q) + 1 /\ Append(q, o) # <<>>
         /\ Append(q, o)[Len(q) + 1] = o /\ \A k \in 1 .. Len(q) : Append(q, o)[k] = q[k]
         /\ Len(q) \in Nat /\ Left(Append(q, o)) = Left(q) \o LeftOf(o)
         /\ LeftUpTo(Append(q, o), Len(q)) = Left(q)
         /\ Append(q, o)[1] = IF q = <<>> THEN o ELSE q[1]
<1> DEFINE r == Append(q, o)
<1>1. /\ r \in Seq(Outs) /\ Len(r) = Len(q) + 1 /\ Len(q) \in Nat
      /\ r[Len(q) + 1] = o /\ \A k \in 1 .. Len(q) : r[k] = q[k]
  BY AppendProperties, LenProperties
<1>2. Left(r) = Left(q) \o LeftOf(o)
  BY LeftAppend
<1> HIDE DEF r
<1>3. r # <<>>
  BY <1>1, EmptySeq
<1>4. LeftUpTo(r, Len(q)) = Left(q)
  <2>1. [k \in 1 .. Len(q) |-> LeftOf(r[k])] = [k \in 1 .. Len(q) |-> LeftOf(q[k])]
    BY <1>1
  <2> QED BY <2>1 DEF LeftUpTo, Left
<1>5. r[1] = IF q = <<>> THEN o ELSE q[1]
  <2>1. CASE q = <<>>
    <3>1. Len(q) = 0
      BY <2>1, EmptySeq
    <3>2. r[0 + 1] = o
      BY <1>1, <3>1
    <3> QED BY <2>1, <3>2
  <2>2. CASE q # <<>>
    <3>1. 1 \in 1 .. Len(q)
      BY <1>1, <2>2, EmptySeq
    <3> QED BY <1>1, <2>2, <3>1
  <2> QED BY <2>1, <2>2
<1> QED BY <1>1, <1>2, <1>3, <1>4, <1>5 DEF r

\* The write of write_next_message has no more bytes than are left; it is the
\* beginning of them when no message with fds holds up the ones in the queue and
\* lets the new one through.
LEMMA PopulateNewIs ==
  ASSUME NEW q \in Seq(Outs), NEW o \in Outs, NEW cap \in Nat, cap > 0, nfds[o.msg] \in Nat
  PROVE  LET w == PopulateNew(q, o, cap)
             a == Append(q, o)
         IN /\ w \in Writes /\ w.anc = FdsOf(a[1])
            /\ Len(Bytes(w.ios)) <= Len(Left(a))
            /\ nfds[o.msg] > 0 \/ (\A k \in 1 .. Len(q) : ~HasFds(q[k])) => Chunk(a, w)
<1> DEFINE v == Populate(q, cap)
<1> DEFINE w == PopulateNew(q, o, cap)
<1> DEFINE a == Append(q, o)
<1> DEFINE L == Left(q)
<1> DEFINE M == LeftOf(o)
<1> DEFINE ios == v.ios
<1>1. Filled(q, cap, Len(q), v)
  BY PopulateIs
<1>2. /\ a \in Seq(Outs) /\ Len(a) = Len(q) + 1 /\ a # <<>> /\ Len(q) \in Nat
      /\ a[Len(q) + 1] = o /\ \A k \in 1 .. Len(q) : a[k] = q[k]
      /\ Left(a) = L \o M /\ a[1] = IF q = <<>> THEN o ELSE q[1]
  BY Appended
<1>3. L \in Seq(WireBytes) /\ M \in Seq(WireBytes) /\ o.msg \in Futures /\ (q = <<>> => L = <<>>)
  BY LeftIs, LeftOfIs, Sizes
<1>4. w = IF Len(ios) < cap /\ (nfds[o.msg] = 0 \/ ios = <<>>)
          THEN [v EXCEPT !.ios = PushBufs(ios, o, cap), !.anc = IF HasFds(o) THEN o.msg ELSE v.anc]
          ELSE v
  BY DEF PopulateNew
<1> HIDE DEF v, w, a, L, M
<1>5. /\ v \in Writes /\ ios \in Seq(Slices) /\ Len(ios) <= cap /\ Len(ios) \in Nat
      /\ v.anc \in Futures \cup {None} /\ v.stop \in BOOLEAN
      /\ v.stop = TRUE => Len(ios) >= cap \/ \E k \in 1 .. Len(q) : HasFds(q[k])
      /\ From(Bytes(ios), Takes(q, Len(q)))
  BY <1>1, LenProperties DEF Filled, Writes
<1>6. q = <<>> <=> Len(q) = 0
  BY EmptySeq
<1>7. IF q = <<>> THEN v = NoBufs ELSE ios # <<>> /\ v.anc = FdsOf(q[1])
  <2>1. IF Len(q) = 0 THEN v = NoBufs ELSE ios # <<>> /\ v.anc = FdsOf(q[1])
    BY <1>1 DEF Filled
  <2> QED BY <1>6, <2>1
<1>8. q = <<>> => ios = <<>> /\ v.anc = None /\ v.stop = FALSE /\ Len(ios) = 0
  <2>1. NoBufs.ios = <<>> /\ NoBufs.anc = None /\ NoBufs.stop = FALSE /\ Len(<<>>) = 0
    BY DEF NoBufs
  <2> QED BY <1>7, <2>1
<1>9. PICK r \in Seq(WireBytes) : /\ Bytes(ios) \o r = L
                                  /\ v.stop = FALSE /\ Len(ios) < cap => r = <<>>
  BY <1>1 DEF Filled, Left, L
<1>10. Bytes(ios) \in Seq(WireBytes) /\ Len(Bytes(ios)) \in Nat /\ Len(r) \in Nat
  BY <1>5, BytesType, LenProperties
<1>11. Len(Bytes(ios)) + Len(r) = Len(L) /\ Len(L) \in Nat /\ Len(M) \in Nat /\ Len(M) > 0
  <2>1. Len(Bytes(ios) \o r) = Len(Bytes(ios)) + Len(r)
    BY <1>10, ConcatProperties
  <2>2. Len(L) \in Nat /\ Len(M) \in Nat
    BY <1>3, LenProperties
  <2>3. Len(M) > 0
    BY LeftOfIs, Sizes DEF M
  <2> QED BY <1>9, <2>1, <2>2, <2>3
<1>12. Len(Left(a)) = Len(L) + Len(M)
  BY <1>2, <1>3, ConcatProperties
<1>13. Takes(q, Len(q)) \subseteq Takes(a, Len(a))
  <2>1. SUFFICES ASSUME NEW k \in 1 .. Len(q), k = 1 \/ ~HasFds(q[k])
                 PROVE  q[k].msg \in Takes(a, Len(a))
    BY DEF Takes
  <2>2. k \in 1 .. Len(a) /\ a[k] = q[k]
    BY <1>2
  <2> QED BY <2>1, <2>2 DEF Takes
<1> HIDE DEF ios
<1>14. CASE Len(ios) < cap /\ (nfds[o.msg] = 0 \/ ios = <<>>)
  <2> DEFINE new == PushBufs(ios, o, cap)
  <2> DEFINE c == IF HasFds(o) THEN o.msg ELSE v.anc
  <2>1. PICK x, y : Pushed(ios, o, cap, new, x, y)
    BY <1>5, <1>14, PushIs
  <2>2. /\ new \in Seq(Slices) /\ x \in Seq(WireBytes) /\ y \in Seq(WireBytes)
        /\ Bytes(new) = Bytes(ios) \o x /\ x \o y = M
    BY <2>1 DEF Pushed, M
  <2> HIDE DEF new
  <2>3. w \in Writes /\ w.ios = new /\ w.anc = c
    <3>1. c \in Futures \cup {None}
      BY <1>3, <1>5
    <3>2. w = [v EXCEPT !.ios = new, !.anc = c]
      BY <1>4, <1>14 DEF new
    <3> HIDE DEF c
    <3> QED BY <1>5, <2>2, <3>1, <3>2 DEF Writes
  <2>4. c = FdsOf(a[1])
    <3>1. CASE q = <<>>
      BY <1>2, <1>8, <3>1 DEF FdsOf
    <3>2. CASE q # <<>>
      <4>1. ~HasFds(o)
        BY <1>7, <1>14, <3>2 DEF HasFds, ios
      <4> QED BY <1>2, <1>7, <3>2, <4>1
    <3> QED BY <3>1, <3>2
  <2> HIDE DEF c
  <2>5. Len(x) + Len(y) = Len(M) /\ Len(x) \in Nat /\ Len(y) \in Nat
        /\ Len(Bytes(new)) = Len(Bytes(ios)) + Len(x)
    <3>1. Len(x \o y) = Len(x) + Len(y) /\ Len(Bytes(ios) \o x) = Len(Bytes(ios)) + Len(x)
      BY <1>10, <2>2, ConcatProperties
    <3> QED BY <2>2, <3>1, LenProperties
  <2>6. Len(Bytes(w.ios)) <= Len(Left(a))
    BY <1>10, <1>11, <1>12, <2>3, <2>5
  <2>7. ASSUME nfds[o.msg] > 0 \/ (\A k \in 1 .. Len(q) : ~HasFds(q[k]))
        PROVE  Chunk(a, w)
    <3>1. Bytes(ios) = L
      <4>1. CASE q = <<>>
        <5>1. r = <<>>
          BY <1>8, <1>9, <1>14, <4>1
        <5> QED BY <1>9, <1>10, <5>1, ConcatEmptySeq
      <4>2. CASE q # <<>>
        <5>1. ~(nfds[o.msg] > 0)
          BY <1>7, <1>14, <4>2 DEF ios
        <5>2. v.stop = FALSE
          BY <1>5, <1>14, <2>7, <5>1
        <5>3. r = <<>>
          BY <1>9, <1>14, <5>2
        <5> QED BY <1>9, <1>10, <5>3, ConcatEmptySeq
      <4> QED BY <4>1, <4>2
    <3>2. Bytes(new) \o y = Left(a)
      <4>1. Bytes(new) = L \o x
        BY <2>2, <3>1
      <4>2. (L \o x) \o y = L \o (x \o y)
        <5>1. L \in Seq(WireBytes) /\ x \in Seq(WireBytes) /\ y \in Seq(WireBytes)
          BY <1>3, <2>2
        <5> QED BY <5>1, Regroup, SMTT(40)
      <4> QED BY <1>2, <2>2, <4>1, <4>2
    <3>3. From(Bytes(new), Takes(a, Len(a)))
      <4>1. From(Bytes(ios), Takes(a, Len(a)))
        BY <1>5, <1>13 DEF From
      <4>2. From(x, {o.msg})
        BY <2>2, LeftFrom DEF M
      <4>3. o.msg \in Takes(a, Len(a))
        <5>1. Len(q) + 1 = 1 \/ ~HasFds(o)
          <6>1. q = <<>> \/ ~HasFds(o)
            BY <1>7, <1>14 DEF HasFds, ios
          <6> QED BY <1>6, <6>1
        <5>2. Len(q) + 1 \in 1 .. Len(a) /\ a[Len(q) + 1] = o
          BY <1>2
        <5> QED BY <5>1, <5>2 DEF Takes
      <4>4. From(x, Takes(a, Len(a)))
        BY <4>2, <4>3 DEF From
      <4>5. From(Bytes(ios) \o x, Takes(a, Len(a)))
        BY <1>10, <2>2, <4>1, <4>4, ConcatFrom
      <4> QED BY <2>2, <4>5
    <3> QED BY <1>2, <2>2, <2>3, <2>4, <3>2, <3>3 DEF Chunk
  <2> QED BY <2>3, <2>4, <2>6, <2>7 DEF w, a
<1>15. CASE ~(Len(ios) < cap /\ (nfds[o.msg] = 0 \/ ios = <<>>))
  <2>1. w = v
    BY <1>4, <1>15 DEF ios
  <2>2. q # <<>>
    BY <1>8, <1>15 DEF ios
  <2>3. w.anc = FdsOf(a[1])
    BY <1>2, <1>7, <2>1, <2>2
  <2>4. Len(Bytes(w.ios)) <= Len(Left(a))
    <3>1. Bytes(w.ios) = Bytes(ios)
      BY <2>1 DEF ios
    <3> QED BY <1>10, <1>11, <1>12, <3>1
  <2>5. Chunk(a, w)
    <3> DEFINE b == Bytes(ios)
    <3>1. r \o M \in Seq(WireBytes) /\ b \o (r \o M) = Left(a)
      <4>1. b \in Seq(WireBytes) /\ r \in Seq(WireBytes) /\ M \in Seq(WireBytes)
        BY <1>3, <1>10
      <4>2. b \o r = L
        BY <1>9
      <4> HIDE DEF b
      <4>3. (b \o r) \o M = b \o (r \o M) /\ r \o M \in Seq(WireBytes)
        BY <4>1, Regroup, SMTT(40)
      <4> QED BY <1>2, <4>2, <4>3
    <3>2. From(b, Takes(a, Len(a)))
      BY <1>5, <1>13 DEF From
    <3>3. Bytes(w.ios) = b
      BY <2>1 DEF ios
    <3> HIDE DEF b
    <3>4. \E z \in Seq(WireBytes) : Bytes(w.ios) \o z = Left(a)
      BY <3>1, <3>3
    <3> QED BY <1>2, <1>5, <2>1, <2>3, <3>2, <3>3, <3>4 DEF Chunk
  <2> QED BY <1>5, <2>1, <2>3, <2>4, <2>5 DEF w, a
<1> QED BY <1>14, <1>15

\* The first byte that is left is of the message in front.
LEMMA FirstByte ==
  ASSUME NEW q \in Seq(Outs), q # <<>>
  PROVE  /\ Left(q)[1] = <<q[1].msg, q[1].written + 1>> /\ Left(q) # <<>>
         /\ Left(q) \in Seq(WireBytes)
<1> DEFINE n == Len(q)
<1>1. n \in Nat /\ n # 0
  BY LenProperties, EmptySeq
<1>2. \A i \in 0 .. n : LeftUpTo(q, i) \in Seq(WireBytes)
  BY LeftStep
<1>3. \A i \in 1 .. n : LeftUpTo(q, i) = LeftUpTo(q, i - 1) \o LeftOf(q[i])
  BY LeftStep
<1>4. \A i \in 1 .. n : LeftOf(q[i]) \in Seq(WireBytes)
  BY ElementOfSeq, LeftOfIs
<1> DEFINE e == <<q[1].msg, q[1].written + 1>>
<1> DEFINE S == {i \in 1 .. n : Len(LeftUpTo(q, i)) >= 1 /\ LeftUpTo(q, i)[1] = e}
<1>5. 1 \in S
  <2>1. 1 \in 1 .. n /\ 1 - 1 = 0 /\ q[1] \in Outs
    BY <1>1, ElementOfSeq
  <2>2. LeftUpTo(q, 1) = <<>> \o LeftOf(q[1])
    <3>1. LeftUpTo(q, 0) = <<>>
      BY LeftStep
    <3> QED BY <1>3, <2>1, <3>1
  <2>3. LeftUpTo(q, 1) = LeftOf(q[1])
    BY <1>4, <2>1, <2>2, ConcatEmptySeq
  <2>4. ToWrite(q[1]) \in Nat /\ ToWrite(q[1]) > 0
    BY <2>1, Sizes
  <2>5. Len(LeftOf(q[1])) = ToWrite(q[1])
        /\ \A j \in 1 .. ToWrite(q[1]) : LeftOf(q[1])[j] = <<q[1].msg, q[1].written + j>>
    BY <2>1, LeftOfIs
  <2>6. 1 \in 1 .. ToWrite(q[1]) /\ Len(LeftOf(q[1])) >= 1
    BY <2>4, <2>5
  <2> QED BY <2>1, <2>3, <2>5, <2>6
<1>6. \A i \in 1 .. n - 1 : i \in S => i + 1 \in S
  <2>1. SUFFICES ASSUME NEW i \in 1 .. n - 1, i \in S PROVE i + 1 \in S
    OBVIOUS
  <2> DEFINE a == LeftUpTo(q, i)
  <2> DEFINE b == LeftOf(q[i + 1])
  <2>2. i + 1 \in 1 .. n /\ (i + 1) - 1 = i /\ i \in 0 .. n
    BY <1>1
  <2>3. a \in Seq(WireBytes) /\ b \in Seq(WireBytes) /\ LeftUpTo(q, i + 1) = a \o b
    BY <1>2, <1>3, <1>4, <2>2
  <2>4. Len(a) >= 1 /\ a[1] = e
    BY <2>1
  <2> HIDE DEF a, b, e
  <2>5. /\ Len(a \o b) = Len(a) + Len(b) /\ Len(a) \in Nat /\ Len(b) \in Nat
        /\ \A k \in 1 .. Len(a) + Len(b) : (a \o b)[k] = IF k <= Len(a) THEN a[k] ELSE b[k - Len(a)]
    BY <2>3, ConcatProperties, LenProperties
  <2>6. 1 \in 1 .. Len(a) + Len(b) /\ 1 <= Len(a) /\ Len(a \o b) >= 1
    BY <2>4, <2>5
  <2>7. (a \o b)[1] = e
    BY <2>4, <2>5, <2>6
  <2> QED BY <2>2, <2>3, <2>6, <2>7
<1>7. n \in S
  <2>1. n \in 1 .. n
    BY <1>1
  <2> HIDE DEF S, n
  <2> QED BY <1>1, <1>5, <1>6, <2>1, UpInduction
<1>8. Left(q) = LeftUpTo(q, n)
  BY DEF Left
<1>9. Left(q) # <<>>
  BY <1>7, <1>8, EmptySeq
<1>10. Left(q) \in Seq(WireBytes)
  BY LeftIs
<1> QED BY <1>7, <1>8, <1>9, <1>10

-----------------------------------------------------------------------------
(* One sendmsg                                                             *)

\* Two beginnings of the same sequence that are equally long are the same.
LEMMA SamePrefix ==
  ASSUME NEW S, NEW a \in Seq(S), NEW b \in Seq(S), NEW c \in Seq(S), NEW d \in Seq(S),
         a \o b = c \o d, Len(a) = Len(c)
  PROVE  a = c
<1> DEFINE x == a \o b
<1> DEFINE y == c \o d
<1>1. /\ Len(a) \in Nat /\ Len(b) \in Nat /\ Len(c) \in Nat /\ Len(d) \in Nat
      /\ \A i \in 1 .. Len(a) + Len(b) : x[i] = IF i <= Len(a) THEN a[i] ELSE b[i - Len(a)]
      /\ \A i \in 1 .. Len(c) + Len(d) : y[i] = IF i <= Len(c) THEN c[i] ELSE d[i - Len(c)]
  BY ConcatProperties, LenProperties
<1>2. x = y
  OBVIOUS
<1> HIDE DEF x, y
<1>3. ASSUME NEW i \in 1 .. Len(a) PROVE a[i] = c[i]
  <2>1. i \in 1 .. Len(a) + Len(b) /\ i \in 1 .. Len(c) + Len(d) /\ i <= Len(a) /\ i <= Len(c)
    BY <1>1
  <2>2. x[i] = a[i]
    BY <1>1, <2>1
  <2>3. y[i] = c[i]
    BY <1>1, <2>1
  <2> QED BY <1>2, <2>2, <2>3
<1> QED BY <1>3, SeqEqual

\* update_written for a queue and the message behind it
LEMMA CreditedAppend ==
  ASSUME NEW q \in Seq(Outs), NEW o \in Outs, NEW n \in Nat, NEW u, Credited(q, n, Len(q), u)
  PROVE  Credited(Append(q, o), n, Len(Append(q, o)), Advance(u, o))
<1> DEFINE a == Append(q, o)
<1>1. /\ a \in Seq(Outs) /\ Len(a) = Len(q) + 1 /\ Len(q) \in Nat
      /\ a[Len(q) + 1] = o /\ \A k \in 1 .. Len(q) : a[k] = q[k]
      /\ LeftUpTo(a, Len(q)) = Left(q)
  BY Appended
<1> HIDE DEF a
<1>2. /\ u.queue \in Seq(Outs) /\ u.left \in Nat /\ Len(u.queue) \in 0 .. Len(q)
      /\ Suffix(q, Len(q), u.queue)
  BY DEF Credited
<1>3. PICK p \in Seq(WireBytes) : Taken(q, n, Len(q), u, p)
  BY DEF Credited
<1>4. Suffix(a, Len(q), u.queue)
  <2>1. ASSUME NEW k \in 1 .. Len(u.queue)
        PROVE  /\ u.queue[k].msg = a[Len(q) - Len(u.queue) + k].msg
               /\ k > 1 => u.queue[k] = a[Len(q) - Len(u.queue) + k]
    <3>1. Len(q) - Len(u.queue) + k \in 1 .. Len(q)
      BY <1>1, <1>2
    <3> QED BY <1>1, <1>2, <3>1 DEF Suffix
  <2> QED BY <2>1 DEF Suffix
<1>5. Taken(a, n, Len(q), u, p)
  <2>1. ASSUME NEW k \in 1 .. Len(q) - Len(u.queue)
        PROVE  Has(p, <<a[k].msg, Size(a[k].msg)>>)
    <3>1. k \in 1 .. Len(q)
      BY <1>1, <1>2
    <3>2. Has(p, <<q[k].msg, Size(q[k].msg)>>) /\ a[k] = q[k]
      BY <1>1, <1>3, <3>1 DEF Taken
    <3> QED BY <3>2
  <2>2. p \o Left(u.queue) = LeftUpTo(a, Len(q))
    BY <1>1, <1>3 DEF Taken, Left
  <2> QED BY <1>3, <2>1, <2>2 DEF Taken
<1>6. Credited(a, n, Len(q), u)
  BY <1>2, <1>3, <1>4, <1>5 DEF Credited
<1>7. Len(a) \in 1 .. Len(a) /\ Len(a) - 1 = Len(q) /\ a[Len(a)] = o
  BY <1>1
<1>8. Credited(a, n, Len(a), Advance(u, a[Len(a)]))
  BY <1>1, <1>6, <1>7, AdvanceIs
<1> QED BY <1>7, <1>8 DEF a

\* What is credited to the new message is no more than it has to write; then it
\* is done, and the queue is empty, or it stays behind the queue.
LEMMA AdvanceNew ==
  ASSUME NEW q \in Seq(Outs), NEW o \in Outs, NEW n \in Nat, NEW u, Credited(q, n, Len(q), u),
         n <= Len(Left(Append(q, o)))
  PROVE  LET z == [o EXCEPT !.written = @ + u.left] IN
         /\ u.queue \in Seq(Outs)
         /\ ToWrite(z) = 0 => u.queue = <<>> /\ Advance(u, o).queue = <<>>
         /\ ToWrite(z) # 0 => /\ z \in Outs /\ z.msg = o.msg
                              /\ Advance(u, o).queue = Append(u.queue, z)
<1> DEFINE z == [o EXCEPT !.written = @ + u.left]
<1> DEFINE l == ToWrite(o)
<1>1. /\ u.queue \in Seq(Outs) /\ u.left \in Nat
  BY DEF Credited
<1>2. PICK p \in Seq(WireBytes) :
        /\ p \o Left(u.queue) = Left(q)
        /\ IF u.queue = <<>> THEN Len(p) + u.left = n ELSE Len(p) = n /\ u.left = 0
  BY DEF Credited, Taken, Left
<1>3. Len(Left(Append(q, o))) = Len(Left(q)) + l /\ Len(Left(q)) \in Nat /\ Len(p) \in Nat
  <2>1. Left(Append(q, o)) = Left(q) \o LeftOf(o) /\ Left(q) \in Seq(WireBytes)
        /\ LeftOf(o) \in Seq(WireBytes) /\ Len(LeftOf(o)) = l
    BY Appended, LeftIs, LeftOfIs
  <2>2. Len(Left(q) \o LeftOf(o)) = Len(Left(q)) + Len(LeftOf(o))
    BY <2>1, ConcatProperties, ZenonT(60)
  <2> QED BY <2>1, <2>2, LenProperties
<1>4. l \in Nat /\ l > 0 /\ l = Size(o.msg) - o.written /\ o.written \in Nat
      /\ Size(o.msg) \in Nat /\ o \in [msg : Futures, written : Nat]
  BY Sizes
<1>5. u.left <= l
  <2>1. CASE u.queue = <<>>
    <3>1. p = Left(q)
      <4>1. Left(u.queue) = <<>>
        BY <1>1, <2>1, LeftIs
      <4> QED BY <1>2, <4>1, ConcatEmptySeq
    <3> QED BY <1>1, <1>2, <1>3, <1>4, <2>1, <3>1
  <2>2. CASE u.queue # <<>>
    BY <1>2, <1>4, <2>2
  <2> QED BY <2>1, <2>2
<1>6. ToWrite(z) = l - u.left
  <2>1. z.msg = o.msg /\ z.written = o.written + u.left
    BY <1>4
  <2> HIDE DEF z
  <2> QED BY <1>1, <1>4, <2>1 DEF ToWrite
<1>7. Advance(u, o).queue = IF u.left >= l /\ u.queue = <<>> THEN <<>> ELSE Append(u.queue, z)
  BY DEF Advance
<1>8. CASE u.left = l
  <2>1. u.queue = <<>>
    BY <1>2, <1>4, <1>8
  <2>2. ToWrite(z) = 0
    BY <1>1, <1>4, <1>6, <1>8
  <2> QED BY <1>1, <1>4, <1>7, <1>8, <2>1, <2>2
<1>9. CASE u.left # l
  <2>1. u.left < l
    BY <1>1, <1>4, <1>5, <1>9
  <2>2. ToWrite(z) # 0
    BY <1>1, <1>4, <1>6, <2>1
  <2>3. z \in Outs /\ z.msg = o.msg
    BY <1>1, <2>1, Partly
  <2>4. ~(u.left >= l)
    BY <1>1, <1>4, <2>1
  <2> QED BY <1>1, <1>7, <2>2, <2>3, <2>4
<1> QED BY <1>8, <1>9

\* The bytes the kernel took, the front part of the write, are the ones that are
\* credited; what left the queue is among them to its last byte.
LEMMA Written ==
  ASSUME NEW q \in Seq(Outs), NEW w, Chunk(q, w), NEW n \in 1 .. Len(Bytes(w.ios)),
         NEW u, Credited(q, n, Len(q), u)
  PROVE  LET c == SubSeq(Bytes(w.ios), 1, n) IN
         /\ c \in Seq(WireBytes) /\ c # <<>> /\ q # <<>>
         /\ c[1] = <<q[1].msg, q[1].written + 1>>
         /\ c \o Left(u.queue) = Left(q)
         /\ \A k \in 1 .. Len(q) - Len(u.queue) : Has(c, <<q[k].msg, Size(q[k].msg)>>)
         /\ From(c, Takes(q, Len(q)))
<1> DEFINE b == Bytes(w.ios)
<1> DEFINE c == SubSeq(b, 1, n)
<1> DEFINE d == SubSeq(b, n + 1, Len(b))
<1>1. PICK r \in Seq(WireBytes) : b \o r = Left(q)
  BY DEF Chunk
<1>2. b \in Seq(WireBytes) /\ From(b, Takes(q, Len(q))) /\ Len(b) \in Nat /\ Len(r) \in Nat
  BY BytesType, LenProperties DEF Chunk, Writes
<1>3. u.queue \in Seq(Outs) /\ u.left \in Nat
  BY DEF Credited
<1>4. PICK p \in Seq(WireBytes) : Taken(q, n, Len(q), u, p)
  BY DEF Credited
<1>5. /\ p \o Left(u.queue) = Left(q)
      /\ IF u.queue = <<>> THEN Len(p) + u.left = n ELSE Len(p) = n /\ u.left = 0
      /\ \A k \in 1 .. Len(q) - Len(u.queue) : Has(p, <<q[k].msg, Size(q[k].msg)>>)
  BY <1>4 DEF Taken, Left
<1> HIDE DEF b
<1>6. /\ c \in Seq(WireBytes) /\ d \in Seq(WireBytes) /\ Len(c) = n /\ c \o d = b
  <2>1. n \in 0 .. Len(b)
    BY <1>2 DEF b
  <2> QED BY <1>2, <2>1, Cut
<1> HIDE DEF c, d
<1>7. Left(u.queue) \in Seq(WireBytes) /\ Left(q) \in Seq(WireBytes) /\ Len(p) \in Nat
      /\ (u.queue = <<>> => Left(u.queue) = <<>>)
  BY <1>3, LeftIs, LenProperties
<1>8. Len(p) = n
  <2>1. CASE u.queue = <<>>
    <3>1. p = b \o r
      BY <1>1, <1>5, <1>7, <2>1, ConcatEmptySeq
    <3>2. Len(b \o r) = Len(b) + Len(r)
      BY <1>2, ConcatProperties
    <3>3. n <= Len(b) /\ n \in Nat
      BY <1>2 DEF b
    <3> QED BY <1>2, <1>3, <1>5, <2>1, <3>1, <3>2, <3>3
  <2>2. CASE u.queue # <<>>
    BY <1>5, <2>2
  <2> QED BY <2>1, <2>2
<1>9. c \o (d \o r) = Left(q) /\ d \o r \in Seq(WireBytes)
  <2>1. (c \o d) \o r = c \o (d \o r) /\ d \o r \in Seq(WireBytes)
    <3>1. c \in Seq(WireBytes) /\ d \in Seq(WireBytes) /\ r \in Seq(WireBytes)
      BY <1>6
    <3>2. \A x, y, z \in Seq(WireBytes) : (x \o y) \o z = x \o (y \o z) /\ y \o z \in Seq(WireBytes)
      BY ONLY Regroup, SMTT(40)
    <3> QED BY ONLY <3>1, <3>2, ZenonT(60)
  <2> QED BY <1>1, <1>6, <2>1
<1>10. p = c
  <2> DEFINE e == d \o r
  <2> DEFINE g == Left(u.queue)
  <2>1. e \in Seq(WireBytes) /\ g \in Seq(WireBytes) /\ c \in Seq(WireBytes) /\ p \o g = c \o e
        /\ Len(p) = Len(c)
    BY <1>5, <1>6, <1>7, <1>8, <1>9
  <2> HIDE DEF e, g
  <2> QED BY <2>1, SamePrefix
<1>11. c # <<>>
  BY <1>6, EmptySeq
<1>12. From(c, Takes(q, Len(q)))
  BY <1>2, <1>6, ConcatFrom
<1>13. q # <<>>
  <2>1. SUFFICES ASSUME q = <<>> PROVE FALSE
    OBVIOUS
  <2>2. Left(q) = <<>> /\ Len(<<>>) = 0
    BY <2>1, LeftIs
  <2>3. Len(b \o r) = Len(b) + Len(r)
    BY <1>2, ConcatProperties
  <2>4. Len(b) > 0
    BY <1>2 DEF b
  <2> QED BY <1>1, <1>2, <2>2, <2>3, <2>4
<1>14. c[1] = <<q[1].msg, q[1].written + 1>>
  <2>1. Left(q)[1] = <<q[1].msg, q[1].written + 1>>
    BY <1>13, FirstByte
  <2> DEFINE e == d \o r
  <2>2. e \in Seq(WireBytes) /\ c \o e = Left(q)
    BY <1>9
  <2> HIDE DEF e
  <2>3. 1 \in 1 .. Len(c) + Len(e) /\ 1 <= Len(c)
    <3>1. Len(c) = n /\ n \in Nat /\ n >= 1 /\ Len(e) \in Nat
      BY <1>2, <1>6, <2>2, LenProperties DEF b
    <3> QED BY <3>1
  <2>4. \A i \in 1 .. Len(c) + Len(e) : (c \o e)[i] = IF i <= Len(c) THEN c[i] ELSE e[i - Len(c)]
    BY <1>6, <2>2, ConcatProperties
  <2> QED BY <2>1, <2>2, <2>3, <2>4
<1> QED BY <1>5, <1>6, <1>10, <1>11, <1>12, <1>13, <1>14 DEF b, c

\* A RawOut of which nothing is written
LEMMA NewOutIs ==
  ASSUME NEW f \in Futures
  PROVE  NewOut(f) \in Outs /\ NewOut(f).msg = f /\ NewOut(f).written = 0
<1>1. NewOut(f).msg = f /\ NewOut(f).written = 0 /\ NewOut(f) \in [msg : Futures, written : Nat]
  BY DEF NewOut
<1>2. Size(f) > 0
  BY SendAssumption DEF Size
<1> QED BY <1>1, <1>2 DEF Outs

-----------------------------------------------------------------------------
(* Whole messages one after the other                                      *)

\* Also on the first part of the bytes
LEMMA FramedPrefix ==
  ASSUME NEW a \in Seq(WireBytes), NEW b \in Seq(WireBytes), Framed(a \o b)
  PROVE  Framed(a)
<1> DEFINE c == a \o b
<1>1. /\ Len(a) \in Nat /\ Len(b) \in Nat /\ Len(c) = Len(a) + Len(b) /\ c \in Seq(WireBytes)
      /\ \A i \in 1 .. Len(a) + Len(b) : c[i] = IF i <= Len(a) THEN a[i] ELSE b[i - Len(a)]
  BY ConcatProperties, LenProperties
<1>2. Framed(c)
  OBVIOUS
<1> HIDE DEF c
<1>3. \A i \in 1 .. Len(a) : c[i] = a[i]
  <2>1. SUFFICES ASSUME NEW i \in 1 .. Len(a) PROVE c[i] = a[i]
    OBVIOUS
  <2>2. i \in 1 .. Len(a) + Len(b) /\ i <= Len(a)
    BY <1>1
  <2> QED BY <1>1, <2>2
<1>4. a # <<>> => a[1][2] = 1
  <2>1. SUFFICES ASSUME a # <<>> PROVE a[1][2] = 1
    OBVIOUS
  <2>2. 1 \in 1 .. Len(a) /\ c # <<>>
    BY <1>1, <2>1, EmptySeq
  <2> QED BY <1>2, <1>3, <2>2 DEF Framed
<1>5. ASSUME NEW i \in 1 .. Len(a) - 1
      PROVE  IF a[i][2] < Size(a[i][1]) THEN a[i + 1] = <<a[i][1], a[i][2] + 1>>
             ELSE a[i + 1][2] = 1 /\ \A j \in 1 .. i : a[j][1] # a[i + 1][1]
  <2>1. i \in 1 .. Len(c) - 1 /\ i \in 1 .. Len(a) /\ i + 1 \in 1 .. Len(a)
        /\ \A j \in 1 .. i : j \in 1 .. Len(a)
    BY <1>1
  <2>2. IF c[i][2] < Size(c[i][1]) THEN c[i + 1] = <<c[i][1], c[i][2] + 1>>
        ELSE c[i + 1][2] = 1 /\ \A j \in 1 .. i : c[j][1] # c[i + 1][1]
    BY <1>2, <2>1 DEF Framed
  <2>3. c[i] = a[i] /\ c[i + 1] = a[i + 1] /\ \A j \in 1 .. i : c[j] = a[j]
    BY <1>3, <2>1
  <2> QED BY <2>2, <2>3
<1> QED BY <1>4, <1>5 DEF Framed

\* A whole message of which there was nothing may follow.
LEMMA FramedNext ==
  ASSUME NEW s \in Seq(WireBytes), NEW f \in Futures, Framed(s), EndsWhole(s),
         \A i \in 1 .. Len(s) : s[i][1] # f
  PROVE  Framed(s \o LeftOf(NewOut(f))) /\ EndsWhole(s \o LeftOf(NewOut(f)))
<1> DEFINE t == LeftOf(NewOut(f))
<1> DEFINE c == s \o t
<1> DEFINE l == Size(f)
<1> DEFINE m == Len(s)
<1>1. /\ l \in Nat /\ l > 0 /\ t \in Seq(WireBytes) /\ Len(t) = l
      /\ \A j \in 1 .. l : t[j] = <<f, j>>
  <2> DEFINE o == NewOut(f)
  <2>1. o.msg = f /\ o.written = 0 /\ o \in Outs
    BY NewOutIs
  <2> HIDE DEF o
  <2>2. ToWrite(o) = l /\ l \in Nat /\ l > 0
    BY <2>1, Sizes
  <2>3. LeftOf(o) \in Seq(WireBytes) /\ Len(LeftOf(o)) = l
        /\ \A j \in 1 .. l : LeftOf(o)[j] = <<f, 0 + j>>
    BY <2>1, <2>2, LeftOfIs
  <2>4. \A j \in 1 .. l : 0 + j = j
    BY <2>2
  <2> QED BY <2>2, <2>3, <2>4 DEF o
<1> HIDE DEF t, l
<1>2. /\ m \in Nat /\ Len(c) = m + l
      /\ \A i \in 1 .. m + l : c[i] = IF i <= m THEN s[i] ELSE t[i - m]
  <2>1. /\ Len(s) \in Nat /\ Len(c) = Len(s) + Len(t)
        /\ \A i \in 1 .. Len(s) + Len(t) : c[i] = IF i <= Len(s) THEN s[i] ELSE t[i - Len(s)]
    BY <1>1, ConcatProperties, LenProperties
  <2> HIDE DEF c
  <2> QED BY <1>1, <2>1
<1>3. s = <<>> <=> m = 0
  BY EmptySeq
<1> HIDE DEF c
<1>4. /\ \A i \in 1 .. m : c[i] = s[i]
      /\ \A j \in 1 .. l : c[m + j] = <<f, j>>
  <2>1. ASSUME NEW i \in 1 .. m PROVE c[i] = s[i]
    <3>1. i \in 1 .. m + l /\ i <= m
      BY <1>1, <1>2
    <3> QED BY <1>2, <3>1
  <2>2. ASSUME NEW j \in 1 .. l PROVE c[m + j] = <<f, j>>
    <3>1. m + j \in 1 .. m + l /\ ~(m + j <= m) /\ (m + j) - m = j
      BY <1>1, <1>2
    <3>2. c[m + j] = t[j]
      BY <1>2, <3>1
    <3> QED BY <1>1, <3>2
  <2> QED BY <2>1, <2>2
<1>5. c[1][2] = 1
  <2>1. CASE m = 0
    <3>1. 1 \in 1 .. l /\ 0 + 1 = 1
      BY <1>1
    <3>2. c[1] = <<f, 1>>
      BY <1>4, <2>1, <3>1
    <3> QED BY <3>2
  <2>2. CASE m # 0
    <3>1. 1 \in 1 .. m
      BY <1>2, <2>2
    <3>2. s[1][2] = 1
      BY <1>3, <2>2 DEF Framed
    <3> QED BY <1>4, <3>1, <3>2
  <2> QED BY <2>1, <2>2
<1>6. ASSUME NEW i \in 1 .. (m + l) - 1
      PROVE  IF c[i][2] < Size(c[i][1]) THEN c[i + 1] = <<c[i][1], c[i][2] + 1>>
             ELSE c[i + 1][2] = 1 /\ \A j \in 1 .. i : c[j][1] # c[i + 1][1]
  <2>1. CASE i < m
    <3>1. i \in 1 .. m - 1 /\ i \in 1 .. m /\ i + 1 \in 1 .. m /\ \A j \in 1 .. i : j \in 1 .. m
      BY <1>2, <2>1
    <3>2. IF s[i][2] < Size(s[i][1]) THEN s[i + 1] = <<s[i][1], s[i][2] + 1>>
          ELSE s[i + 1][2] = 1 /\ \A j \in 1 .. i : s[j][1] # s[i + 1][1]
      BY <3>1 DEF Framed
    <3>3. c[i] = s[i] /\ c[i + 1] = s[i + 1] /\ \A j \in 1 .. i : c[j] = s[j]
      BY <1>4, <3>1
    <3> QED BY <3>2, <3>3
  <2>2. CASE i = m
    <3>1. m # 0 /\ m \in 1 .. m /\ 1 \in 1 .. l
      BY <1>1, <1>2, <2>2
    <3>2. s[m][2] = Size(s[m][1])
      BY <1>3, <3>1 DEF EndsWhole
    <3>3. c[i] = s[m] /\ c[i + 1] = <<f, 1>>
      BY <1>4, <2>2, <3>1
    <3>4. s[m][2] \in Nat
      <4>1. s[m] \in WireBytes
        BY <3>1, ElementOfSeq
      <4> QED BY <4>1 DEF WireBytes
    <3>5. ~(c[i][2] < Size(c[i][1]))
      BY <3>2, <3>3, <3>4
    <3>6. c[i + 1][1] = f /\ c[i + 1][2] = 1
      BY <3>3
    <3>7. \A j \in 1 .. i : c[j][1] # f
      BY <1>4, <2>2
    <3> QED BY <3>5, <3>6, <3>7
  <2>3. CASE i > m
    <3> DEFINE k == i - m
    <3>1. k \in 1 .. l /\ k + 1 \in 1 .. l /\ m + k = i /\ m + (k + 1) = i + 1 /\ k < l
      BY <1>1, <1>2, <2>3
    <3> HIDE DEF k
    <3>2. c[i] = <<f, k>> /\ c[i + 1] = <<f, k + 1>>
      BY <1>4, <3>1
    <3>3. c[i][1] = f /\ c[i][2] = k /\ k < Size(f)
      BY <3>1, <3>2 DEF l
    <3> QED BY <3>2, <3>3
  <2> QED BY <1>2, <2>1, <2>2, <2>3
<1>7. Framed(c)
  BY <1>2, <1>5, <1>6 DEF Framed
<1>8. EndsWhole(c)
  <2>1. l \in 1 .. l
    BY <1>1
  <2>2. c[Len(c)] = <<f, l>>
    BY <1>2, <1>4, <2>1
  <2>3. c[Len(c)][1] = f /\ c[Len(c)][2] = l
    BY <2>2
  <2> QED BY <2>3 DEF EndsWhole, l
<1> QED BY <1>7, <1>8 DEF c, t

\* A byte that is not the first of its message follows one of the same message.
LEMMA Seen ==
  ASSUME NEW a \in Seq(WireBytes), NEW b \in Seq(WireBytes), Framed(a \o b),
         b # <<>>, b[1][2] # 1
  PROVE  Len(a) \in 1 .. Len(a) /\ a[Len(a)][1] = b[1][1]
<1> DEFINE c == a \o b
<1> DEFINE m == Len(a)
<1>1. /\ m \in Nat /\ Len(b) \in Nat /\ Len(c) = m + Len(b)
      /\ \A i \in 1 .. m + Len(b) : c[i] = IF i <= m THEN a[i] ELSE b[i - m]
  BY ConcatProperties, LenProperties
<1>2. Framed(c)
  OBVIOUS
<1>3. Len(b) >= 1
  BY <1>1, EmptySeq
<1> HIDE DEF c, m
<1>4. c[m + 1] = b[1]
  <2>1. m + 1 \in 1 .. m + Len(b) /\ ~(m + 1 <= m) /\ (m + 1) - m = 1
    BY <1>1, <1>3
  <2> QED BY <1>1, <2>1
<1>5. m # 0
  <2>1. SUFFICES ASSUME m = 0 PROVE FALSE
    OBVIOUS
  <2>2. c # <<>>
    BY <1>1, <1>3, EmptySeq
  <2>3. c[1][2] = 1
    BY <1>2, <2>2 DEF Framed
  <2>4. 0 + 1 = 1
    OBVIOUS
  <2> QED BY <1>4, <2>1, <2>3, <2>4
<1>6. m \in 1 .. Len(c) - 1 /\ m \in 1 .. m /\ m \in 1 .. m + Len(b) /\ m <= m
  BY <1>1, <1>3, <1>5
<1>7. c[m] = a[m]
  BY <1>1, <1>6
<1>8. IF c[m][2] < Size(c[m][1]) THEN c[m + 1] = <<c[m][1], c[m][2] + 1>>
      ELSE c[m + 1][2] = 1 /\ \A j \in 1 .. m : c[j][1] # c[m + 1][1]
  BY <1>2, <1>6 DEF Framed
<1>9. b[1] = <<a[m][1], a[m][2] + 1>>
  BY <1>4, <1>7, <1>8
<1>10. a[m][1] = b[1][1]
  BY <1>9
<1> QED BY <1>6, <1>10 DEF m

-----------------------------------------------------------------------------
(* The mutex, and room in the control buffer                               *)

\* Room for as many fds as a message may have is room for fewer.
LEMMA Fits ==
  ASSUME NEW n \in Nat, n <= MaxFds
  PROVE  AddFds(n)
<1>1. MaxFds \in Nat /\ AddFds(MaxFds) /\ AncCap \in Nat
  BY SendAssumption, AncillaryAssumption
<1>2. (n * 4 + 7) \div 8 <= (MaxFds * 4 + 7) \div 8
  BY <1>1
<1>3. (n * 4 + 7) \div 8 \in Nat /\ (MaxFds * 4 + 7) \div 8 \in Nat
  BY <1>1
<1>4. 16 + ((n * 4 + 7) \div 8) * 8 <= 16 + ((MaxFds * 4 + 7) \div 8) * 8
  BY <1>2, <1>3
<1>5. 16 + ((MaxFds * 4 + 7) \div 8) * 8 <= AncCap
  BY <1>1 DEF AddFds, CmsgSpace, FdSize
<1>6. 16 + ((n * 4 + 7) \div 8) * 8 <= AncCap
  BY <1>1, <1>3, <1>4, <1>5
<1> QED BY <1>6 DEF AddFds, CmsgSpace, FdSize

\* The RawOuts in the queue and the new one behind them
LEMMA PendingIs ==
  ASSUME SendTypes
  PROVE  /\ Pending \in Seq(Outs) /\ Len(Pending) \in Nat /\ Len(queue) \in Nat
         /\ \A k \in 1 .. Len(queue) : k \in 1 .. Len(Pending) /\ Pending[k] = queue[k]
         /\ out = None => Pending = queue
         /\ out # None => /\ out \in Outs /\ Pending = Append(queue, out) /\ Pending # <<>>
                          /\ Len(Pending) = Len(queue) + 1 /\ Pending[Len(queue) + 1] = out
<1>1. queue \in Seq(Outs) /\ out \in Outs \cup {None} /\ Len(queue) \in Nat
  BY LenProperties DEF SendTypes
<1>2. CASE out = None
  BY <1>1, <1>2 DEF Pending
<1>3. CASE out # None
  <2>1. out \in Outs /\ Pending = Append(queue, out)
    BY <1>1, <1>3 DEF Pending
  <2>2. /\ Append(queue, out) \in Seq(Outs) /\ Len(Append(queue, out)) = Len(queue) + 1
        /\ Append(queue, out) # <<>> /\ Append(queue, out)[Len(queue) + 1] = out
        /\ \A k \in 1 .. Len(queue) : Append(queue, out)[k] = queue[k]
    BY <1>1, <2>1, Appended
  <2>3. \A k \in 1 .. Len(queue) : k \in 1 .. Len(queue) + 1
    BY <1>1
  <2> QED BY <1>1, <1>3, <2>1, <2>2, <2>3
<1> QED BY <1>2, <1>3

\* The asserts on add_fds hold.
LEMMA Room ==
  ASSUME BaseInv
  PROVE  ControlFits
<1>1. SendTypes /\ Locked /\ Sendable
  BY DEF BaseInv
<1>2. /\ queue \in Seq(Outs) /\ nfds \in [Futures -> Nat] /\ with_fd \in BOOLEAN
      /\ IovNew \in Nat /\ IovNew > 0 /\ IovFinish \in Nat /\ IovFinish > 0
  BY <1>1, SendAssumption DEF SendTypes
<1>3. ASSUME NEW k \in 1 .. Len(Pending), NEW w, w.anc = FdsOf(Pending[k])
      PROVE  AddsFds(w)
  <2> DEFINE m == Pending[k].msg
  <2>1. m \in Futures
    <3>1. Pending[k] \in Outs
      BY <1>1, PendingIs, ElementOfSeq
    <3> QED BY <3>1, Sizes
  <2>2. nfds[m] \in Nat /\ nfds[m] <= MaxFds
    <3>1. ~Refuses(m)
      BY <1>1 DEF Sendable
    <3> QED BY <1>2, <2>1, <3>1, SendAssumption DEF Refuses
  <2>3. AddFds(nfds[m])
    BY <2>2, Fits
  <2>4. w.anc = m \/ w.anc = None
    BY <1>3 DEF FdsOf
  <2> QED BY <2>3, <2>4 DEF AddsFds
<1>4. ASSUME NEW f \in Futures, pc[f] = "write" PROVE AddsFds(PopulateNew(queue, out, IovNew))
  <2>1. out # None
    BY <1>1, <1>4 DEF Locked
  <2>2. out \in Outs /\ Pending = Append(queue, out) /\ Pending # <<>> /\ Pending \in Seq(Outs)
    BY <1>1, <2>1, PendingIs
  <2>3. nfds[out.msg] \in Nat
    BY <1>2, <2>2, Sizes
  <2>4. PopulateNew(queue, out, IovNew).anc = FdsOf(Pending[1])
    BY <1>2, <2>2, <2>3, PopulateNewIs
  <2>5. 1 \in 1 .. Len(Pending)
    BY <2>2, EmptySeq, LenProperties
  <2> QED BY <1>3, <2>4, <2>5
<1>5. ASSUME NEW f \in Futures, pc[f] = "flush" PROVE AddsFds(Populate(queue, IovFinish))
  <2>1. Populate(queue, IovFinish).anc = IF queue = <<>> THEN None ELSE FdsOf(queue[1])
    BY <1>2, PopulateChunk DEF Chunk
  <2>2. CASE queue = <<>>
    BY <2>1, <2>2 DEF AddsFds
  <2>3. CASE queue # <<>>
    <3>1. 1 \in 1 .. Len(queue)
      BY <1>2, <2>3, EmptySeq, LenProperties
    <3>2. 1 \in 1 .. Len(Pending) /\ Pending[1] = queue[1]
      BY <1>1, <3>1, PendingIs
    <3> QED BY <1>3, <2>1, <2>3, <3>2
  <2> QED BY <2>2, <2>3
<1> QED BY <1>4, <1>5 DEF ControlFits

\* What one sendmsg of write_next_message or finish_sending_next does to what is
\* pending: w is the write, n of its bytes are taken, u is what is left.
Wrote(f, w, n, u) ==
  /\ w \in Writes /\ n \in 1 .. Len(Bytes(w.ios)) /\ SendMsg(w, n)
  /\ Credited(Pending, n, Len(Pending), u) /\ Pending' = u.queue
  /\ Pending # <<>> /\ w.anc = FdsOf(Pending[1]) /\ (Alike => Chunk(Pending, w))
  /\ queue' \in Seq(Outs) /\ out' \in Outs \cup {None}
  /\ UNCHANGED <<given, idx, sendIdx, closed>> /\ closed = FALSE
  /\ IF out # None /\ out' = None
     THEN queue' = <<>> /\ Goto(f, "done") /\ holder' = None /\ pc[f] = "write"
     ELSE UNCHANGED <<pc, holder>> /\ (out = None <=> out' = None)
          /\ (out # None => out'.msg = out.msg)

\* finish_sending_next is a write of what is pending,
LEMMA FlushWrote ==
  ASSUME BaseInv, NEW f \in Futures, FlushSome(f)
  PROVE  \E w, n, u : Wrote(f, w, n, u)
<1> DEFINE w == Populate(queue, IovFinish)
<1>1. SendTypes /\ Locked
  BY DEF BaseInv
<1>2. PICK n \in 1 .. Len(Bytes(w.ios)) : SendMsg(w, n) /\ queue' = UpdateWritten(queue, n).queue
  BY DEF FlushSome
<1>3. /\ pc[f] = "flush" /\ queue # <<>> /\ closed = FALSE
      /\ UNCHANGED <<given, idx, out, sendIdx, holder, pc, closed>>
  BY <1>1 DEF FlushSome, SendTypes
<1>4. out = None
  BY <1>1, <1>3 DEF Locked
<1>5. Pending = queue /\ Pending' = queue' /\ queue \in Seq(Outs)
  BY <1>1, <1>3, <1>4 DEF Pending, SendTypes
<1>6. Chunk(queue, w) /\ w \in Writes
  <2>1. Chunk(queue, w)
    BY <1>5, SendAssumption, PopulateChunk
  <2> QED BY <2>1 DEF Chunk
<1> HIDE DEF w
<1> DEFINE u == UpdateWritten(queue, n)
<1>7. Credited(queue, n, Len(queue), u)
  BY <1>5, UpdateIs
<1> HIDE DEF u
<1>8. u.queue \in Seq(Outs) /\ queue' = u.queue
  BY <1>2, <1>7 DEF Credited, u
<1>9. w.anc = FdsOf(queue[1])
  BY <1>3, <1>6 DEF Chunk
<1>10. Wrote(f, w, n, u)
  BY <1>2, <1>3, <1>4, <1>5, <1>6, <1>7, <1>8, <1>9 DEF Wrote
<1> QED BY <1>10

\* and so is write_next_message.
LEMMA WriteWrote ==
  ASSUME BaseInv, NEW f \in Futures, WriteSome(f)
  PROVE  \E w, n, u : Wrote(f, w, n, u)
<1> DEFINE w == PopulateNew(queue, out, IovNew)
<1>1. SendTypes /\ Locked /\ Sendable
  BY DEF BaseInv
<1>2. PICK n \in 1 .. Len(Bytes(w.ios)) :
        LET u == UpdateWritten(queue, n)
            o == [out EXCEPT !.written = @ + u.left] IN
        /\ SendMsg(w, n)
        /\ queue' = u.queue
        /\ IF ToWrite(o) = 0
           THEN Goto(f, "done") /\ holder' = None /\ out' = None
           ELSE out' = o /\ UNCHANGED <<pc, holder>>
  BY DEF WriteSome
<1>3. pc[f] = "write" /\ closed = FALSE /\ UNCHANGED <<given, idx, sendIdx, closed>>
  BY <1>1 DEF WriteSome, SendTypes
<1>4. out # None /\ out \in Outs /\ queue \in Seq(Outs) /\ Pending = Append(queue, out)
      /\ Pending # <<>> /\ Pending \in Seq(Outs) /\ nfds \in [Futures -> Nat] /\ out.msg \in Futures
  <2>1. out # None
    BY <1>1, <1>3 DEF Locked
  <2>2. out \in Outs /\ Pending = Append(queue, out) /\ Pending # <<>> /\ Pending \in Seq(Outs)
    BY <1>1, <2>1, PendingIs
  <2> QED BY <1>1, <2>1, <2>2, Sizes DEF SendTypes
<1>5. /\ w \in Writes /\ w.anc = FdsOf(Pending[1]) /\ Len(Bytes(w.ios)) <= Len(Left(Pending))
      /\ nfds[out.msg] > 0 \/ (\A k \in 1 .. Len(queue) : ~HasFds(queue[k])) => Chunk(Pending, w)
  <2>1. nfds[out.msg] \in Nat /\ IovNew \in Nat /\ IovNew > 0
    BY <1>4, SendAssumption
  <2> QED BY <1>4, <2>1, PopulateNewIs
<1>6. Alike => Chunk(Pending, w)
  <2>1. CASE \A g \in Futures : nfds[g] > 0
    BY <1>4, <1>5, <2>1
  <2>2. CASE \A g \in Futures : nfds[g] = 0 \/ Refuses(g)
    <3>1. ASSUME NEW k \in 1 .. Len(queue) PROVE ~HasFds(queue[k])
      <4>1. ~Refuses(queue[k].msg) /\ queue[k].msg \in Futures
        <5>1. k \in 1 .. Len(Pending) /\ Pending[k] = queue[k] /\ queue[k] \in Outs
          BY <1>1, <1>4, PendingIs, ElementOfSeq
        <5> QED BY <1>1, <5>1, Sizes DEF Sendable
      <4>2. nfds[queue[k].msg] = 0
        BY <2>2, <4>1
      <4> QED BY <4>2 DEF HasFds
    <3> QED BY <1>5, <3>1
  <2> QED BY <2>1, <2>2 DEF Alike
<1>7. n \in Nat /\ n <= Len(Left(Pending))
  <2>1. Len(Bytes(w.ios)) \in Nat /\ Len(Left(Pending)) \in Nat
    BY <1>4, <1>5, BytesType, LeftIs, LenProperties DEF Writes
  <2> HIDE DEF w
  <2> QED BY <1>5, <2>1
<1> HIDE DEF w
<1> DEFINE v == UpdateWritten(queue, n)
<1> DEFINE z == [out EXCEPT !.written = @ + v.left]
<1> DEFINE u == Advance(v, out)
<1>8. /\ SendMsg(w, n) /\ queue' = v.queue
      /\ IF ToWrite(z) = 0 THEN Goto(f, "done") /\ holder' = None /\ out' = None
         ELSE out' = z /\ UNCHANGED <<pc, holder>>
  BY <1>2 DEF w
<1>9. Credited(queue, n, Len(queue), v)
  BY <1>4, <1>7, UpdateIs
<1> HIDE DEF v
<1>10. Credited(Pending, n, Len(Pending), u)
  BY <1>4, <1>7, <1>9, CreditedAppend
<1>11. /\ v.queue \in Seq(Outs)
       /\ ToWrite(z) = 0 => v.queue = <<>> /\ u.queue = <<>>
       /\ ToWrite(z) # 0 => z \in Outs /\ z.msg = out.msg /\ u.queue = Append(v.queue, z)
  BY <1>4, <1>7, <1>9, AdvanceNew, SMTT(40)
<1> HIDE DEF z, u
<1>12. CASE ToWrite(z) = 0
  <2>1. queue' = <<>> /\ out' = None /\ Pending' = u.queue /\ queue' \in Seq(Outs)
    BY <1>8, <1>11, <1>12 DEF Pending
  <2>2. Goto(f, "done") /\ holder' = None
    BY <1>8, <1>12
  <2>3. Wrote(f, w, n, u)
    BY <1>3, <1>4, <1>5, <1>6, <1>8, <1>10, <2>1, <2>2 DEF Wrote
  <2> QED BY <2>3
<1>13. CASE ToWrite(z) # 0
  <2>1. out' = z /\ z \in Outs /\ z.msg = out.msg /\ UNCHANGED <<pc, holder>>
    BY <1>8, <1>11, <1>13
  <2>2. out' # None
    <3>1. z # None
      BY <2>1, SendAssumption DEF Outs
    <3> QED BY <2>1, <3>1
  <2>3. Pending' = u.queue /\ queue' \in Seq(Outs) /\ out' \in Outs \cup {None}
    BY <1>8, <1>11, <1>13, <2>1, <2>2 DEF Pending
  <2>4. Wrote(f, w, n, u)
    BY <1>3, <1>4, <1>5, <1>6, <1>8, <1>10, <2>1, <2>2, <2>3 DEF Wrote
  <2> QED BY <2>4
<1> QED BY <1>12, <1>13

\* Initially nobody holds the mutex and nothing is pending.
LEMMA BaseInit ==
  ASSUME Init
  PROVE  BaseInv /\ Pending = <<>>
<1>1. with_fd \in BOOLEAN /\ nfds \in [Futures -> Nat]
  BY SendAssumption DEF Init
<1>2. SendTypes
  BY <1>1, EmptySeq DEF Init, SendTypes
<1>3. Pending = <<>> /\ Len(<<>>) = 0
  BY DEF Init, Pending
<1>4. Sendable
  <2>1. 1 .. 0 = {}
    OBVIOUS
  <2> QED BY <1>3, <2>1 DEF Sendable
<1>5. Locked
  BY DEF Init, Locked
<1> QED BY <1>2, <1>3, <1>4, <1>5 DEF BaseInv

\* What is pending after a write was pending before it, in the same order.
LEMMA StillPending ==
  ASSUME BaseInv, NEW f \in Futures, NEW w, NEW n, NEW u, Wrote(f, w, n, u)
  PROVE  /\ Pending \in Seq(Outs) /\ Pending' \in Seq(Outs) /\ n \in Nat
         /\ Len(Pending) \in Nat /\ Len(Pending') \in Nat /\ Len(Pending') <= Len(Pending)
         /\ \A k \in 1 .. Len(Pending') :
              /\ (Len(Pending) - Len(Pending')) + k \in 1 .. Len(Pending)
              /\ Pending'[k].msg = Pending[(Len(Pending) - Len(Pending')) + k].msg
              /\ k > 1 => Pending'[k] = Pending[(Len(Pending) - Len(Pending')) + k]
<1> DEFINE q == Pending
<1> DEFINE r == u.queue
<1>1. /\ r \in Seq(Outs) /\ Len(r) \in 0 .. Len(q) /\ Suffix(q, Len(q), r) /\ Pending' = r
  BY DEF Wrote, Credited
<1>2. q \in Seq(Outs) /\ Len(q) \in Nat /\ Len(r) \in Nat
  BY <1>1, PendingIs, LenProperties DEF BaseInv
<1>3. n \in Nat
  BY DEF Wrote
<1> HIDE DEF q, r
<1>4. ASSUME NEW k \in 1 .. Len(r)
      PROVE  /\ (Len(q) - Len(r)) + k \in 1 .. Len(q)
             /\ r[k].msg = q[(Len(q) - Len(r)) + k].msg
             /\ k > 1 => r[k] = q[(Len(q) - Len(r)) + k]
  BY <1>1, <1>2 DEF Suffix
<1>5. Len(r) <= Len(q)
  BY <1>1, <1>2
<1> QED BY <1>1, <1>2, <1>3, <1>4, <1>5 DEF q

\* The mutex is respected, and nothing is queued that may not be sent.
LEMMA BaseNext ==
  ASSUME BaseInv, [Next]_vars
  PROVE  BaseInv'
<1>1. SendTypes /\ Locked /\ Sendable
  BY DEF BaseInv
<1>2. /\ pc \in [Futures -> {"loop", "write", "flush", "done", "error", "cancelled"}]
      /\ sendIdx \in [Futures -> Nat \cup {None}] /\ holder \in Futures \cup {None}
      /\ queue \in Seq(Outs) /\ out \in Outs \cup {None} /\ idx \in Nat
      /\ wire \in Seq(WireBytes) /\ fdLog \subseteq WireBytes /\ closed \in BOOLEAN
      /\ with_fd \in BOOLEAN /\ nfds \in [Futures -> Nat]
  BY <1>1 DEF SendTypes, WireBytes
<1>3. None \notin Futures /\ None \notin Nat
  BY SendAssumption
<1>4. holder = None => out = None
  BY <1>1, <1>3 DEF Locked
<1>5. ASSUME Pending' = Pending, UNCHANGED given PROVE Sendable'
  <2>1. \A m : Refuses(m)' <=> Refuses(m)
    BY <1>5 DEF Refuses, given
  <2> QED BY <1>1, <1>5, <2>1 DEF Sendable
<1>6. ASSUME NEW f \in Futures, EnterNew(f) PROVE BaseInv'
  <2>1. CASE Goto(f, "error") /\ UNCHANGED <<holder, out>>
    <3>1. SendTypes'
      BY <1>2, <1>6, <2>1 DEF EnterNew, Goto, SendTypes, given, WireBytes
    <3>2. Locked'
      BY <1>1, <1>2, <1>6, <2>1 DEF EnterNew, Goto, Locked
    <3>3. Pending' = Pending /\ UNCHANGED given
      BY <1>6, <2>1 DEF EnterNew, Pending
    <3> QED BY <1>5, <3>1, <3>2, <3>3 DEF BaseInv
  <2>2. CASE ~Refuses(f) /\ Goto(f, "write") /\ holder' = f /\ out' = NewOut(f)
    <3>1. NewOut(f) \in Outs /\ NewOut(f).msg = f /\ NewOut(f) # None
      BY NewOutIs, SendAssumption DEF Outs
    <3>2. SendTypes'
      BY <1>2, <1>6, <2>2, <3>1 DEF EnterNew, Goto, SendTypes, given, WireBytes
    <3>3. Locked'
      BY <1>1, <1>2, <1>3, <1>6, <2>2, <3>1 DEF EnterNew, Goto, Locked
    <3>4. /\ Pending = queue /\ Pending' = Append(queue, NewOut(f))
      BY <1>4, <1>6, <2>2, <3>1 DEF EnterNew, Pending
    <3>5. /\ Len(Pending') = Len(queue) + 1 /\ Len(queue) \in Nat
          /\ Pending'[Len(queue) + 1] = NewOut(f)
          /\ \A k \in 1 .. Len(queue) : Pending'[k] = Pending[k]
      BY <1>2, <3>1, <3>4, Appended
    <3>6. \A m : Refuses(m)' <=> Refuses(m)
      BY <1>6 DEF EnterNew, Refuses, given
    <3>7. ASSUME NEW k \in 1 .. Len(Pending') PROVE ~Refuses(Pending'[k].msg)
      <4>1. CASE k = Len(queue) + 1
        BY <2>2, <3>1, <3>5, <4>1
      <4>2. CASE k # Len(queue) + 1
        <5>1. k \in 1 .. Len(queue)
          BY <3>5, <4>2
        <5> QED BY <1>1, <3>4, <3>5, <5>1 DEF Sendable
      <4> QED BY <4>1, <4>2
    <3>8. Sendable'
      BY <3>6, <3>7 DEF Sendable
    <3> QED BY <3>2, <3>3, <3>8 DEF BaseInv
  <2> QED BY <1>6, <2>1, <2>2 DEF EnterNew
<1>7. ASSUME NEW f \in Futures, EnterAgain(f) PROVE BaseInv'
  <2>1. SendTypes'
    BY <1>2, <1>7 DEF EnterAgain, Goto, SendTypes, given, WireBytes
  <2>2. Locked'
    BY <1>1, <1>2, <1>3, <1>4, <1>7 DEF EnterAgain, Goto, Locked
  <2>3. Pending' = Pending /\ UNCHANGED given
    BY <1>7 DEF EnterAgain, Pending
  <2> QED BY <1>5, <2>1, <2>2, <2>3 DEF BaseInv
<1>8. ASSUME NEW f \in Futures, WriteSome(f) \/ FlushSome(f) PROVE BaseInv'
  <2>1. PICK w, n, u : Wrote(f, w, n, u)
    BY <1>8, FlushWrote, WriteWrote
  <2>2. /\ w \in Writes /\ n \in 1 .. Len(Bytes(w.ios)) /\ SendMsg(w, n)
        /\ w.anc \in Futures \cup {None}
    BY <2>1 DEF Wrote, Writes
  <2>3. wire' \in Seq(WireBytes) /\ fdLog' \subseteq WireBytes
    <3> DEFINE b == Bytes(w.ios)
    <3>1. b \in Seq(WireBytes) /\ Len(b) \in Nat
      BY <2>2, BytesType, LenProperties DEF Writes
    <3>2. n \in 0 .. Len(b) /\ wire' = wire \o SubSeq(b, 1, n)
      BY <2>2, <3>1 DEF SendMsg
    <3> HIDE DEF b
    <3>3. SubSeq(b, 1, n) \in Seq(WireBytes)
      BY <3>1, <3>2, Cut
    <3>4. wire' \in Seq(WireBytes)
      BY <1>2, <3>2, <3>3, ConcatProperties
    <3>5. Len(wire) + 1 \in Nat
      BY <1>2, LenProperties
    <3>6. fdLog' = IF w.anc = None THEN fdLog ELSE fdLog \cup {<<w.anc, Len(wire) + 1>>}
      BY <2>2 DEF SendMsg
    <3>7. fdLog' \subseteq WireBytes
      BY <1>2, <2>2, <3>5, <3>6 DEF WireBytes
    <3> QED BY <3>4, <3>7
  <2>4. /\ queue' \in Seq(Outs) /\ out' \in Outs \cup {None}
        /\ UNCHANGED <<given, idx, sendIdx, closed>>
        /\ IF out # None /\ out' = None
           THEN queue' = <<>> /\ Goto(f, "done") /\ holder' = None /\ pc[f] = "write"
           ELSE UNCHANGED <<pc, holder>> /\ (out = None <=> out' = None)
                /\ (out # None => out'.msg = out.msg)
    BY <2>1 DEF Wrote
  <2>5. SendTypes'
    BY <1>2, <2>3, <2>4 DEF Goto, SendTypes, given, WireBytes
  <2>6. Locked'
    BY <1>1, <1>2, <1>3, <2>4 DEF Goto, Locked
  <2>7. Sendable'
    <3>1. \A m : Refuses(m)' <=> Refuses(m)
      BY <2>4 DEF Refuses, given
    <3>2. ASSUME NEW k \in 1 .. Len(Pending') PROVE ~Refuses(Pending'[k].msg)
      <4>1. \E j \in 1 .. Len(Pending) : Pending'[k].msg = Pending[j].msg
        BY <2>1, StillPending
      <4> QED BY <1>1, <4>1 DEF Sendable
    <3> QED BY <3>1, <3>2 DEF Sendable
  <2> QED BY <2>5, <2>6, <2>7 DEF BaseInv
<1>9. ASSUME NEW f \in Futures, WriteBlock(f) PROVE BaseInv'
  <2>1. out # None /\ out \in Outs
    BY <1>1, <1>2, <1>9 DEF Locked, WriteBlock
  <2>2. Append(queue, out) \in Seq(Outs)
    BY <1>2, <2>1, Appended
  <2>3. SendTypes'
    BY <1>2, <1>9, <2>2 DEF WriteBlock, Goto, SendTypes, given, WireBytes
  <2>4. Locked'
    BY <1>1, <1>2, <1>3, <1>9 DEF WriteBlock, Goto, Locked
  <2>5. Pending' = Pending /\ UNCHANGED given
    BY <1>9, <2>1 DEF WriteBlock, Pending
  <2> QED BY <1>5, <2>3, <2>4, <2>5 DEF BaseInv
<1>10. ASSUME NEW f \in Futures, FlushEnd(f) PROVE BaseInv'
  <2>1. SendTypes'
    BY <1>2, <1>10 DEF FlushEnd, Goto, SendTypes, given, WireBytes
  <2>2. Locked'
    BY <1>1, <1>2, <1>3, <1>10 DEF FlushEnd, Goto, Locked
  <2>3. Pending' = Pending /\ UNCHANGED given
    BY <1>10 DEF FlushEnd, Pending
  <2> QED BY <1>5, <2>1, <2>2, <2>3 DEF BaseInv
<1>11. ASSUME NEW f \in Futures, SendError(f) PROVE BaseInv'
  <2>1. SendTypes'
    BY <1>2, <1>11 DEF SendError, Goto, SendTypes, given, WireBytes
  <2>2. Locked'
    BY <1>1, <1>2, <1>3, <1>11 DEF SendError, Goto, Locked
  <2>3. Sendable'
    <3>1. Pending' = queue
      BY <1>11 DEF SendError, Pending
    <3>2. \A m : Refuses(m)' <=> Refuses(m)
      BY <1>11 DEF SendError, Refuses, given
    <3>3. \A k \in 1 .. Len(queue) : ~Refuses(queue[k].msg)
      BY <1>1, PendingIs DEF Sendable
    <3> QED BY <3>1, <3>2, <3>3 DEF Sendable
  <2> QED BY <2>1, <2>2, <2>3 DEF BaseInv
<1>12. ASSUME NEW f \in Futures, Cancel(f) PROVE BaseInv'
  <2>1. SendTypes'
    BY <1>2, <1>12 DEF Cancel, Goto, SendTypes, given, WireBytes
  <2>2. Locked'
    BY <1>1, <1>2, <1>12 DEF Cancel, Goto, Locked
  <2>3. Pending' = Pending /\ UNCHANGED given
    BY <1>12 DEF Cancel, Pending
  <2> QED BY <1>5, <2>1, <2>2, <2>3 DEF BaseInv
<1>13. ASSUME PeerClose PROVE BaseInv'
  <2>1. SendTypes'
    BY <1>2, <1>13 DEF PeerClose, SendTypes, given, WireBytes
  <2>2. Locked'
    BY <1>1, <1>13 DEF PeerClose, Locked
  <2>3. Pending' = Pending /\ UNCHANGED given
    BY <1>13 DEF PeerClose, Pending
  <2> QED BY <1>5, <2>1, <2>2, <2>3 DEF BaseInv
<1>14. ASSUME UNCHANGED vars PROVE BaseInv'
  <2>1. SendTypes'
    BY <1>1, <1>14 DEF vars, SendTypes, given
  <2>2. Locked'
    BY <1>1, <1>14 DEF vars, Locked
  <2>3. Pending' = Pending /\ UNCHANGED given
    BY <1>14 DEF vars, Pending
  <2> QED BY <1>5, <2>1, <2>2, <2>3 DEF BaseInv
<1> QED BY <1>6, <1>7, <1>8, <1>9, <1>10, <1>11, <1>12, <1>13, <1>14 DEF Next, Step

\* The control buffer of a write always has room for its fds (the asserts in
\* sender.rs), also when messages with and without fds are mixed.
THEOREM AlwaysControlFits == Spec => []ControlFits
<1>1. Init => BaseInv
  BY BaseInit
<1>2. BaseInv /\ [Next]_vars => BaseInv'
  BY BaseNext
<1>3. BaseInv => ControlFits
  BY Room
<1> QED BY <1>1, <1>2, <1>3, PTL DEF Spec

-----------------------------------------------------------------------------
(* Whole messages with their fds                                           *)

\* Membership in the bytes the peer saw
LEMMA InSet ==
  ASSUME NEW S, NEW s \in Seq(S), NEW e
  PROVE  e \in ToSet(s) <=> Has(s, e)
BY LenProperties DEF ToSet, Has

\* What the peer saw and what is left are bytes.
LEMMA StreamIs ==
  ASSUME SendTypes
  PROVE  /\ wire \in Seq(WireBytes) /\ Len(wire) \in Nat /\ Left(Pending) \in Seq(WireBytes)
         /\ Stream \in Seq(WireBytes) /\ Stream = wire \o Left(Pending)
<1>1. wire \in Seq(WireBytes)
  BY DEF SendTypes, WireBytes
<1>2. Left(Pending) \in Seq(WireBytes)
  BY PendingIs, LeftIs
<1> QED BY <1>1, <1>2, ConcatProperties, LenProperties DEF Stream

\* The messages that a write takes off the queue are sent; the send indices of the
\* others are their places in what remains.
LEMMA IndexedStep ==
  ASSUME SendTypes, SendTypes', Indexed, idx' = idx, sendIdx' = sendIdx,
         Len(queue') <= Len(queue),
         \A e : Has(wire, e) => Has(wire', e),
         \A k \in 1 .. Len(queue) - Len(queue') : Has(wire', <<queue[k].msg, Size(queue[k].msg)>>),
         \A k \in 1 .. Len(queue') : queue'[k].msg = queue[(Len(queue) - Len(queue')) + k].msg
  PROVE  Indexed'
<1> DEFINE m == Len(queue)
<1> DEFINE r == Len(queue')
<1>1. m \in Nat /\ r \in Nat /\ idx \in Nat /\ r <= m /\ m <= idx
      /\ wire \in Seq(WireBytes) /\ wire' \in Seq(WireBytes)
      /\ sendIdx \in [Futures -> Nat \cup {None}]
  BY LenProperties DEF SendTypes, Indexed, WireBytes
<1>2. \A k \in 1 .. m - r : Has(wire', <<queue[k].msg, Size(queue[k].msg)>>)
  OBVIOUS
<1>3. \A k \in 1 .. r : queue'[k].msg = queue[(m - r) + k].msg
  OBVIOUS
<1> HIDE DEF m, r
<1>4. ASSUME NEW f \in Futures, sendIdx[f] # None
      PROVE  /\ sendIdx[f] < idx
             /\ IF sendIdx[f] < idx - r THEN <<f, Size(f)>> \in ToSet(wire')
                ELSE queue'[sendIdx[f] - (idx - r) + 1].msg = f
  <2> DEFINE i == sendIdx[f]
  <2>1. i \in Nat
    BY <1>1, <1>4
  <2>2. /\ i < idx
        /\ IF i < idx - m THEN <<f, Size(f)>> \in ToSet(wire)
           ELSE queue[i - (idx - m) + 1].msg = f
    BY <1>4 DEF Indexed, CurrentIdx, m
  <2> HIDE DEF i
  <2>3. CASE i < idx - m
    <3>1. i < idx - r
      BY <1>1, <2>1, <2>3
    <3>2. Has(wire, <<f, Size(f)>>)
      BY <1>1, <2>2, <2>3, InSet
    <3>3. Has(wire', <<f, Size(f)>>)
      BY <3>2
    <3>4. <<f, Size(f)>> \in ToSet(wire')
      BY <1>1, <3>3, InSet
    <3> QED BY <2>2, <3>1, <3>4 DEF i
  <2>4. CASE ~(i < idx - m) /\ i < idx - r
    <3> DEFINE k == i - (idx - m) + 1
    <3>1. k \in 1 .. m - r
      BY <1>1, <2>1, <2>4
    <3>2. queue[k].msg = f
      BY <2>2, <2>4
    <3>3. Has(wire', <<f, Size(f)>>)
      BY <1>2, <3>1, <3>2
    <3>4. <<f, Size(f)>> \in ToSet(wire')
      BY <1>1, <3>3, InSet
    <3> QED BY <2>2, <2>4, <3>4 DEF i
  <2>5. CASE ~(i < idx - m) /\ ~(i < idx - r)
    <3> DEFINE k == i - (idx - r) + 1
    <3>1. k \in 1 .. r /\ (m - r) + k = i - (idx - m) + 1
      BY <1>1, <2>1, <2>2, <2>5
    <3>2. queue'[k].msg = queue[i - (idx - m) + 1].msg
      BY <1>3, <3>1
    <3> QED BY <2>2, <2>5, <3>2 DEF i
  <2> QED BY <2>3, <2>4, <2>5
<1>5. Len(queue') <= idx'
  BY <1>1 DEF r
<1>6. CurrentIdx' = idx - r
  BY DEF CurrentIdx, r
<1> QED BY <1>4, <1>5, <1>6 DEF Indexed

\* A write sends a part of the stream and leaves it as it is.
LEMMA WroteStream ==
  ASSUME SendInv, NEW f \in Futures, NEW w, NEW n, NEW u, Wrote(f, w, n, u), SendTypes'
  PROVE  LET c == SubSeq(Bytes(w.ios), 1, n) IN
         /\ WholeStream /\ c \in Seq(WireBytes) /\ c # <<>>
         /\ c[1] = <<Pending[1].msg, Pending[1].written + 1>>
         /\ wire' = wire \o c /\ Stream' = Stream /\ FramedWire'
         /\ \A k \in 1 .. Len(Pending) - Len(Pending') :
              Has(c, <<Pending[k].msg, Size(Pending[k].msg)>>)
         /\ From(c, Takes(Pending, Len(Pending)))
<1> DEFINE c == SubSeq(Bytes(w.ios), 1, n)
<1>1. /\ BaseInv /\ Alike /\ SendTypes /\ closed \in BOOLEAN
  BY DEF SendInv, BaseInv, SendTypes
<1>2. /\ n \in 1 .. Len(Bytes(w.ios)) /\ SendMsg(w, n) /\ Chunk(Pending, w) /\ closed = FALSE
      /\ Credited(Pending, n, Len(Pending), u) /\ Pending' = u.queue
  BY <1>1 DEF Wrote
<1>3. WholeStream
  BY <1>2 DEF SendInv
<1>4. /\ c \in Seq(WireBytes) /\ c # <<>>
      /\ c[1] = <<Pending[1].msg, Pending[1].written + 1>>
      /\ c \o Left(Pending') = Left(Pending)
      /\ \A k \in 1 .. Len(Pending) - Len(Pending') :
           Has(c, <<Pending[k].msg, Size(Pending[k].msg)>>)
      /\ From(c, Takes(Pending, Len(Pending)))
  <2>1. Pending \in Seq(Outs)
    BY <1>1, PendingIs
  <2>2. /\ c \in Seq(WireBytes) /\ c # <<>>
        /\ c[1] = <<Pending[1].msg, Pending[1].written + 1>>
        /\ c \o Left(u.queue) = Left(Pending)
        /\ \A k \in 1 .. Len(Pending) - Len(u.queue) :
             Has(c, <<Pending[k].msg, Size(Pending[k].msg)>>)
        /\ From(c, Takes(Pending, Len(Pending)))
    <3> DEFINE q == Pending
    <3>1. q \in Seq(Outs) /\ Chunk(q, w) /\ n \in 1 .. Len(Bytes(w.ios))
          /\ Credited(q, n, Len(q), u)
      BY <1>2, <2>1
    <3> HIDE DEF q
    <3>2. /\ c \in Seq(WireBytes) /\ c # <<>> /\ q # <<>>
          /\ c[1] = <<q[1].msg, q[1].written + 1>>
          /\ c \o Left(u.queue) = Left(q)
          /\ \A k \in 1 .. Len(q) - Len(u.queue) : Has(c, <<q[k].msg, Size(q[k].msg)>>)
          /\ From(c, Takes(q, Len(q)))
      BY ONLY <3>1, Written, Zenon
    <3> QED BY <3>2 DEF q
  <2> HIDE DEF c
  <2> QED BY <1>2, <2>2
<1>5. wire' = wire \o c
  BY <1>2 DEF SendMsg
<1> HIDE DEF c
<1>6. /\ wire \in Seq(WireBytes) /\ Stream = wire \o Left(Pending)
  BY <1>1, StreamIs
<1>7. /\ Left(Pending') \in Seq(WireBytes) /\ wire' \in Seq(WireBytes)
  <2>1. Pending' \in Seq(Outs)
    BY <1>2 DEF Credited
  <2>2. wire' \in Seq(WireBytes)
    BY DEF SendTypes, WireBytes
  <2> QED BY <2>1, <2>2, LeftIs
<1>8. Stream' = wire' \o Left(Pending')
  BY DEF Stream
<1>9. Stream' = Stream
  <2> DEFINE x == Left(Pending')
  <2>1. \A i, j, k \in Seq(WireBytes) : (i \o j) \o k = i \o (j \o k)
    BY Regroup
  <2>2. x \in Seq(WireBytes) /\ c \in Seq(WireBytes) /\ wire \in Seq(WireBytes)
    BY <1>4, <1>6, <1>7
  <2> HIDE DEF x
  <2>3. (wire \o c) \o x = wire \o (c \o x)
    BY <2>1, <2>2, Zenon
  <2> QED BY <1>4, <1>5, <1>6, <1>8, <2>3 DEF x
<1>10. FramedWire'
  <2>1. Framed(wire' \o Left(Pending'))
    BY <1>3, <1>8, <1>9 DEF WholeStream
  <2>2. Framed(wire')
    BY <1>7, <2>1, FramedPrefix
  <2> QED BY <2>2 DEF FramedWire
<1> QED BY <1>3, <1>4, <1>5, <1>9, <1>10 DEF c

\* Fds go out with the first byte of their message.
LEMMA WroteFds ==
  ASSUME SendInv, NEW f \in Futures, NEW w, NEW n, NEW u, Wrote(f, w, n, u), SendTypes'
  PROVE  FdsLogged'
<1> DEFINE c == SubSeq(Bytes(w.ios), 1, n)
<1> DEFINE q == Pending
<1>1. BaseInv /\ FrontOnly /\ FdsLogged /\ SendTypes
  BY DEF SendInv, BaseInv
<1>2. /\ SendMsg(w, n) /\ q # <<>> /\ w.anc = FdsOf(q[1]) /\ nfds' = nfds
  BY DEF Wrote, given
<1>3. /\ WholeStream /\ c \in Seq(WireBytes) /\ c # <<>>
      /\ c[1] = <<q[1].msg, q[1].written + 1>> /\ wire' = wire \o c
      /\ From(c, Takes(q, Len(q)))
  BY WroteStream
<1> HIDE DEF c
<1>4. q \in Seq(Outs) /\ Len(q) \in Nat /\ q # <<>> /\ 1 \in 1 .. Len(q) /\ q[1] \in Outs
  <2>1. q \in Seq(Outs) /\ Len(q) \in Nat /\ q # <<>>
    BY <1>1, <1>2, PendingIs
  <2>2. 1 \in 1 .. Len(q)
    BY <2>1, EmptySeq
  <2> QED BY <2>1, <2>2, ElementOfSeq
<1> HIDE DEF q
<1>5. q[1].msg \in Futures /\ q[1].written \in Nat /\ nfds \in [Futures -> Nat]
  BY <1>1, <1>4, Sizes DEF SendTypes
<1> DEFINE l == Len(wire)
<1>6. /\ wire \in Seq(WireBytes) /\ l \in Nat /\ Len(c) \in Nat /\ Len(c) > 0
      /\ Len(wire') = l + Len(c)
      /\ \A i \in 1 .. l + Len(c) : wire'[i] = IF i <= l THEN wire[i] ELSE c[i - l]
  <2>1. wire \in Seq(WireBytes)
    BY <1>1, StreamIs
  <2>2. /\ l \in Nat /\ Len(c) \in Nat /\ Len(wire \o c) = l + Len(c)
        /\ \A i \in 1 .. l + Len(c) : (wire \o c)[i] = IF i <= l THEN wire[i] ELSE c[i - l]
    BY <1>3, <2>1, ConcatProperties, LenProperties
  <2>3. Len(c) > 0
    BY <1>3, <2>2, EmptySeq
  <2> HIDE DEF l
  <2> QED BY <1>3, <2>1, <2>2, <2>3
<1>7. fdLog' = IF w.anc = None THEN fdLog ELSE fdLog \cup {<<w.anc, l + 1>>}
  BY <1>2 DEF SendMsg
<1>8. /\ \A e \in fdLog : e[2] \in 1 .. l /\ wire[e[2]] = <<e[1], 1>>
      /\ \A i \in 1 .. l : nfds[wire[i][1]] > 0 => \E e \in fdLog : e[1] = wire[i][1]
  BY <1>1 DEF FdsLogged
<1> HIDE DEF l
<1>9. HasFds(q[1]) => w.anc = q[1].msg /\ w.anc # None /\ q[1].written = 0
  BY <1>2, <1>5, SendAssumption DEF FdsOf, HasFds
<1>10. ~HasFds(q[1]) => w.anc = None
  BY <1>2 DEF FdsOf
<1>11. ASSUME NEW e \in fdLog' PROVE e[2] \in 1 .. Len(wire') /\ wire'[e[2]] = <<e[1], 1>>
  <2>1. CASE e \in fdLog
    <3>1. e[2] \in 1 .. l /\ wire[e[2]] = <<e[1], 1>>
      BY <1>8, <2>1
    <3>2. e[2] \in 1 .. l + Len(c) /\ e[2] <= l
      BY <1>6, <3>1
    <3> QED BY <1>6, <3>1, <3>2
  <2>2. CASE e \notin fdLog
    <3>1. e = <<w.anc, l + 1>> /\ w.anc # None
      BY <1>7, <2>2
    <3>2. w.anc = q[1].msg /\ q[1].written = 0
      BY <1>9, <1>10, <3>1
    <3>3. l + 1 \in 1 .. l + Len(c) /\ ~(l + 1 <= l) /\ (l + 1) - l = 1
      BY <1>6
    <3>4. wire'[l + 1] = c[1]
      BY <1>6, <3>3
    <3>5. c[1] = <<q[1].msg, 1>>
      BY <1>3, <3>2
    <3> QED BY <1>6, <3>1, <3>2, <3>3, <3>4, <3>5
  <2> QED BY <2>1, <2>2
<1>12. ASSUME NEW i \in 1 .. Len(wire'), nfds[wire'[i][1]] > 0
       PROVE  \E e \in fdLog' : e[1] = wire'[i][1]
  <2>1. fdLog \subseteq fdLog'
    BY <1>7
  <2>2. CASE i <= l
    <3>1. i \in 1 .. l /\ wire'[i] = wire[i]
      BY <1>6, <2>2
    <3> QED BY <1>8, <1>12, <2>1, <3>1
  <2>3. CASE ~(i <= l)
    <3> DEFINE j == i - l
    <3>1. j \in 1 .. Len(c) /\ wire'[i] = c[j]
      BY <1>6, <2>3
    <3> HIDE DEF j
    <3>2. c[j][1] \in Takes(q, Len(q))
      BY <1>3, <3>1 DEF From
    <3>3. PICK k \in 1 .. Len(q) : c[j][1] = q[k].msg /\ (k = 1 \/ ~HasFds(q[k]))
      BY <3>2 DEF Takes
    <3>4. nfds[q[k].msg] > 0
      BY <1>12, <3>1, <3>3
    <3>5. k = 1
      <4>1. SUFFICES ASSUME k # 1 PROVE FALSE
        OBVIOUS
      <4>2. k \in 2 .. Len(q)
        BY <1>4, <4>1
      <4>3. q[k].written = 0
        BY <1>1, <4>2 DEF FrontOnly, q
      <4> QED BY <3>3, <3>4, <4>1, <4>3 DEF HasFds
    <3>6. CASE HasFds(q[1])
      <4>1. <<q[1].msg, l + 1>> \in fdLog'
        BY <1>7, <1>9, <3>6
      <4> QED BY <3>1, <3>3, <3>5, <4>1
    <3>7. CASE ~HasFds(q[1])
      <4>1. q[1].written # 0
        BY <3>4, <3>5, <3>7 DEF HasFds
      <4> DEFINE b == Left(q)
      <4>2. b[1] = <<q[1].msg, q[1].written + 1>> /\ b # <<>> /\ b \in Seq(WireBytes)
        BY <1>4, FirstByte
      <4>3. Framed(wire \o b)
        BY <1>3 DEF WholeStream, Stream, q
      <4> HIDE DEF b
      <4>4. b[1][1] = q[1].msg /\ b[1][2] = q[1].written + 1
        BY <4>2
      <4>5. b[1][2] # 1
        BY <1>5, <4>1, <4>4
      <4>6. l \in 1 .. l /\ wire[l][1] = b[1][1]
        BY <1>6, <4>2, <4>3, <4>5, Seen DEF l
      <4>7. nfds[wire[l][1]] > 0
        BY <3>4, <3>5, <4>4, <4>6
      <4>8. \E e \in fdLog : e[1] = wire[l][1]
        BY <1>8, <4>6, <4>7
      <4> QED BY <2>1, <3>1, <3>3, <3>5, <4>4, <4>6, <4>8
    <3> QED BY <3>6, <3>7
  <2> QED BY <2>2, <2>3
<1> QED BY <1>2, <1>11, <1>12 DEF FdsLogged

\* A write keeps the invariant.
LEMMA WroteKeeps ==
  ASSUME SendInv, NEW f \in Futures, NEW w, NEW n, NEW u, Wrote(f, w, n, u), BaseInv'
  PROVE  SendInv'
<1> DEFINE c == SubSeq(Bytes(w.ios), 1, n)
<1>1. /\ BaseInv /\ SendTypes /\ SendTypes' /\ Locked /\ FrontOnly /\ Indexed /\ DoneMeansSent
      /\ Alike
  BY DEF SendInv, BaseInv
<1>2. /\ WholeStream /\ c \in Seq(WireBytes) /\ wire' = wire \o c /\ Stream' = Stream
      /\ FramedWire'
      /\ \A k \in 1 .. Len(Pending) - Len(Pending') :
           Has(c, <<Pending[k].msg, Size(Pending[k].msg)>>)
  BY <1>1, WroteStream
<1> HIDE DEF c
<1>3. /\ Pending \in Seq(Outs) /\ Pending' \in Seq(Outs)
      /\ Len(Pending) \in Nat /\ Len(Pending') \in Nat /\ Len(Pending') <= Len(Pending)
      /\ \A k \in 1 .. Len(Pending') :
           /\ (Len(Pending) - Len(Pending')) + k \in 1 .. Len(Pending)
           /\ Pending'[k].msg = Pending[(Len(Pending) - Len(Pending')) + k].msg
           /\ k > 1 => Pending'[k] = Pending[(Len(Pending) - Len(Pending')) + k]
  BY <1>1, StillPending
<1>4. /\ UNCHANGED <<given, idx, sendIdx, closed>>
      /\ IF out # None /\ out' = None
         THEN queue' = <<>> /\ Goto(f, "done") /\ holder' = None /\ pc[f] = "write"
         ELSE UNCHANGED <<pc, holder>> /\ (out = None <=> out' = None)
              /\ (out # None => out'.msg = out.msg)
  BY DEF Wrote
<1>5. /\ wire \in Seq(WireBytes) /\ wire' \in Seq(WireBytes)
      /\ pc \in [Futures -> {"loop", "write", "flush", "done", "error", "cancelled"}]
      /\ queue \in Seq(Outs) /\ queue' \in Seq(Outs)
      /\ Len(queue) \in Nat /\ Len(queue') \in Nat
  BY <1>1, LenProperties DEF SendTypes, WireBytes
<1>6. \A e : Has(wire, e) \/ Has(c, e) => Has(wire', e)
  BY <1>2, <1>5, InConcat
<1>7. /\ \A k \in 1 .. Len(queue) : k \in 1 .. Len(Pending) /\ Pending[k] = queue[k]
      /\ out = None => Pending = queue
      /\ out # None => /\ Len(Pending) = Len(queue) + 1 /\ Pending[Len(queue) + 1] = out
  BY <1>1, PendingIs
<1>8. /\ \A k \in 1 .. Len(queue') : k \in 1 .. Len(Pending') /\ Pending'[k] = queue'[k]
      /\ out' = None => Pending' = queue'
      /\ out' # None => Len(Pending') = Len(queue') + 1
  <2>1. CASE out' = None
    BY <2>1 DEF Pending
  <2>2. CASE out' # None
    <3>1. out' \in Outs /\ Pending' = Append(queue', out')
      BY <1>1, <2>2 DEF Pending, SendTypes
    <3>2. /\ Len(Append(queue', out')) = Len(queue') + 1
          /\ \A k \in 1 .. Len(queue') : Append(queue', out')[k] = queue'[k]
      BY <1>5, <3>1, Appended
    <3>3. \A k \in 1 .. Len(queue') : k \in 1 .. Len(queue') + 1
      BY <1>5
    <3> QED BY <2>2, <3>1, <3>2, <3>3
  <2> QED BY <2>1, <2>2
<1> DEFINE a == Len(queue)
<1> DEFINE b == Len(queue')
<1> DEFINE A == Len(Pending)
<1> DEFINE B == Len(Pending')
<1>9. out # None /\ out' = None => b = 0 /\ B = 0 /\ A = a + 1
  <2>1. SUFFICES ASSUME out # None, out' = None PROVE b = 0 /\ B = 0 /\ A = a + 1
    OBVIOUS
  <2>2. queue' = <<>> /\ Pending' = queue' /\ Len(<<>>) = 0
    BY <1>4, <1>8, <2>1
  <2> QED BY <1>7, <2>1, <2>2
<1>10. ~(out # None /\ out' = None) => A - B = a - b
  <2>1. SUFFICES ASSUME ~(out # None /\ out' = None) PROVE A - B = a - b
    OBVIOUS
  <2>2. CASE out = None
    <3>1. Pending = queue /\ Pending' = queue'
      BY <1>4, <1>7, <1>8, <2>1, <2>2
    <3> QED BY <3>1
  <2>3. CASE out # None
    <3>1. A = a + 1 /\ B = b + 1
      BY <1>4, <1>7, <1>8, <2>1, <2>3
    <3> HIDE DEF A, B, a, b
    <3>2. a \in Nat /\ b \in Nat
      BY <1>5 DEF a, b
    <3> QED BY <3>1, <3>2
  <2> QED BY <2>2, <2>3
<1>11. a \in Nat /\ b \in Nat /\ A \in Nat /\ B \in Nat /\ B <= A
  BY <1>3, <1>5
<1>12. \A k \in 1 .. A - B : Has(c, <<Pending[k].msg, Size(Pending[k].msg)>>)
  BY <1>2
<1>13. \A k \in 1 .. B :
         /\ (A - B) + k \in 1 .. A
         /\ Pending'[k].msg = Pending[(A - B) + k].msg
         /\ k > 1 => Pending'[k] = Pending[(A - B) + k]
  BY <1>3
<1>14. /\ \A k \in 1 .. a : k \in 1 .. A /\ Pending[k] = queue[k]
       /\ \A k \in 1 .. b : k \in 1 .. B /\ Pending'[k] = queue'[k]
  BY <1>7, <1>8
<1> HIDE DEF a, b, A, B
<1>15. b <= a
  BY <1>9, <1>10, <1>11
<1>16. ASSUME NEW k \in 1 .. a - b PROVE Has(wire', <<queue[k].msg, Size(queue[k].msg)>>)
  <2>1. k \in 1 .. a /\ k \in 1 .. A - B
    BY <1>9, <1>10, <1>11, <1>15
  <2>2. Has(c, <<Pending[k].msg, Size(Pending[k].msg)>>) /\ Pending[k] = queue[k]
    BY <1>12, <1>14, <2>1
  <2> QED BY <1>6, <2>2
<1>17. ASSUME NEW k \in 1 .. b PROVE queue'[k].msg = queue[(a - b) + k].msg
  <2>1. ~(out # None /\ out' = None)
    BY <1>9, <1>11
  <2>2. A - B = a - b /\ (a - b) + k \in 1 .. a
    BY <1>10, <1>11, <1>15, <2>1
  <2>3. Pending[(a - b) + k] = queue[(a - b) + k] /\ Pending'[k] = queue'[k] /\ k \in 1 .. B
    BY <1>14, <2>2
  <2>4. Pending'[k].msg = Pending[(A - B) + k].msg
    BY <1>13, <2>3
  <2> QED BY <2>2, <2>3, <2>4
<1>18. Indexed'
  <2>1. idx' = idx /\ sendIdx' = sendIdx
    BY <1>4
  <2> QED BY <1>1, <1>6, <1>15, <1>16, <1>17, <2>1, IndexedStep DEF a, b
<1>19. ASSUME NEW g \in Futures, pc'[g] = "done" PROVE <<g, Size(g)>> \in ToSet(wire')
  <2>1. CASE pc[g] = "done"
    <3>1. Has(wire, <<g, Size(g)>>)
      BY <1>1, <1>5, <2>1, InSet DEF DoneMeansSent
    <3>2. Has(wire', <<g, Size(g)>>)
      BY <1>6, <3>1
    <3> QED BY <1>5, <3>2, InSet
  <2>2. CASE pc[g] # "done"
    <3>1. g = f /\ out # None /\ out' = None /\ pc[f] = "write"
      BY <1>4, <1>5, <1>19, <2>2 DEF Goto
    <3>2. out.msg = f
      BY <1>1, <3>1 DEF Locked
    <3>3. a + 1 \in 1 .. A - B /\ Pending[a + 1] = out
      BY <1>7, <1>9, <1>11, <3>1 DEF a
    <3>4. Has(c, <<f, Size(f)>>)
      BY <1>12, <3>2, <3>3
    <3>5. Has(wire', <<f, Size(f)>>)
      BY <1>6, <3>4
    <3> QED BY <1>5, <3>1, <3>5, InSet
  <2> QED BY <2>1, <2>2
<1>20. FrontOnly'
  <2>1. ASSUME NEW k \in 2 .. B PROVE Pending'[k].written = 0
    <3>1. k \in 1 .. B /\ k > 1
      BY <1>11
    <3>2. (A - B) + k \in 2 .. A
      BY <1>11
    <3>3. Pending'[k] = Pending[(A - B) + k]
      BY <1>13, <3>1
    <3>4. Pending[(A - B) + k].written = 0
      BY <1>1, <3>2 DEF FrontOnly, A
    <3> QED BY <3>3, <3>4
  <2> QED BY <2>1 DEF FrontOnly, B
<1>21. WholeStream'
  <2>1. \A g \in Futures : pc'[g] = "loop" => pc[g] = "loop"
    BY <1>4, <1>5 DEF Goto
  <2>2. sendIdx' = sendIdx
    BY <1>4
  <2> QED BY <1>2, <2>1, <2>2 DEF WholeStream
<1>22. FdsLogged'
  BY <1>1, WroteFds
<1>23. Alike'
  BY <1>1, <1>4 DEF Alike, Refuses, given
<1>24. DoneMeansSent'
  BY <1>19 DEF DoneMeansSent
<1> QED BY <1>2, <1>18, <1>20, <1>21, <1>22, <1>23, <1>24 DEF SendInv

\* What a step that sends nothing has to show
LEMMA Unsent ==
  ASSUME SendInv, BaseInv', UNCHANGED <<given, wire, fdLog>>, FrontOnly', Indexed',
         DoneMeansSent', ~closed' => WholeStream'
  PROVE  SendInv'
<1>1. Alike'
  BY DEF SendInv, Alike, Refuses, given
<1>2. FramedWire'
  BY DEF SendInv, FramedWire
<1>3. FdsLogged'
  BY DEF SendInv, FdsLogged, given
<1> QED BY <1>1, <1>2, <1>3 DEF SendInv

\* A step that only moves futures on
LEMMA Moved ==
  ASSUME SendInv, BaseInv', UNCHANGED <<given, queue, idx, out, sendIdx, wire, fdLog>>,
         closed' = closed \/ closed' = TRUE,
         \A g \in Futures : pc'[g] = "loop" => pc[g] = "loop" \/ sendIdx[g] # None,
         \A g \in Futures : pc'[g] = "done" =>
           pc[g] = "done" \/ (sendIdx[g] # None /\ CurrentIdx > sendIdx[g])
  PROVE  SendInv'
<1>1. Pending' = Pending /\ FrontOnly /\ Indexed /\ DoneMeansSent /\ (~closed => WholeStream)
  BY DEF SendInv, Pending
<1>2. FrontOnly'
  BY <1>1 DEF FrontOnly
<1>3. Indexed'
  BY <1>1 DEF Indexed, CurrentIdx
<1>4. DoneMeansSent'
  <2>1. ASSUME NEW g \in Futures, pc'[g] = "done" PROVE <<g, Size(g)>> \in ToSet(wire)
    <3>1. CASE pc[g] = "done"
      BY <1>1, <3>1 DEF DoneMeansSent
    <3>2. CASE sendIdx[g] # None /\ CurrentIdx > sendIdx[g]
      <4>1. sendIdx[g] < CurrentIdx
        <5>1. sendIdx[g] \in Nat /\ CurrentIdx \in Int
          BY <3>2, LenProperties DEF SendInv, BaseInv, SendTypes, CurrentIdx
        <5> QED BY <3>2, <5>1
      <4> QED BY <1>1, <3>2, <4>1 DEF Indexed
    <3> QED BY <2>1, <3>1, <3>2
  <2> QED BY <2>1 DEF DoneMeansSent
<1>5. ~closed' => WholeStream'
  <2>1. SUFFICES ASSUME ~closed' PROVE WholeStream'
    OBVIOUS
  <2>2. WholeStream
    BY <1>1, <2>1
  <2>3. Stream' = Stream
    BY <1>1 DEF Stream
  <2> QED BY <2>2, <2>3 DEF WholeStream
<1> QED BY <1>2, <1>3, <1>4, <1>5, Unsent

\* Initially nothing is sent or to be sent.
LEMMA SendInit ==
  ASSUME Unmixed, Init
  PROVE  SendInv
<1>1. BaseInv /\ Pending = <<>>
  BY BaseInit
<1>2. /\ Len(<<>>) = 0 /\ 1 .. 0 = {} /\ 2 .. 0 = {} /\ 1 .. 0 - 1 = {}
      /\ <<>> \in Seq(WireBytes) /\ <<>> \in Seq(Outs)
  BY EmptySeq
<1>3. wire = <<>> /\ queue = <<>> /\ fdLog = {} /\ idx = 0
  BY DEF Init
<1>4. Stream = <<>>
  <2>1. Left(<<>>) = <<>> /\ <<>> \o <<>> = <<>>
    BY <1>2, LeftIs, ConcatEmptySeq
  <2> QED BY <1>1, <1>3, <2>1 DEF Stream
<1>5. Framed(<<>>) /\ EndsWhole(<<>>)
  BY <1>2 DEF Framed, EndsWhole
<1>6. WholeStream
  BY <1>2, <1>4, <1>5 DEF WholeStream
<1>7. FrontOnly
  BY <1>1, <1>2 DEF FrontOnly
<1>8. Indexed
  <2>1. \A f \in Futures : sendIdx[f] = None
    BY DEF Init
  <2> QED BY <1>2, <1>3, <2>1 DEF Indexed
<1>9. FdsLogged
  BY <1>2, <1>3 DEF FdsLogged
<1>10. FramedWire /\ DoneMeansSent
  BY <1>3, <1>5 DEF FramedWire, DoneMeansSent, Init
<1>11. Alike
  <2>1. PICK d \in FdChoices : with_fd = d[1] /\ nfds = d[2]
    BY DEF Init
  <2>2. nfds \in [Futures -> Nat] /\ MaxFds \in Nat
    BY <1>1, SendAssumption DEF BaseInv, SendTypes
  <2>3. \/ \A f \in Futures : nfds[f] = 0 \/ ~with_fd \/ nfds[f] > MaxFds
        \/ \A f \in Futures : nfds[f] > 0
    BY <2>1 DEF Unmixed
  <2>4. \A f \in Futures : nfds[f] = 0 \/ nfds[f] > 0
    BY <2>2
  <2> QED BY <2>3, <2>4 DEF Alike, Refuses
<1> QED BY <1>1, <1>6, <1>7, <1>8, <1>9, <1>10, <1>11 DEF SendInv

\* A new message begins behind what is pending.
LEMMA EnterKeeps ==
  ASSUME SendInv, NEW f \in Futures, EnterNew(f), BaseInv'
  PROVE  SendInv'
<1>1. /\ BaseInv /\ SendTypes /\ Locked /\ FrontOnly /\ Indexed /\ DoneMeansSent
      /\ (~closed => WholeStream)
      /\ pc \in [Futures -> {"loop", "write", "flush", "done", "error", "cancelled"}]
  BY DEF SendInv, BaseInv, SendTypes
<1>2. /\ pc[f] = "loop" /\ holder = None /\ sendIdx[f] = None
      /\ UNCHANGED <<given, queue, idx, sendIdx, wire, fdLog, closed>>
  BY DEF EnterNew
<1>3. CASE Goto(f, "error") /\ UNCHANGED <<holder, out>>
  <2>1. \A g \in Futures : (pc'[g] = "loop" => pc[g] = "loop") /\ (pc'[g] = "done" => pc[g] = "done")
    BY <1>1, <1>3 DEF Goto
  <2>2. UNCHANGED <<given, queue, idx, out, sendIdx, wire, fdLog>> /\ closed' = closed
    BY <1>2, <1>3
  <2> QED BY <2>1, <2>2, Moved
<1>4. CASE Goto(f, "write") /\ holder' = f /\ out' = NewOut(f)
  <2> DEFINE o == NewOut(f)
  <2>1. o \in Outs /\ o.written = 0 /\ o # None
    BY NewOutIs, SendAssumption DEF Outs
  <2>2. out = None
    BY <1>1, <1>2, SendAssumption DEF Locked
  <2>3. Pending = queue /\ Pending' = Append(queue, o) /\ queue \in Seq(Outs)
    BY <1>1, <1>2, <1>4, <2>1, <2>2 DEF Pending, SendTypes
  <2>4. /\ Len(Pending') = Len(queue) + 1 /\ Len(queue) \in Nat
        /\ Pending'[Len(queue) + 1] = o /\ \A k \in 1 .. Len(queue) : Pending'[k] = queue[k]
        /\ Left(Pending') = Left(queue) \o LeftOf(o)
    BY <2>1, <2>3, Appended
  <2>5. FrontOnly'
    <3>1. ASSUME NEW k \in 2 .. Len(Pending') PROVE Pending'[k].written = 0
      <4>1. CASE k = Len(queue) + 1
        BY <2>1, <2>4, <4>1
      <4>2. CASE k # Len(queue) + 1
        <5>1. k \in 2 .. Len(queue) /\ k \in 1 .. Len(queue)
          BY <2>4, <4>2
        <5> QED BY <1>1, <2>3, <2>4, <5>1 DEF FrontOnly
      <4> QED BY <4>1, <4>2
    <3> QED BY <3>1 DEF FrontOnly
  <2>6. Indexed'
    BY <1>1, <1>2 DEF Indexed, CurrentIdx
  <2>7. DoneMeansSent'
    BY <1>1, <1>2, <1>4 DEF DoneMeansSent, Goto
  <2>8. ASSUME ~closed' PROVE WholeStream'
    <3>1. WholeStream
      BY <1>1, <1>2, <2>8
    <3> DEFINE s == Stream
    <3> DEFINE t == LeftOf(o)
    <3>2. s \in Seq(WireBytes) /\ t \in Seq(WireBytes) /\ Stream' = s \o t
      <4> DEFINE x == Left(queue)
      <4>1. wire \in Seq(WireBytes) /\ x \in Seq(WireBytes) /\ t \in Seq(WireBytes)
            /\ s = wire \o x /\ s \in Seq(WireBytes)
        BY <1>1, <2>1, <2>3, StreamIs, LeftOfIs
      <4>2. Stream' = wire \o (x \o t)
        BY <1>2, <2>4 DEF Stream
      <4> HIDE DEF x, t, s
      <4>3. (wire \o x) \o t = wire \o (x \o t)
        <5>1. \A i, j, k \in Seq(WireBytes) : (i \o j) \o k = i \o (j \o k)
          BY Regroup
        <5> QED BY <4>1, <5>1, ZenonT(60)
      <4> QED BY <4>1, <4>2, <4>3
    <3>3. \A i \in 1 .. Len(s) : s[i][1] # f
      BY <1>2, <3>1 DEF WholeStream
    <3>4. Framed(s) /\ EndsWhole(s)
      BY <3>1 DEF WholeStream
    <3> HIDE DEF s
    <3>5. Framed(s \o t) /\ EndsWhole(s \o t)
      BY <3>2, <3>3, <3>4, FramedNext
    <3>6. ASSUME NEW g \in Futures, pc'[g] = "loop", sendIdx'[g] = None
          PROVE  \A i \in 1 .. Len(s \o t) : (s \o t)[i][1] # g
      <4>1. g # f /\ pc[g] = "loop" /\ sendIdx[g] = None
        BY <1>1, <1>2, <1>4, <3>6 DEF Goto
      <4>2. From(s, Futures \ {g})
        <5>1. \A i \in 1 .. Len(s) : s[i][1] # g
          BY <3>1, <4>1 DEF WholeStream, s
        <5>2. \A i \in 1 .. Len(s) : s[i][1] \in Futures
          BY <3>2, ElementOfSeq DEF WireBytes
        <5> QED BY <5>1, <5>2 DEF From
      <4>3. From(t, Futures \ {g})
        <5>1. From(t, {f})
          <6>1. o.msg = f /\ t \o <<>> = t /\ <<>> \in Seq(WireBytes)
            BY <3>2, NewOutIs, ConcatEmptySeq, EmptySeq
          <6>2. From(t, {o.msg})
            BY <2>1, <3>2, <6>1, LeftFrom
          <6> QED BY <6>1, <6>2
        <5> QED BY <4>1, <5>1 DEF From
      <4>4. From(s \o t, Futures \ {g})
        BY <3>2, <4>2, <4>3, ConcatFrom
      <4> QED BY <4>4 DEF From
    <3> QED BY <3>2, <3>5, <3>6 DEF WholeStream
  <2>9. UNCHANGED <<given, wire, fdLog>>
    BY <1>2
  <2> QED BY <2>5, <2>6, <2>7, <2>8, <2>9, Unsent
<1> QED BY <1>3, <1>4 DEF EnterNew

\* What is left of a message is queued under the next send index.
LEMMA BlockKeeps ==
  ASSUME SendInv, NEW f \in Futures, WriteBlock(f), BaseInv'
  PROVE  SendInv'
<1>1. /\ BaseInv /\ SendTypes /\ Locked /\ FrontOnly /\ Indexed /\ DoneMeansSent
      /\ (~closed => WholeStream) /\ idx \in Nat /\ sendIdx \in [Futures -> Nat \cup {None}]
      /\ pc \in [Futures -> {"loop", "write", "flush", "done", "error", "cancelled"}]
  BY DEF SendInv, BaseInv, SendTypes
<1>2. /\ pc[f] = "write" /\ queue' = Append(queue, out) /\ idx' = idx + 1
      /\ sendIdx' = [sendIdx EXCEPT ![f] = idx] /\ out' = None
      /\ pc' = [pc EXCEPT ![f] = "loop"] /\ UNCHANGED <<given, wire, fdLog, closed>>
  BY DEF WriteBlock, Goto
<1>3. out # None /\ out.msg = f /\ out \in Outs /\ queue \in Seq(Outs)
  BY <1>1, <1>2 DEF Locked, SendTypes
<1>4. Pending' = Pending
  BY <1>2, <1>3 DEF Pending
<1> DEFINE m == Len(queue)
<1>5. /\ Len(queue') = m + 1 /\ m \in Nat /\ queue'[m + 1] = out
      /\ \A k \in 1 .. m : queue'[k] = queue[k]
  BY <1>2, <1>3, Appended
<1>6. m <= idx /\ \A g \in Futures : sendIdx[g] # None =>
        /\ sendIdx[g] < idx
        /\ IF sendIdx[g] < idx - m THEN <<g, Size(g)>> \in ToSet(wire)
           ELSE queue[sendIdx[g] - (idx - m) + 1].msg = g
  BY <1>1 DEF Indexed, CurrentIdx
<1> HIDE DEF m
<1>7. Indexed'
  <2>1. CurrentIdx' = idx - m
    BY <1>1, <1>2, <1>5 DEF CurrentIdx
  <2>2. ASSUME NEW g \in Futures, sendIdx'[g] # None
        PROVE  /\ sendIdx'[g] < idx + 1
               /\ IF sendIdx'[g] < idx - m THEN <<g, Size(g)>> \in ToSet(wire)
                  ELSE queue'[sendIdx'[g] - (idx - m) + 1].msg = g
    <3>1. CASE g = f
      <4>1. sendIdx'[g] = idx
        BY <1>1, <1>2, <3>1
      <4>2. idx < idx + 1 /\ ~(idx < idx - m) /\ idx - (idx - m) + 1 = m + 1
        BY <1>1, <1>5
      <4> QED BY <1>3, <1>5, <3>1, <4>1, <4>2
    <3>2. CASE g # f
      <4> DEFINE i == sendIdx[g]
      <4>1. sendIdx'[g] = i /\ i # None /\ i \in Nat
        BY <1>1, <1>2, <2>2, <3>2
      <4>2. /\ i < idx
            /\ IF i < idx - m THEN <<g, Size(g)>> \in ToSet(wire)
               ELSE queue[i - (idx - m) + 1].msg = g
        BY <1>6, <4>1
      <4> HIDE DEF i
      <4>3. i < idx + 1
        BY <1>1, <4>1, <4>2
      <4>4. CASE i < idx - m
        BY <4>1, <4>2, <4>3, <4>4
      <4>5. CASE ~(i < idx - m)
        <5> DEFINE k == i - (idx - m) + 1
        <5>1. k \in 1 .. m
          BY <1>1, <1>5, <4>1, <4>2, <4>5
        <5>2. queue'[k] = queue[k]
          BY <1>5, <5>1
        <5> QED BY <4>1, <4>2, <4>3, <4>5, <5>2
      <4> QED BY <4>4, <4>5
    <3> QED BY <3>1, <3>2
  <2>3. Len(queue') <= idx'
    BY <1>1, <1>2, <1>5, <1>6
  <2> QED BY <1>2, <2>1, <2>2, <2>3 DEF Indexed
<1>8. FrontOnly'
  BY <1>1, <1>4 DEF FrontOnly
<1>9. DoneMeansSent'
  BY <1>1, <1>2 DEF DoneMeansSent
<1>10. ~closed' => WholeStream'
  <2>1. SUFFICES ASSUME ~closed' PROVE WholeStream'
    OBVIOUS
  <2>2. WholeStream /\ Stream' = Stream
    BY <1>1, <1>2, <1>4, <2>1 DEF Stream
  <2>3. \A g \in Futures : pc'[g] = "loop" /\ sendIdx'[g] = None =>
          pc[g] = "loop" /\ sendIdx[g] = None
    <3>1. idx # None
      BY <1>1, SendAssumption
    <3> QED BY <1>1, <1>2, <3>1
  <2> QED BY <2>2, <2>3 DEF WholeStream
<1> QED BY <1>2, <1>7, <1>8, <1>9, <1>10, Unsent

\* After an error of sendmsg nothing more is sent.
LEMMA ErrorKeeps ==
  ASSUME SendInv, NEW f \in Futures, SendError(f), BaseInv'
  PROVE  SendInv'
<1>1. /\ BaseInv /\ SendTypes /\ FrontOnly /\ Indexed /\ DoneMeansSent
      /\ pc \in [Futures -> {"loop", "write", "flush", "done", "error", "cancelled"}]
  BY DEF SendInv, BaseInv, SendTypes
<1>2. /\ closed /\ out' = None /\ pc' = [pc EXCEPT ![f] = "error"]
      /\ UNCHANGED <<given, queue, idx, sendIdx, wire, fdLog, closed>>
  BY DEF SendError, Goto
<1>3. Pending' = queue
  BY <1>2 DEF Pending
<1>4. FrontOnly'
  <2>1. Len(queue) \in Nat
        /\ \A k \in 1 .. Len(queue) : k \in 1 .. Len(Pending) /\ Pending[k] = queue[k]
        /\ Len(Pending) \in Nat
    BY <1>1, PendingIs
  <2>2. ASSUME NEW k \in 2 .. Len(queue) PROVE queue[k].written = 0
    <3>1. k \in 1 .. Len(queue)
      BY <2>1
    <3>2. Pending[k] = queue[k] /\ k \in 1 .. Len(Pending)
      BY <2>1, <3>1
    <3>3. k \in 2 .. Len(Pending)
      BY <2>1, <3>2
    <3> QED BY <1>1, <3>2, <3>3 DEF FrontOnly
  <2> QED BY <1>3, <2>2 DEF FrontOnly
<1>5. Indexed'
  BY <1>1, <1>2 DEF Indexed, CurrentIdx
<1>6. DoneMeansSent'
  BY <1>1, <1>2 DEF DoneMeansSent
<1>7. closed'
  BY <1>2
<1> QED BY <1>2, <1>4, <1>5, <1>6, <1>7, Unsent

\* The invariant is inductive.
LEMMA SendNext ==
  ASSUME SendInv, [Next]_vars
  PROVE  SendInv'
<1>1. BaseInv /\ BaseInv'
  BY BaseNext DEF SendInv
<1>2. /\ pc \in [Futures -> {"loop", "write", "flush", "done", "error", "cancelled"}]
      /\ sendIdx \in [Futures -> Nat \cup {None}] /\ Locked
  BY <1>1 DEF BaseInv, SendTypes
<1>3. ASSUME NEW f \in Futures, EnterAgain(f) PROVE SendInv'
  BY <1>1, <1>2, <1>3, Moved DEF EnterAgain, Goto
<1>4. ASSUME NEW f \in Futures, WriteSome(f) \/ FlushSome(f) PROVE SendInv'
  <2>1. PICK w, n, u : Wrote(f, w, n, u)
    BY <1>1, <1>4, FlushWrote, WriteWrote
  <2> QED BY <1>1, <2>1, WroteKeeps
<1>5. ASSUME NEW f \in Futures, FlushEnd(f) PROVE SendInv'
  <2>1. sendIdx[f] # None
    BY <1>2, <1>5 DEF FlushEnd, Locked
  <2> QED BY <1>1, <1>2, <1>5, <2>1, Moved DEF FlushEnd, Goto
<1>6. ASSUME NEW f \in Futures, Cancel(f) PROVE SendInv'
  BY <1>1, <1>2, <1>6, Moved DEF Cancel, Goto
<1>7. ASSUME PeerClose PROVE SendInv'
  BY <1>1, <1>2, <1>7, Moved DEF PeerClose
<1>8. ASSUME UNCHANGED vars PROVE SendInv'
  BY <1>1, <1>2, <1>8, Moved DEF vars
<1> QED
  BY <1>1, <1>3, <1>4, <1>5, <1>6, <1>7, <1>8, EnterKeeps, BlockKeeps, ErrorKeeps DEF Next, Step

\* When messages with and without fds are not mixed, what the peer saw and what is
\* left to write are whole messages in order, each with its fds, and the send
\* indices are the places in the queue (SendState and send_msg_loop).
THEOREM SendInvariant == ASSUME Unmixed PROVE Spec => []SendInv
<1>1. Init => SendInv
  BY SendInit
<1>2. SendInv /\ [Next]_vars => SendInv'
  BY SendNext
<1> QED BY <1>1, <1>2, PTL DEF Spec

\* The peer sees whole messages one after the other, each at most once, however
\* the kernel cuts the writes (populate, update_written).
THEOREM AlwaysFramedWire == ASSUME Unmixed PROVE Spec => []FramedWire
<1>1. SendInv => FramedWire
  BY DEF SendInv
<1> QED BY <1>1, SendInvariant, PTL

\* send_msg_loop returns Ok only when the kernel has the message's last byte, also
\* when another future wrote it (current_idx).
THEOREM AlwaysDoneMeansSent == ASSUME Unmixed PROVE Spec => []DoneMeansSent
<1>1. SendInv => DoneMeansSent
  BY DEF SendInv
<1> QED BY <1>1, SendInvariant, PTL

\* Fds go out with the first byte of their message (sender.rs:77), and a message
\* that was sent took its fds with it.
THEOREM AlwaysFdsWithMessage == ASSUME Unmixed PROVE Spec => []FdsWithMessage
<1>1. SendInv => FdsWithMessage
  <2>1. SUFFICES ASSUME SendInv PROVE FdsWithMessage
    OBVIOUS
  <2>2. FdsLogged /\ DoneMeansSent /\ wire \in Seq(WireBytes) /\ Len(wire) \in Nat
    BY <2>1, StreamIs DEF SendInv, BaseInv
  <2>3. \A e \in fdLog : e[2] <= Len(wire) /\ wire[e[2]] = <<e[1], 1>>
    BY <2>2 DEF FdsLogged
  <2>4. ASSUME NEW f \in Futures, nfds[f] > 0, pc[f] = "done" PROVE \E e \in fdLog : e[1] = f
    <3>1. Has(wire, <<f, Size(f)>>)
      BY <2>2, <2>4, InSet DEF DoneMeansSent
    <3>2. PICK i \in 1 .. Len(wire) : wire[i] = <<f, Size(f)>>
      BY <3>1 DEF Has
    <3>3. wire[i][1] = f
      BY <3>2
    <3> QED BY <2>2, <2>4, <3>3 DEF FdsLogged
  <2> QED BY <2>3, <2>4 DEF FdsWithMessage
<1> QED BY <1>1, SendInvariant, PTL
=============================================================================
