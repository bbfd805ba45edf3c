--------------------------- MODULE MessageProofs ---------------------------
(***************************************************************************)
(* Proofs about Message and MessageBody, for any types, parameters, names  *)
(* and bounds.                                                             *)
(***************************************************************************)
EXTENDS Message, SequenceTheorems, Induction, TLAPS

-----------------------------------------------------------------------------
(* Recursion along a sequence                                              *)

\* The body of Ends, g standing for the recursive call.
EndAt(g, buf, sig, i) == IF i = 0 THEN 0 ELSE DecodeEnd(buf, g[i - 1], sig[i])

\* Ends: each value begins where the one before it ends.
LEMMA EndsRec ==
  ASSUME NEW buf, NEW sig, Len(sig) \in Nat
  PROVE  /\ Ends(buf, sig)[0] = 0
         /\ \A i \in 1 .. Len(sig) : Ends(buf, sig)[i] = DecodeEnd(buf, Ends(buf, sig)[i - 1], sig[i])
<1> DEFINE n == Len(sig)
<1> DEFINE S == {k \in 0 .. n : \E g : g = [i \in 0 .. k |-> EndAt(g, buf, sig, i)]}
<1>1. 0 \in S
  <2> DEFINE g == [i \in 0 .. 0 |-> 0]
  <2>1. \A i \in 0 .. 0 : g[i] = EndAt(g, buf, sig, i)
    BY DEF EndAt
  <2>2. g = [i \in 0 .. 0 |-> EndAt(g, buf, sig, i)]
    BY <2>1
  <2> HIDE DEF g
  <2> QED BY <2>2
<1>2. \A k \in 0 .. n - 1 : k \in S => k + 1 \in S
  <2>1. SUFFICES ASSUME NEW k \in 0 .. n - 1, k \in S PROVE k + 1 \in S
    OBVIOUS
  <2>2. PICK g : g = [i \in 0 .. k |-> EndAt(g, buf, sig, i)]
    BY <2>1
  <2> DEFINE h == [i \in 0 .. k + 1 |-> IF i = k + 1 THEN DecodeEnd(buf, g[k], sig[k + 1]) ELSE g[i]]
  <2>3. ASSUME NEW i \in 0 .. k + 1 PROVE h[i] = EndAt(h, buf, sig, i)
    <3>1. CASE i = k + 1
      <4>1. h[k] = g[k] /\ i # 0 /\ i - 1 = k
        BY <3>1
      <4> QED BY <3>1, <4>1 DEF EndAt
    <3>2. CASE i # k + 1
      <4>1. i \in 0 .. k /\ h[i] = g[i] /\ (i # 0 => h[i - 1] = g[i - 1])
        BY <3>2
      <4>2. g[i] = EndAt(g, buf, sig, i)
        BY <2>2, <4>1
      <4> QED BY <4>1, <4>2 DEF EndAt
    <3> QED BY <3>1, <3>2
  <2>4. h = [i \in 0 .. k + 1 |-> EndAt(h, buf, sig, i)]
    BY <2>3
  <2> HIDE DEF h
  <2> QED BY <2>1, <2>4
<1>3. n \in S
  <2>1. n \in 0 .. n /\ n \in Nat
    OBVIOUS
  <2> HIDE DEF S, n
  <2> QED BY <1>1, <1>2, <2>1, ZeroInduction
<1> DEFINE f == CHOOSE g : g = [i \in 0 .. n |-> EndAt(g, buf, sig, i)]
<1>4. f = [i \in 0 .. n |-> EndAt(f, buf, sig, i)]
  <2>1. PICK g : g = [i \in 0 .. n |-> EndAt(g, buf, sig, i)]
    BY <1>3
  <2> QED BY <2>1
<1>5. Ends(buf, sig) = f
  BY DEF Ends, EndAt
<1> HIDE DEF f
<1>6. \A i \in 0 .. n : f[i] = EndAt(f, buf, sig, i)
  BY <1>4
<1>7. f[0] = 0
  BY <1>6 DEF EndAt
<1>8. ASSUME NEW i \in 1 .. n PROVE f[i] = DecodeEnd(buf, f[i - 1], sig[i])
  <2>1. i \in 0 .. n /\ i # 0
    OBVIOUS
  <2> QED BY <1>6, <2>1 DEF EndAt
<1> QED BY <1>5, <1>7, <1>8

\* The body of PushAll, g standing for the recursive call.
PushAllAt(g, c, s, i) == IF i = 0 THEN c ELSE PushParamCore(g[i - 1], s[i])

\* PushAll pushes one parameter after the other.
LEMMA PushAllRec ==
  ASSUME NEW c, NEW s, Len(s) \in Nat
  PROVE  \E f : /\ f[0] = c /\ \A i \in 1 .. Len(s) : f[i] = PushParamCore(f[i - 1], s[i])
                /\ PushAll(c, s) = f[Len(s)]
<1> DEFINE n == Len(s)
<1> DEFINE S == {k \in 0 .. n : \E g : g = [i \in 0 .. k |-> PushAllAt(g, c, s, i)]}
<1>1. 0 \in S
  <2> DEFINE g == [i \in 0 .. 0 |-> c]
  <2>1. \A i \in 0 .. 0 : g[i] = PushAllAt(g, c, s, i)
    BY DEF PushAllAt
  <2>2. g = [i \in 0 .. 0 |-> PushAllAt(g, c, s, i)]
    BY <2>1
  <2> HIDE DEF g
  <2> QED BY <2>2
<1>2. \A k \in 0 .. n - 1 : k \in S => k + 1 \in S
  <2>1. SUFFICES ASSUME NEW k \in 0 .. n - 1, k \in S PROVE k + 1 \in S
    OBVIOUS
  <2>2. PICK g : g = [i \in 0 .. k |-> PushAllAt(g, c, s, i)]
    BY <2>1
  <2> DEFINE h == [i \in 0 .. k + 1 |-> IF i = k + 1 THEN PushParamCore(g[k], s[k + 1]) ELSE g[i]]
  <2>3. ASSUME NEW i \in 0 .. k + 1 PROVE h[i] = PushAllAt(h, c, s, i)
    <3>1. CASE i = k + 1
      <4>1. h[k] = g[k] /\ i # 0 /\ i - 1 = k
        BY <3>1
      <4> QED BY <3>1, <4>1 DEF PushAllAt
    <3>2. CASE i # k + 1
      <4>1. i \in 0 .. k /\ h[i] = g[i] /\ (i # 0 => h[i - 1] = g[i - 1])
        BY <3>2
      <4>2. g[i] = PushAllAt(g, c, s, i)
        BY <2>2, <4>1
      <4> QED BY <4>1, <4>2 DEF PushAllAt
    <3> QED BY <3>1, <3>2
  <2>4. h = [i \in 0 .. k + 1 |-> PushAllAt(h, c, s, i)]
    BY <2>3
  <2> HIDE DEF h
  <2> QED BY <2>1, <2>4
<1>3. n \in S
  <2>1. n \in 0 .. n /\ n \in Nat
    OBVIOUS
  <2> HIDE DEF S, n
  <2> QED BY <1>1, <1>2, <2>1, ZeroInduction
<1> DEFINE f == CHOOSE g : g = [i \in 0 .. n |-> PushAllAt(g, c, s, i)]
<1>4. f = [i \in 0 .. n |-> PushAllAt(f, c, s, i)]
  <2>1. PICK g : g = [i \in 0 .. n |-> PushAllAt(g, c, s, i)]
    BY <1>3
  <2> QED BY <2>1
<1>5. PushAll(c, s) = f[n]
  BY DEF PushAll, PushAllAt
<1> HIDE DEF f
<1>6. \A i \in 0 .. n : f[i] = PushAllAt(f, c, s, i)
  BY <1>4
<1>7. f[0] = c
  BY <1>6 DEF PushAllAt
<1>8. ASSUME NEW i \in 1 .. n PROVE f[i] = PushParamCore(f[i - 1], s[i])
  <2>1. i \in 0 .. n /\ i # 0
    OBVIOUS
  <2> QED BY <1>6, <2>1 DEF PushAllAt
<1> QED BY <1>5, <1>7, <1>8

\* The body of GetAll, g standing for the recursive call.
GetAllAt(g, c, s, i) == IF i = 0 THEN c ELSE Get(g[i - 1], s[i])

\* GetAll gets one value after the other.
LEMMA GetAllRec ==
  ASSUME NEW c, NEW s, Len(s) \in Nat
  PROVE  \E f : /\ f[0] = c /\ \A i \in 1 .. Len(s) : f[i] = Get(f[i - 1], s[i])
                /\ GetAll(c, s) = f[Len(s)]
<1> DEFINE n == Len(s)
<1> DEFINE S == {k \in 0 .. n : \E g : g = [i \in 0 .. k |-> GetAllAt(g, c, s, i)]}
<1>1. 0 \in S
  <2> DEFINE g == [i \in 0 .. 0 |-> c]
  <2>1. \A i \in 0 .. 0 : g[i] = GetAllAt(g, c, s, i)
    BY DEF GetAllAt
  <2>2. g = [i \in 0 .. 0 |-> GetAllAt(g, c, s, i)]
    BY <2>1
  <2> HIDE DEF g
  <2> QED BY <2>2
<1>2. \A k \in 0 .. n - 1 : k \in S => k + 1 \in S
  <2>1. SUFFICES ASSUME NEW k \in 0 .. n - 1, k \in S PROVE k + 1 \in S
    OBVIOUS
  <2>2. PICK g : g = [i \in 0 .. k |-> GetAllAt(g, c, s, i)]
    BY <2>1
  <2> DEFINE h == [i \in 0 .. k + 1 |-> IF i = k + 1 THEN Get(g[k], s[k + 1]) ELSE g[i]]
  <2>3. ASSUME NEW i \in 0 .. k + 1 PROVE h[i] = GetAllAt(h, c, s, i)
    <3>1. CASE i = k + 1
      <4>1. h[k] = g[k] /\ i # 0 /\ i - 1 = k
        BY <3>1
      <4> QED BY <3>1, <4>1 DEF GetAllAt
    <3>2. CASE i # k + 1
      <4>1. i \in 0 .. k /\ h[i] = g[i] /\ (i # 0 => h[i - 1] = g[i - 1])
        BY <3>2
      <4>2. g[i] = GetAllAt(g, c, s, i)
        BY <2>2, <4>1
      <4> QED BY <4>1, <4>2 DEF GetAllAt
    <3> QED BY <3>1, <3>2
  <2>4. h = [i \in 0 .. k + 1 |-> GetAllAt(h, c, s, i)]
    BY <2>3
  <2> HIDE DEF h
  <2> QED BY <2>1, <2>4
<1>3. n \in S
  <2>1. n \in 0 .. n /\ n \in Nat
    OBVIOUS
  <2> HIDE DEF S, n
  <2> QED BY <1>1, <1>2, <2>1, ZeroInduction
<1> DEFINE f == CHOOSE g : g = [i \in 0 .. n |-> GetAllAt(g, c, s, i)]
<1>4. f = [i \in 0 .. n |-> GetAllAt(f, c, s, i)]
  <2>1. PICK g : g = [i \in 0 .. n |-> GetAllAt(g, c, s, i)]
    BY <1>3
  <2> QED BY <2>1
<1>5. GetAll(c, s) = f[n]
  BY DEF GetAll, GetAllAt
<1> HIDE DEF f
<1>6. \A i \in 0 .. n : f[i] = GetAllAt(f, c, s, i)
  BY <1>4
<1>7. f[0] = c
  BY <1>6 DEF GetAllAt
<1>8. ASSUME NEW i \in 1 .. n PROVE f[i] = Get(f[i - 1], s[i])
  <2>1. i \in 0 .. n /\ i # 0
    OBVIOUS
  <2> QED BY <1>6, <2>1 DEF GetAllAt
<1> QED BY <1>5, <1>7, <1>8

\* The signature of nothing has no characters.
LEMMA SigLenEmpty == SigLen(<<>>) = 0
<1> DEFINE g == [i \in 0 .. 0 |-> 0]
<1> DEFINE f == CHOOSE h : h = [i \in 0 .. Len(<<>>) |-> IF i = 0 THEN 0 ELSE h[i - 1] + Types[<<>>[i]].chars]
<1>1. g = [i \in 0 .. Len(<<>>) |-> IF i = 0 THEN 0 ELSE g[i - 1] + Types[<<>>[i]].chars]
  OBVIOUS
<1>2. f = [i \in 0 .. Len(<<>>) |-> IF i = 0 THEN 0 ELSE f[i - 1] + Types[<<>>[i]].chars]
  <2> HIDE DEF g
  <2> QED BY <1>1
<1>3. SigLen(<<>>) = f[Len(<<>>)]
  BY DEF SigLen
<1> HIDE DEF f
<1>4. Len(<<>>) = 0
  OBVIOUS
<1> QED BY <1>2, <1>3, <1>4

-----------------------------------------------------------------------------
(* Marshalling                                                             *)

\* What a push works on
Context == [buf : Seq(Byte), sig : Seq(DOMAIN Types), fds : Seq(Nat), ok : BOOLEAN]

\* A sequence begins with another one.
Begins(s, t) == Len(t) <= Len(s) /\ \A i \in 1 .. Len(t) : s[i] = t[i]

\* Padding is a number of bytes.
LEMMA PadNat == ASSUME NEW n \in Nat, NEW a \in Nat \ {0} PROVE PadTo(n, a) \in Nat
<1>1. n % a \in 0 .. a - 1
  OBVIOUS
<1>2. a - (n % a) \in Nat
  BY <1>1
<1>3. (a - (n % a)) % a \in 0 .. a - 1
  BY <1>2
<1> QED BY <1>3 DEF PadTo

\* Nothing is padded to an alignment of 1 (a signature).
LEMMA PadOne == ASSUME NEW n \in Nat PROVE PadTo(n, 1) = 0
  BY DEF PadTo

\* Encode appends padding and then the value's bytes.
LEMMA EncodeIs ==
  ASSUME NEW buf \in Seq(Byte), NEW kind \in {"pad", "sig", "val"}, NEW typ \in DOMAIN Types,
         NEW val \in Nat, NEW a \in Nat \ {0}, NEW len \in Nat,
         NEW e, e = Encode(buf, kind, typ, val, a, len)
  PROVE  /\ e \in Seq(Byte) /\ Begins(e, buf)
         /\ Len(e) = Len(buf) + PadTo(Len(buf), a) + len
         /\ len # 0 => e[Len(e)] = <<kind, typ, val, len>>
         /\ len # 0 => e[Len(buf) + PadTo(Len(buf), a) + 1] = <<kind, typ, val, 1>>
<1> DEFINE pad == [i \in 1 .. PadTo(Len(buf), a) |-> <<"pad", "y", 0, 0>>]
<1> DEFINE bytes == [i \in 1 .. len |-> <<kind, typ, val, i>>]
<1>1. Len(buf) \in Nat /\ PadTo(Len(buf), a) \in Nat
  BY PadNat
<1>2. pad \in Seq(Byte) /\ Len(pad) = PadTo(Len(buf), a)
  <2>1. <<"pad", "y", 0, 0>> \in Byte
    BY DEF Byte
  <2>2. pad \in [1 .. PadTo(Len(buf), a) -> Byte]
    BY <2>1
  <2> QED BY <1>1, <2>2, FunctionSeq
<1>3. bytes \in Seq(Byte) /\ Len(bytes) = len
  <2>1. \A i \in 1 .. len : <<kind, typ, val, i>> \in Byte
    BY DEF Byte
  <2>2. bytes \in [1 .. len -> Byte]
    BY <2>1
  <2> QED BY <2>2, FunctionSeq
<1>4. \A j \in 1 .. len : bytes[j] = <<kind, typ, val, j>>
  OBVIOUS
<1>5. e = buf \o pad \o bytes
  BY DEF Encode
<1> HIDE DEF pad, bytes
<1>6. buf \o pad \in Seq(Byte) /\ Len(buf \o pad) = Len(buf) + Len(pad)
  BY <1>2
<1>7. \A i \in 1 .. Len(buf) : (buf \o pad)[i] = buf[i]
  BY <1>2
<1> DEFINE bp == buf \o pad
<1>8. /\ bp \o bytes \in Seq(Byte) /\ Len(bp \o bytes) = Len(bp) + Len(bytes)
      /\ \A i \in 1 .. Len(bp) : (bp \o bytes)[i] = bp[i]
      /\ \A j \in 1 .. Len(bytes) : (bp \o bytes)[Len(bp) + j] = bytes[j]
  <2> HIDE DEF bp
  <2>1. bp \in Seq(Byte)
    BY <1>6 DEF bp
  <2> QED BY <1>3, <2>1
<1>9. Begins(bp \o bytes, buf)
  <2>1. Len(bp) \in Nat /\ Len(bytes) \in Nat /\ Len(buf) <= Len(bp)
    BY <1>1, <1>2, <1>3, <1>6
  <2>2. ASSUME NEW i \in 1 .. Len(buf) PROVE (bp \o bytes)[i] = buf[i]
    <3>1. i \in 1 .. Len(bp)
      BY <2>1, <1>1
    <3> QED BY <3>1, <1>7, <1>8
  <2> QED BY <2>1, <2>2, <1>8, <1>1 DEF Begins
<1>10. ASSUME len # 0
       PROVE  /\ (bp \o bytes)[Len(bp) + len] = <<kind, typ, val, len>>
              /\ (bp \o bytes)[Len(bp) + 1] = <<kind, typ, val, 1>>
  <2>1. len \in 1 .. len /\ 1 \in 1 .. len
    BY <1>10
  <2> HIDE DEF bp
  <2> QED BY <2>1, <1>3, <1>4, <1>8
<1> QED BY <1>1, <1>2, <1>3, <1>5, <1>6, <1>8, <1>9, <1>10

\* Where a value of type t that is written at offset n ends.
EndOf(n, t) == n + PadTo(n, Types[t].align) + Types[t].len

\* Marshal appends one value, whose last byte tells it, and its fd.
LEMMA MarshalIs ==
  ASSUME NEW c \in Context, NEW p \in Params
  PROVE  LET m == Marshal(c, p) IN
         /\ m \in Context /\ m.sig = c.sig /\ m.ok = c.ok /\ Begins(m.buf, c.buf) /\ Begins(m.fds, c.fds)
         /\ Len(m.buf) = EndOf(Len(c.buf), p.typ) /\ Len(m.buf) > Len(c.buf)
         /\ m.fds = IF p.typ = "h" THEN Append(c.fds, p.val) ELSE c.fds
         /\ Value(m, Len(m.buf)) = <<p.typ, p.val>>
         /\ m.buf[Len(m.buf)][2] = "h" => m.buf[Len(m.buf)][3] < Len(m.fds)
<1> DEFINE a == Types[p.typ].align
           len == Types[p.typ].len
           v == IF p.typ = "h" THEN Len(c.fds) ELSE p.val
           e == Encode(c.buf, "val", p.typ, v, a, len)
           fds == IF p.typ = "h" THEN Append(c.fds, p.val) ELSE c.fds
           m == Marshal(c, p)
<1>1. /\ p.typ \in DOMAIN Types /\ p.typ # "v" /\ p.val \in Nat
      /\ a \in Nat \ {0} /\ len \in Nat /\ len # 0
  BY MessageBodyAssumption
<1>2. /\ c.buf \in Seq(Byte) /\ c.fds \in Seq(Nat) /\ v \in Nat /\ Len(c.buf) \in Nat /\ Len(c.fds) \in Nat
      /\ DOMAIN c = {"buf", "sig", "fds", "ok"}
  BY <1>1 DEF Context
<1>3. /\ e \in Seq(Byte) /\ Begins(e, c.buf)
      /\ Len(e) = Len(c.buf) + PadTo(Len(c.buf), a) + len
      /\ e[Len(e)] = <<"val", p.typ, v, len>>
  <2>1. e = Encode(c.buf, "val", p.typ, v, a, len)
    OBVIOUS
  <2> HIDE DEF a, len, v, e
  <2> QED BY <1>1, <1>2, <2>1, EncodeIs, SMTT(40), ZenonT(60)
<1>4. m = [c EXCEPT !.buf = e, !.fds = fds]
  BY DEF Marshal
<1>5. fds \in Seq(Nat) /\ Begins(fds, c.fds) /\ Len(fds) \in Nat
  BY <1>1, <1>2 DEF Begins
<1>6. m.buf = e /\ m.fds = fds /\ m.sig = c.sig /\ m.ok = c.ok /\ m \in Context
  <2> HIDE DEF e, fds, m
  <2> QED BY <1>2, <1>3, <1>4, <1>5 DEF Context
<1>7. PadTo(Len(c.buf), a) \in Nat
  BY <1>1, <1>2, PadNat
<1>8. Len(e) = EndOf(Len(c.buf), p.typ) /\ Len(e) > Len(c.buf)
  <2>1. Len(e) = EndOf(Len(c.buf), p.typ)
    BY <1>3 DEF EndOf
  <2>2. Len(e) > Len(c.buf)
    <3> HIDE DEF e, a, len
    <3> QED BY <1>1, <1>2, <1>3, <1>7
  <2> QED BY <2>1, <2>2
<1>10. Value(m, Len(m.buf)) = <<p.typ, p.val>>
  <2> HIDE DEF e, m, a, len
  <2>1. CASE p.typ = "h"
    <3>1. v = Len(c.fds) /\ fds = Append(c.fds, p.val) /\ fds[Len(c.fds) + 1] = p.val
      BY <2>1, <1>1, <1>2
    <3> HIDE DEF v, fds
    <3> QED BY <2>1, <3>1, <1>6, <1>3 DEF Value
  <2>2. CASE p.typ # "h"
    <3>1. v = p.val
      BY <2>2
    <3> HIDE DEF v, fds
    <3> QED BY <2>2, <3>1, <1>6, <1>3 DEF Value
  <2> QED BY <2>1, <2>2
<1>11. p.typ = "h" => v < Len(fds)
  BY <1>2
<1> HIDE DEF e, fds, m, a, len, v
<1>12. m.buf[Len(m.buf)][2] = "h" => m.buf[Len(m.buf)][3] < Len(m.fds)
  BY <1>3, <1>6, <1>11
<1> QED BY <1>3, <1>5, <1>6, <1>8, <1>10, <1>12 DEF fds, m

\* marshal_as_variant appends the value's signature and the value.
LEMMA VariantIs ==
  ASSUME NEW c \in Context, NEW p \in Params
  PROVE  LET m == MarshalAsVariant(c, p) IN
         /\ m \in Context /\ m.sig = c.sig /\ m.ok = c.ok /\ Begins(m.buf, c.buf) /\ Begins(m.fds, c.fds)
         /\ DecodeEnd(m.buf, Len(c.buf), "v") = Len(m.buf) /\ Len(m.buf) > Len(c.buf)
         /\ m.fds = IF p.typ = "h" THEN Append(c.fds, p.val) ELSE c.fds
         /\ Value(m, Len(m.buf)) = <<p.typ, p.val>>
         /\ m.buf[Len(m.buf)][2] = "h" => m.buf[Len(m.buf)][3] < Len(m.fds)
<1> DEFINE k == Types[p.typ].chars + 2
           e == Encode(c.buf, "sig", p.typ, 0, 1, k)
           d == [c EXCEPT !.buf = e]
           m == Marshal(d, p)
<1>1. p.typ \in DOMAIN Types /\ k \in Nat /\ k >= 1
  BY MessageBodyAssumption
<1>2. c.buf \in Seq(Byte) /\ Len(c.buf) \in Nat /\ DOMAIN c = {"buf", "sig", "fds", "ok"}
  BY DEF Context
<1>3. /\ e \in Seq(Byte) /\ Begins(e, c.buf) /\ Len(e) = Len(c.buf) + PadTo(Len(c.buf), 1) + k
      /\ e[Len(c.buf) + PadTo(Len(c.buf), 1) + 1] = <<"sig", p.typ, 0, 1>>
  <2>1. e = Encode(c.buf, "sig", p.typ, 0, 1, k)
    OBVIOUS
  <2>2. k # 0 /\ 1 \in Nat \ {0}
    BY <1>1
  <2> HIDE DEF k, e
  <2> QED BY <1>1, <1>2, <2>1, <2>2, EncodeIs
<1>4. Len(e) = Len(c.buf) + k /\ e[Len(c.buf) + 1] = <<"sig", p.typ, 0, 1>>
  <2> HIDE DEF e, k
  <2> QED BY <1>1, <1>2, <1>3, PadOne
<1>5. d \in Context /\ d.buf = e /\ d.sig = c.sig /\ d.fds = c.fds /\ d.ok = c.ok
  <2> HIDE DEF e
  <2> QED BY <1>2, <1>3 DEF Context
<1>6. MarshalAsVariant(c, p) = m
  BY DEF MarshalAsVariant
<1>7. /\ m \in Context /\ m.sig = d.sig /\ m.ok = d.ok /\ Begins(m.buf, d.buf) /\ Begins(m.fds, d.fds)
      /\ Len(m.buf) = EndOf(Len(d.buf), p.typ) /\ Len(m.buf) > Len(d.buf)
      /\ m.fds = IF p.typ = "h" THEN Append(d.fds, p.val) ELSE d.fds
      /\ Value(m, Len(m.buf)) = <<p.typ, p.val>>
      /\ m.buf[Len(m.buf)][2] = "h" => m.buf[Len(m.buf)][3] < Len(m.fds)
  <2> HIDE DEF d
  <2> QED BY <1>5, MarshalIs
<1> HIDE DEF d, m, e
<1>8. Len(e) \in Nat /\ Len(m.buf) \in Nat
  BY <1>3, <1>7 DEF Context
<1>9. Begins(m.buf, c.buf) /\ Len(m.buf) > Len(c.buf)
  BY <1>1, <1>2, <1>3, <1>4, <1>5, <1>7, <1>8, SMTT(40) DEF Begins
<1>10. m.buf[Len(c.buf) + 1] = <<"sig", p.typ, 0, 1>>
  <2>1. Len(c.buf) + 1 \in 1 .. Len(e)
    BY <1>1, <1>2, <1>4, <1>8
  <2> QED BY <2>1, <1>4, <1>5, <1>7 DEF Begins
<1>11. DecodeEnd(m.buf, Len(c.buf), "v") = EndOf(Len(c.buf) + k, p.typ)
  <2>1. ~(Len(c.buf) >= Len(m.buf)) /\ m.buf[Len(c.buf) + 1][1] = "sig" /\ m.buf[Len(c.buf) + 1][2] = p.typ
    BY <1>2, <1>8, <1>9, <1>10
  <2>2. Len(c.buf) + Types[p.typ].chars + 2 = Len(c.buf) + k
    BY <1>2, MessageBodyAssumption
  <2> HIDE DEF k
  <2> QED BY <2>1, <2>2 DEF DecodeEnd, EndOf
<1> HIDE DEF k
<1>12. DecodeEnd(m.buf, Len(c.buf), "v") = Len(m.buf)
  BY <1>4, <1>5, <1>7, <1>11
<1> QED BY <1>5, <1>6, <1>7, <1>9, <1>12

\* What follows a value does not change where it ends.
LEMMA DecodeStable ==
  ASSUME NEW b \in Seq(Byte), NEW e \in Seq(Byte), Begins(e, b), NEW k \in Nat, NEW t,
         DecodeEnd(b, k, t) \in 1 .. Len(b)
  PROVE  DecodeEnd(e, k, t) = DecodeEnd(b, k, t)
<1>1. CASE t # "v"
  BY <1>1 DEF DecodeEnd
<1>2. CASE t = "v"
  <2>1. Len(b) \in Nat /\ Len(e) \in Nat /\ Len(b) <= Len(e)
    BY DEF Begins
  <2>2. ~(k >= Len(b) \/ b[k + 1][1] # "sig")
    BY <1>2, <2>1 DEF DecodeEnd
  <2>3. ~(k >= Len(e)) /\ e[k + 1] = b[k + 1]
    BY <2>1, <2>2, SMTT(40) DEF Begins
  <2> QED BY <1>2, <2>2, <2>3 DEF DecodeEnd
<1> QED BY <1>1, <1>2

\* The values of ps, and their types, are sequences as long as ps.
LEMMA SigsSeq ==
  ASSUME NEW ps \in Seq(Pushed)
  PROVE  /\ Sigs(ps) \in Seq(DOMAIN Types) /\ Len(Sigs(ps)) = Len(ps) /\ Len(ps) \in Nat
         /\ \A i \in 1 .. Len(ps) : Sigs(ps)[i] = ps[i].sig /\ ps[i] \in Pushed
         /\ Values(ps) \in Seq((DOMAIN Types) \X Nat) /\ Len(Values(ps)) = Len(ps)
         /\ \A i \in 1 .. Len(ps) : Values(ps)[i] = <<ps[i].typ, ps[i].val>>
<1>1. Len(ps) \in Nat /\ DOMAIN ps = 1 .. Len(ps) /\ \A i \in 1 .. Len(ps) : ps[i] \in Pushed
  BY ElementOfSeq, LenProperties
<1>2. Sigs(ps) \in [1 .. Len(ps) -> DOMAIN Types] /\ \A i \in 1 .. Len(ps) : Sigs(ps)[i] = ps[i].sig
  BY <1>1 DEF Sigs, Pushed
<1>3. /\ Values(ps) \in [1 .. Len(ps) -> (DOMAIN Types) \X Nat]
      /\ \A i \in 1 .. Len(ps) : Values(ps)[i] = <<ps[i].typ, ps[i].val>>
  <2>1. \A i \in 1 .. Len(ps) : <<ps[i].typ, ps[i].val>> \in (DOMAIN Types) \X Nat
    <3>1. \A p \in Pushed : p.typ \in DOMAIN Types /\ p.val \in Nat
      BY DEF Pushed
    <3> QED BY <1>1, <3>1
  <2> QED BY <1>1, <2>1 DEF Values
<1>4. Sigs(ps) \in Seq(DOMAIN Types) /\ Len(Sigs(ps)) = Len(ps)
  BY <1>1, <1>2, FunctionSeq
<1>5. Values(ps) \in Seq((DOMAIN Types) \X Nat) /\ Len(Values(ps)) = Len(ps)
  BY <1>1, <1>3, FunctionSeq
<1> QED BY <1>1, <1>2, <1>3, <1>4, <1>5

\* A body that holds ps and gets one more value holds that one too: the push of
\* one value in full.
LEMMA HoldsAppend ==
  ASSUME NEW b, NEW ps, Holds(b, ps), NEW q \in Pushed, NEW e,
         e.buf \in Seq(Byte), e.fds \in Seq(Nat), Begins(e.buf, b.buf), Begins(e.fds, b.fds),
         e.sig = Append(b.sig, q.sig), Len(e.buf) > Len(b.buf),
         DecodeEnd(e.buf, Len(b.buf), q.sig) = Len(e.buf),
         Value(e, Len(e.buf)) = <<q.typ, q.val>>,
         e.buf[Len(e.buf)][2] = "h" => e.buf[Len(e.buf)][3] < Len(e.fds)
  PROVE  Holds(e, Append(ps, q))
<1> DEFINE g == Ends(b.buf, b.sig)
           f == Ends(e.buf, e.sig)
           n == Len(ps)
           qs == Append(ps, q)
<1>1. /\ b.buf \in Seq(Byte) /\ b.fds \in Seq(Nat) /\ ps \in Seq(Pushed)
      /\ b.sig = Sigs(ps) /\ g[n] = Len(b.buf)
      /\ \A i \in 1 .. n :
           /\ g[i] \in 1 .. Len(b.buf) /\ Value(b, g[i]) = <<ps[i].typ, ps[i].val>>
           /\ b.buf[g[i]][2] = "h" => b.buf[g[i]][3] < Len(b.fds)
  BY DEF Holds
<1>2. n \in Nat /\ Len(b.sig) = n /\ b.sig \in Seq(DOMAIN Types) /\ q.sig \in DOMAIN Types
  BY <1>1, SigsSeq, SMTT(40), ZenonT(60) DEF Pushed
<1>3. /\ qs \in Seq(Pushed) /\ Len(qs) = n + 1 /\ qs[n + 1] = q
      /\ \A i \in 1 .. n : qs[i] = ps[i]
  BY <1>1
<1>4. /\ Len(e.sig) = n + 1 /\ e.sig[n + 1] = q.sig /\ e.sig \in Seq(DOMAIN Types)
      /\ \A i \in 1 .. n : e.sig[i] = b.sig[i]
  BY <1>2
<1> HIDE DEF qs
<1>5. e.sig = Sigs(qs)
  <2>1. /\ Sigs(qs) \in Seq(DOMAIN Types) /\ Len(Sigs(qs)) = n + 1
        /\ \A i \in 1 .. n + 1 : Sigs(qs)[i] = qs[i].sig
    BY <1>3, SigsSeq
  <2>2. \A i \in 1 .. n : b.sig[i] = ps[i].sig
    BY <1>1, SigsSeq
  <2>3. ASSUME NEW i \in 1 .. n + 1 PROVE e.sig[i] = Sigs(qs)[i]
    <3>1. CASE i = n + 1
      BY <3>1, <2>1, <1>3, <1>4
    <3>2. CASE i # n + 1
      <4>1. i \in 1 .. n
        BY <3>2, <1>2
      <4> QED BY <4>1, <2>1, <2>2, <1>3, <1>4
    <3> QED BY <3>1, <3>2
  <2> QED BY <2>1, <2>3, <1>4, SeqEqual
<1>6. g[0] = 0 /\ \A i \in 1 .. n : g[i] = DecodeEnd(b.buf, g[i - 1], b.sig[i])
  BY <1>2, EndsRec
<1>7. f[0] = 0 /\ \A i \in 1 .. n + 1 : f[i] = DecodeEnd(e.buf, f[i - 1], e.sig[i])
  <2>1. Len(e.sig) \in Nat
    BY <1>2, <1>4
  <2>2. 1 .. Len(e.sig) = 1 .. n + 1
    BY <1>4
  <2>3. /\ Ends(e.buf, e.sig)[0] = 0
        /\ \A i \in 1 .. Len(e.sig) :
             Ends(e.buf, e.sig)[i] = DecodeEnd(e.buf, Ends(e.buf, e.sig)[i - 1], e.sig[i])
    <3> DEFINE es == e.sig
               eb == e.buf
    <3>1. Len(es) \in Nat
      BY <2>1
    <3> HIDE DEF es, eb
    <3>2. /\ Ends(eb, es)[0] = 0
          /\ \A i \in 1 .. Len(es) : Ends(eb, es)[i] = DecodeEnd(eb, Ends(eb, es)[i - 1], es[i])
      BY <3>1, EndsRec
    <3> QED BY <3>2 DEF es, eb
  <2> QED BY <2>2, <2>3, Zenon
<1> HIDE DEF f, g
<1>8. Len(b.buf) \in Nat /\ Len(e.buf) \in Nat /\ Len(b.fds) \in Nat /\ Len(e.fds) \in Nat
  BY <1>1
<1>9. \A i \in 0 .. n : f[i] = g[i]
  <2> DEFINE S == {i \in 0 .. n : f[i] = g[i]}
  <2>1. 0 \in S
    BY <1>2, <1>6, <1>7
  <2>2. \A i \in 0 .. n - 1 : i \in S => i + 1 \in S
    <3>1. SUFFICES ASSUME NEW i \in 0 .. n - 1, i \in S PROVE i + 1 \in S
      OBVIOUS
    <3>2. i + 1 \in 1 .. n /\ i + 1 \in 1 .. n + 1 /\ (i + 1) - 1 = i /\ i + 1 \in 0 .. n
      BY <1>2
    <3>3. f[i + 1] = DecodeEnd(e.buf, g[i], b.sig[i + 1]) /\ g[i + 1] = DecodeEnd(b.buf, g[i], b.sig[i + 1])
      BY <3>1, <3>2, <1>4, <1>6, <1>7
    <3>4. g[i] \in Nat
      <4>1. CASE i = 0
        BY <4>1, <1>6
      <4>2. CASE i # 0
        <5>1. i \in 1 .. n
          BY <4>2
        <5> QED BY <5>1, <1>1, <1>8
      <4> QED BY <4>1, <4>2
    <3>5. g[i + 1] \in 1 .. Len(b.buf)
      BY <3>2, <1>1
    <3>6. f[i + 1] = g[i + 1]
      BY <3>3, <3>4, <3>5, <1>1, DecodeStable
    <3> QED BY <3>2, <3>6
  <2>3. 0 .. n \subseteq S
    <3> HIDE DEF S, n
    <3> QED BY <1>2, <2>1, <2>2, ZeroInduction
  <2> QED BY <2>3
<1>10. f[n + 1] = Len(e.buf)
  <2>1. f[n] = Len(b.buf) /\ n + 1 \in 1 .. n + 1 /\ (n + 1) - 1 = n
    BY <1>1, <1>2, <1>9
  <2> QED BY <2>1, <1>4, <1>7
<1>11. ASSUME NEW i \in 1 .. n + 1
       PROVE  /\ f[i] \in 1 .. Len(e.buf) /\ Value(e, f[i]) = <<qs[i].typ, qs[i].val>>
              /\ e.buf[f[i]][2] = "h" => e.buf[f[i]][3] < Len(e.fds)
  <2>1. CASE i = n + 1
    <3>1. Len(e.buf) \in 1 .. Len(e.buf)
      BY <1>8
    <3> QED BY <2>1, <3>1, <1>3, <1>10
  <2>2. CASE i # n + 1
    <3>1. i \in 1 .. n /\ i \in 0 .. n
      BY <2>2, <1>2
    <3>2. /\ f[i] = g[i] /\ g[i] \in 1 .. Len(b.buf) /\ Value(b, g[i]) = <<qs[i].typ, qs[i].val>>
          /\ b.buf[g[i]][2] = "h" => b.buf[g[i]][3] < Len(b.fds)
      BY <3>1, <1>1, <1>3, <1>9
    <3>3. e.buf[g[i]] = b.buf[g[i]] /\ g[i] \in 1 .. Len(e.buf)
      BY <3>2, <1>8, SMTT(40), ZenonT(60) DEF Begins
    <3>4. b.buf[g[i]][3] \in Nat
      <4>1. b.buf[g[i]] \in Byte
        BY <3>2, <1>1, ElementOfSeq
      <4> QED BY <4>1 DEF Byte
    <3>5. b.buf[g[i]][2] = "h" => /\ e.fds[b.buf[g[i]][3] + 1] = b.fds[b.buf[g[i]][3] + 1]
                                 /\ b.buf[g[i]][3] < Len(e.fds)
      <4>1. SUFFICES ASSUME b.buf[g[i]][2] = "h"
                     PROVE  /\ e.fds[b.buf[g[i]][3] + 1] = b.fds[b.buf[g[i]][3] + 1]
                            /\ b.buf[g[i]][3] < Len(e.fds)
        OBVIOUS
      <4> DEFINE k == b.buf[g[i]][3]
      <4>2. k \in Nat /\ k < Len(b.fds)
        BY <4>1, <3>2, <3>4
      <4> HIDE DEF k
      <4>3. k + 1 \in 1 .. Len(b.fds) /\ k < Len(e.fds)
        BY <4>2, <1>8, SMTT(40) DEF Begins
      <4>4. e.fds[k + 1] = b.fds[k + 1]
        BY <4>3 DEF Begins
      <4> QED BY <4>3, <4>4 DEF k
    <3>6. Value(e, g[i]) = Value(b, g[i])
      BY <3>3, <3>5 DEF Value
    <3> QED BY <3>2, <3>3, <3>5, <3>6
  <2> QED BY <2>1, <2>2
<1> QED BY <1>3, <1>5, <1>10, <1>11 DEF Holds, qs, f

\* What begins with what begins with a begins with a.
LEMMA BeginsTrans ==
  ASSUME NEW S, NEW a \in Seq(S), NEW b \in Seq(S), NEW c \in Seq(S), Begins(a, b), Begins(b, c)
  PROVE  Begins(a, c)
<1>1. Len(a) \in Nat /\ Len(b) \in Nat /\ Len(c) \in Nat
  OBVIOUS
<1> QED BY <1>1 DEF Begins

\* A sequence begins with itself.
LEMMA BeginsSelf == ASSUME NEW S, NEW a \in Seq(S) PROVE Begins(a, a)
  BY DEF Begins

\* The fds of one parameter
FdOf(q) == IF q.typ = "h" THEN <<q.val>> ELSE <<>>

\* A parameter more: its fd comes last.
LEMMA FdsOfAppend ==
  ASSUME NEW ps \in Seq(Pushed), NEW q \in Pushed
  PROVE  FdsOf(Append(ps, q)) = FdsOf(ps) \o FdOf(q) /\ FdsOf(ps) \in Seq(Nat)
<1> DEFINE s == [i \in DOMAIN ps |-> FdOf(ps[i])]
           qs == Append(ps, q)
           t == [i \in DOMAIN qs |-> FdOf(qs[i])]
           n == Len(ps)
<1>1. /\ n \in Nat /\ DOMAIN ps = 1 .. n /\ \A i \in 1 .. n : ps[i] \in Pushed
  BY ElementOfSeq, LenProperties
<1>2. /\ qs \in Seq(Pushed) /\ Len(qs) = n + 1 /\ DOMAIN qs = 1 .. n + 1 /\ qs[n + 1] = q
      /\ \A i \in 1 .. n : qs[i] = ps[i]
  BY AppendProperties, LenProperties
<1>3. \A p \in Pushed : FdOf(p) \in Seq(Nat)
  BY DEF FdOf, Pushed
<1>4. FdsOf(ps) = FlattenSeq(s) /\ FdsOf(qs) = FlattenSeq(t)
  BY DEF FdsOf, FdOf
<1> HIDE DEF qs
<1>5. s \in [1 .. n -> Seq(Nat)] /\ \A i \in 1 .. n : s[i] = FdOf(ps[i])
  BY <1>1, <1>3
<1>6. t \in [1 .. n + 1 -> Seq(Nat)] /\ \A i \in 1 .. n + 1 : t[i] = FdOf(qs[i])
  <2>1. \A i \in 1 .. n + 1 : qs[i] \in Pushed
    BY <1>2, ElementOfSeq
  <2> QED BY <1>2, <1>3, <2>1
<1> HIDE DEF s, t
<1>7. s \in Seq(Seq(Nat)) /\ Len(s) = n
  BY <1>1, <1>5, FunctionSeq
<1>8. t \in Seq(Seq(Nat)) /\ Len(t) = n + 1
  <2>1. n + 1 \in Nat
    BY <1>1
  <2> QED BY <2>1, <1>6, FunctionSeq
<1>9. \A i \in 1 .. Len(s) : t[i] = s[i] /\ s[i] \in Seq(Nat)
  <2>1. ASSUME NEW i \in 1 .. n PROVE t[i] = s[i] /\ s[i] \in Seq(Nat)
    <3>1. i \in 1 .. n + 1
      BY <1>1
    <3> QED BY <3>1, <1>2, <1>5, <1>6
  <2> QED BY <2>1, <1>7
<1>10. t[Len(t)] = FdOf(q) /\ t[Len(t)] \in Seq(Nat)
  <2>1. n + 1 \in 1 .. n + 1
    BY <1>1
  <2> QED BY <2>1, <1>2, <1>3, <1>6, <1>8
<1>11. Len(s) \in Nat /\ (Len(s) = 0 => s = <<>>) /\ Len(t) = Len(s) + 1
  BY <1>1, <1>7, <1>8, EmptySeq
<1>12. FlattenSeq(t) = FlattenSeq(s) \o t[Len(t)]
  BY <1>9, <1>10, <1>11, FlattenAppend, SMTT(40), ZenonT(60)
<1>13. FlattenSeq(s) \in Seq(Nat)
  <2>1. CASE Len(s) = 0
    <3>1. FlattenSeq(s) = <<>>
      BY <2>1, <1>11, FlattenEmpty
    <3> QED BY <3>1
  <2>2. CASE Len(s) # 0
    BY <2>2, <1>9, <1>11, FlattenType
  <2> QED BY <2>1, <2>2
<1> QED BY <1>4, <1>10, <1>12, <1>13 DEF qs

\* Nothing pushed, no fds
LEMMA FdsOfEmpty == FdsOf(<<>>) = <<>>
<1> DEFINE s == [i \in DOMAIN <<>> |-> FdOf(<<>>[i])]
<1>1. s = <<>> /\ Len(s) = 0
  OBVIOUS
<1>2. FdsOf(<<>>) = FlattenSeq(s)
  BY DEF FdsOf, FdOf
<1> HIDE DEF s
<1> QED BY <1>1, <1>2, FlattenEmpty

\* An empty body holds nothing.
LEMMA HoldsEmpty ==
  ASSUME NEW b, b.buf = <<>>, b.sig = <<>>, b.fds \in Seq(Nat)
  PROVE  Holds(b, <<>>)
<1>1. Len(<<>>) = 0 /\ <<>> \in Seq(Byte) /\ <<>> \in Seq(Pushed)
  OBVIOUS
<1>2. Sigs(<<>>) = <<>>
  BY DEF Sigs
<1>3. Ends(<<>>, <<>>)[0] = 0
  BY <1>1, EndsRec
<1> QED BY <1>1, <1>2, <1>3 DEF Holds

-----------------------------------------------------------------------------
(* Pushing                                                                 *)

\* What pushing p adds to the history
ParamPushed(p) == [sig |-> p.typ, typ |-> p.typ, val |-> p.val]
VariantPushed(p) == [sig |-> "v", typ |-> p.typ, val |-> p.val]

\* d is what pushes made of c, which held old: it begins with what c had and, if
\* they went well, holds new.
Grown(d, c, old, new) ==
  /\ d \in Context /\ Begins(d.buf, c.buf) /\ Begins(d.sig, c.sig) /\ Begins(d.fds, c.fds)
  /\ d.ok => /\ Holds(d, new) /\ SigLen(d.sig) <= SigMax
             /\ c.fds = FdsOf(old) => d.fds = FdsOf(new)

\* What a push adds to the history is of its type.
LEMMA ParamPushedType ==
  ASSUME NEW p \in Params PROVE ParamPushed(p) \in Pushed /\ VariantPushed(p) \in Pushed
  BY MessageBodyAssumption DEF ParamPushed, VariantPushed, Pushed

\* push_sig: the signature is longer even when it turns out too long.
LEMMA PushSigIs ==
  ASSUME NEW c \in Context, NEW t \in DOMAIN Types, NEW v \in BOOLEAN
  PROVE  LET d == PushSig(c, t, v) IN
         /\ d \in Context /\ d.buf = c.buf /\ d.fds = c.fds /\ d.sig = Append(c.sig, t)
         /\ Begins(d.sig, c.sig)
         /\ d.ok => v /\ SigLen(d.sig) <= SigMax
<1> DEFINE sig == Append(c.sig, t)
           ok == SigLen(sig) <= SigMax /\ v
           d == PushSig(c, t, v)
<1>1. c.sig \in Seq(DOMAIN Types) /\ DOMAIN c = {"buf", "sig", "fds", "ok"}
  BY DEF Context
<1>2. sig \in Seq(DOMAIN Types) /\ Begins(sig, c.sig) /\ ok \in BOOLEAN
  BY <1>1 DEF Begins
<1>3. d = [c EXCEPT !.sig = sig, !.ok = ok]
  BY DEF PushSig
<1> HIDE DEF sig
<1>4. d.buf = c.buf /\ d.fds = c.fds /\ d.sig = sig /\ d.ok = ok
  BY <1>1, <1>3 DEF Context
<1>5. d \in Context
  BY <1>1, <1>2, <1>3 DEF Context
<1> QED BY <1>2, <1>4, <1>5 DEF sig

\* m is c with the value of q appended, its signature not yet.
Appended(m, c, q) ==
  /\ m \in Context /\ m.sig = c.sig /\ Begins(m.buf, c.buf) /\ Begins(m.fds, c.fds)
  /\ DecodeEnd(m.buf, Len(c.buf), q.sig) = Len(m.buf) /\ Len(m.buf) > Len(c.buf)
  /\ m.fds = IF q.typ = "h" THEN Append(c.fds, q.val) ELSE c.fds
  /\ Value(m, Len(m.buf)) = <<q.typ, q.val>>
  /\ m.buf[Len(m.buf)][2] = "h" => m.buf[Len(m.buf)][3] < Len(m.fds)

\* A value and then its signature: what a push of q makes of c
LEMMA PushedOne ==
  ASSUME NEW c \in Context, NEW m, NEW q \in Pushed, NEW d \in Context, NEW ps, Holds(c, ps),
         Appended(m, c, q), d.buf = m.buf, d.fds = m.fds, d.sig = Append(m.sig, q.sig)
  PROVE  /\ Holds(d, Append(ps, q))
         /\ \A old : c.fds = FdsOf(old) /\ old \in Seq(Pushed) => d.fds = FdsOf(Append(old, q))
<1> USE DEF Appended
<1>1. Value(d, Len(d.buf)) = <<q.typ, q.val>>
  BY DEF Value
<1>2. d.buf \in Seq(Byte) /\ d.fds \in Seq(Nat)
  BY DEF Context
<1>3. Holds(d, Append(ps, q))
  BY <1>1, <1>2, HoldsAppend
<1>4. ASSUME NEW old \in Seq(Pushed), c.fds = FdsOf(old) PROVE d.fds = FdsOf(Append(old, q))
  <2>1. FdsOf(Append(old, q)) = FdsOf(old) \o FdOf(q) /\ FdsOf(old) \in Seq(Nat)
    BY FdsOfAppend
  <2>2. q.val \in Nat
    BY DEF Pushed
  <2>3. CASE q.typ = "h"
    <3>1. c.fds \in Seq(Nat)
      BY <1>4, <2>1
    <3>2. c.fds \o <<q.val>> = Append(c.fds, q.val)
      BY <2>2, <3>1, AppendIsConcat
    <3> QED BY <1>4, <2>1, <2>3, <3>2 DEF FdOf
  <2>4. CASE q.typ # "h"
    BY <1>4, <2>1, <2>4 DEF FdOf
  <2> QED BY <2>3, <2>4
<1> QED BY <1>3, <1>4

\* One parameter, whether it goes well or fails half-way (push_param_core)
LEMMA PushParamIs ==
  ASSUME NEW c \in Context, NEW p \in Params
  PROVE  LET d == PushParamCore(c, p)
             q == ParamPushed(p) IN
         /\ d \in Context /\ Begins(d.buf, c.buf) /\ Begins(d.sig, c.sig) /\ Begins(d.fds, c.fds)
         /\ d.ok => c.ok /\ p.fault # "marshal" /\ SigLen(d.sig) <= SigMax
         /\ c.ok /\ p.fault # "marshal" => \A ps :
              /\ Holds(c, ps) => Holds(d, Append(ps, q))
              /\ ps \in Seq(Pushed) /\ c.fds = FdsOf(ps) /\ Holds(c, ps) => d.fds = FdsOf(Append(ps, q))
<1> DEFINE d == PushParamCore(c, p)
           m == Marshal(c, p)
           q == ParamPushed(p)
<1>1. /\ m \in Context /\ m.sig = c.sig /\ m.ok = c.ok /\ Begins(m.buf, c.buf) /\ Begins(m.fds, c.fds)
      /\ Len(m.buf) = EndOf(Len(c.buf), p.typ) /\ Len(m.buf) > Len(c.buf)
      /\ m.fds = IF p.typ = "h" THEN Append(c.fds, p.val) ELSE c.fds
      /\ Value(m, Len(m.buf)) = <<p.typ, p.val>>
      /\ m.buf[Len(m.buf)][2] = "h" => m.buf[Len(m.buf)][3] < Len(m.fds)
  BY MarshalIs
<1>2. c.buf \in Seq(Byte) /\ c.sig \in Seq(DOMAIN Types) /\ c.fds \in Seq(Nat)
  BY DEF Context
<1>3. p.typ \in DOMAIN Types /\ p.typ # "v"
  BY MessageBodyAssumption
<1>4. CASE ~c.ok
  <2>1. d = c
    BY <1>4 DEF PushParamCore
  <2>2. Begins(c.buf, c.buf) /\ Begins(c.sig, c.sig) /\ Begins(c.fds, c.fds)
    BY <1>2, BeginsSelf
  <2> HIDE DEF d
  <2> QED BY <1>4, <2>1, <2>2 DEF d
<1>5. CASE c.ok /\ p.fault = "marshal"
  <2>1. d = [m EXCEPT !.ok = FALSE]
    BY <1>5 DEF PushParamCore
  <2> HIDE DEF d, m
  <2>2. d.buf = m.buf /\ d.sig = m.sig /\ d.fds = m.fds /\ d.ok = FALSE /\ d \in Context
    BY <1>1, <2>1 DEF Context
  <2>3. Begins(c.sig, c.sig)
    BY <1>2, BeginsSelf
  <2> QED BY <1>1, <1>5, <2>2, <2>3 DEF d
<1>6. CASE c.ok /\ p.fault # "marshal"
  <2> DEFINE v == p.fault # "nested"
  <2>1. d = PushSig(m, p.typ, v)
    BY <1>6 DEF PushParamCore
  <2>2. v \in BOOLEAN
    OBVIOUS
  <2> HIDE DEF d, m, v
  <2>3. /\ d \in Context /\ d.buf = m.buf /\ d.fds = m.fds /\ d.sig = Append(m.sig, p.typ)
        /\ Begins(d.sig, m.sig)
        /\ d.ok => v /\ SigLen(d.sig) <= SigMax
    BY <1>1, <1>3, <2>1, <2>2, PushSigIs
  <2>4. q \in Pushed /\ q.sig = p.typ /\ q.typ = p.typ /\ q.val = p.val
    BY ParamPushedType DEF ParamPushed
  <2>5. DecodeEnd(m.buf, Len(c.buf), q.sig) = Len(m.buf)
    BY <1>1, <1>3, <2>4 DEF DecodeEnd, EndOf
  <2> HIDE DEF q
  <2>9. Appended(m, c, q)
    BY <1>1, <2>4, <2>5 DEF Appended
  <2>6. ASSUME NEW ps, Holds(c, ps)
        PROVE  /\ Holds(d, Append(ps, q))
               /\ ps \in Seq(Pushed) /\ c.fds = FdsOf(ps) => d.fds = FdsOf(Append(ps, q))
    BY <2>3, <2>4, <2>6, <2>9, PushedOne
  <2>7. d.ok => SigLen(d.sig) <= SigMax
    BY <2>3
  <2>8. Begins(d.buf, c.buf) /\ Begins(d.sig, c.sig) /\ Begins(d.fds, c.fds)
    BY <1>1, <2>3
  <2> QED BY <1>6, <2>3, <2>6, <2>7, <2>8 DEF d, q
<1> QED BY <1>4, <1>5, <1>6, MessageBodyAssumption DEF Context

\* push_param_core after pushes that made c of b
LEMMA PushParamGrown ==
  ASSUME NEW b \in Context, NEW c, NEW p \in Params, NEW old, NEW ps \in Seq(Pushed), Grown(c, b, old, ps)
  PROVE  Grown(PushParamCore(c, p), b, old, Append(ps, ParamPushed(p)))
<1> DEFINE d == PushParamCore(c, p)
           q == ParamPushed(p)
<1>1. /\ c \in Context /\ Begins(c.buf, b.buf) /\ Begins(c.sig, b.sig) /\ Begins(c.fds, b.fds)
      /\ c.ok => /\ Holds(c, ps) /\ SigLen(c.sig) <= SigMax
                 /\ b.fds = FdsOf(old) => c.fds = FdsOf(ps)
  BY DEF Grown
<1>2. /\ d \in Context /\ Begins(d.buf, c.buf) /\ Begins(d.sig, c.sig) /\ Begins(d.fds, c.fds)
      /\ d.ok => c.ok /\ p.fault # "marshal" /\ SigLen(d.sig) <= SigMax
      /\ c.ok /\ p.fault # "marshal" => \A s :
           /\ Holds(c, s) => Holds(d, Append(s, q))
           /\ s \in Seq(Pushed) /\ c.fds = FdsOf(s) /\ Holds(c, s) => d.fds = FdsOf(Append(s, q))
  <2> HIDE DEF q
  <2> QED BY <1>1, PushParamIs DEF q
<1> HIDE DEF d, q
<1>3. Begins(d.buf, b.buf) /\ Begins(d.sig, b.sig) /\ Begins(d.fds, b.fds)
  <2>1. /\ b.buf \in Seq(Byte) /\ c.buf \in Seq(Byte) /\ d.buf \in Seq(Byte)
        /\ b.sig \in Seq(DOMAIN Types) /\ c.sig \in Seq(DOMAIN Types) /\ d.sig \in Seq(DOMAIN Types)
        /\ b.fds \in Seq(Nat) /\ c.fds \in Seq(Nat) /\ d.fds \in Seq(Nat)
    BY <1>1, <1>2 DEF Context
  <2> QED BY <1>1, <1>2, <2>1, BeginsTrans
<1>4. ASSUME d.ok
      PROVE  /\ Holds(d, Append(ps, q)) /\ SigLen(d.sig) <= SigMax
             /\ b.fds = FdsOf(old) => d.fds = FdsOf(Append(ps, q))
  BY <1>1, <1>2, <1>4
<1> QED BY <1>2, <1>3, <1>4 DEF Grown, d, q

\* push_params: all of them, in order, or none that counts
LEMMA PushAllGrown ==
  ASSUME NEW c \in Context, NEW old \in Seq(Pushed), Holds(c, old), SigLen(c.sig) <= SigMax,
         NEW ps \in Seq(Params), NEW qs, qs = [i \in DOMAIN ps |-> ParamPushed(ps[i])]
  PROVE  Grown(PushAll(c, ps), c, old, old \o qs)
<1> DEFINE n == Len(ps)
<1>1. /\ n \in Nat /\ DOMAIN ps = 1 .. n /\ \A i \in 1 .. n : ps[i] \in Params
  BY ElementOfSeq, LenProperties
<1>2. qs \in [1 .. n -> Pushed] /\ \A i \in 1 .. n : qs[i] = ParamPushed(ps[i])
  BY <1>1, ParamPushedType
<1>3. qs \in Seq(Pushed) /\ Len(qs) = n
  BY <1>1, <1>2, FunctionSeq
<1>4. PICK f : /\ f[0] = c /\ \A i \in 1 .. n : f[i] = PushParamCore(f[i - 1], ps[i])
               /\ PushAll(c, ps) = f[n]
  BY <1>1, PushAllRec, SMTT(40)
<1> DEFINE S == {i \in 0 .. n : Grown(f[i], c, old, old \o SubSeq(qs, 1, i))}
<1>5. 0 \in S
  <2>1. SubSeq(qs, 1, 0) = <<>> /\ old \o <<>> = old
    BY <1>3
  <2>2. c.buf \in Seq(Byte) /\ c.sig \in Seq(DOMAIN Types) /\ c.fds \in Seq(Nat)
    BY DEF Context
  <2>3. Begins(c.buf, c.buf) /\ Begins(c.sig, c.sig) /\ Begins(c.fds, c.fds)
    BY <2>2, BeginsSelf
  <2>4. Grown(c, c, old, old)
    BY <2>3 DEF Grown
  <2>5. Grown(f[0], c, old, old \o SubSeq(qs, 1, 0))
    BY <1>4, <2>1, <2>4
  <2> QED BY <1>1, <2>5
<1>6. \A i \in 0 .. n - 1 : i \in S => i + 1 \in S
  <2>1. SUFFICES ASSUME NEW i \in 0 .. n - 1, i \in S PROVE i + 1 \in S
    OBVIOUS
  <2>2. i + 1 \in 1 .. n /\ i + 1 \in 0 .. n /\ (i + 1) - 1 = i
    BY <1>1
  <2>3. f[i + 1] = PushParamCore(f[i], ps[i + 1]) /\ ps[i + 1] \in Params
    BY <1>1, <1>4, <2>2
  <2> DEFINE s == SubSeq(qs, 1, i)
             q == ParamPushed(ps[i + 1])
  <2>4. s \in Seq(Pushed) /\ q \in Pushed
    <3>1. i \in 0 .. Len(qs)
      BY <1>1, <1>3
    <3> QED BY <1>3, <2>3, <3>1, Cut, ParamPushedType
  <2>5. SubSeq(qs, 1, i + 1) = Append(s, q)
    BY <1>1, <1>2, <1>3, <2>2
  <2> HIDE DEF s, q
  <2>6. old \o Append(s, q) = Append(old \o s, q) /\ old \o s \in Seq(Pushed)
    BY <2>4
  <2>7. Grown(f[i], c, old, old \o s)
    BY <2>1 DEF s
  <2>8. Grown(PushParamCore(f[i], ps[i + 1]), c, old, Append(old \o s, q))
    BY <2>3, <2>6, <2>7, PushParamGrown DEF q
  <2> QED BY <2>2, <2>3, <2>5, <2>6, <2>8
<1>7. n \in S
  <2>1. n \in 0 .. n
    BY <1>1
  <2> HIDE DEF S, n
  <2> QED BY <1>1, <1>5, <1>6, <2>1, ZeroInduction
<1>8. SubSeq(qs, 1, n) = qs
  BY <1>3, SubSeqFull
<1> QED BY <1>4, <1>7, <1>8

\* push_variant
LEMMA PushVariantGrown ==
  ASSUME NEW c \in Context, NEW old \in Seq(Pushed), Holds(c, old), NEW p \in Params
  PROVE  Grown(PushVariantCore(c, p), c, old, Append(old, VariantPushed(p)))
<1> DEFINE d == PushVariantCore(c, p)
           m == MarshalAsVariant(c, p)
           q == VariantPushed(p)
<1>1. /\ m \in Context /\ m.sig = c.sig /\ m.ok = c.ok /\ Begins(m.buf, c.buf) /\ Begins(m.fds, c.fds)
      /\ DecodeEnd(m.buf, Len(c.buf), "v") = Len(m.buf) /\ Len(m.buf) > Len(c.buf)
      /\ m.fds = IF p.typ = "h" THEN Append(c.fds, p.val) ELSE c.fds
      /\ Value(m, Len(m.buf)) = <<p.typ, p.val>>
      /\ m.buf[Len(m.buf)][2] = "h" => m.buf[Len(m.buf)][3] < Len(m.fds)
  BY VariantIs
<1>2. c.sig \in Seq(DOMAIN Types) /\ Begins(c.sig, c.sig)
  BY BeginsSelf DEF Context
<1>3. CASE p.fault = "marshal"
  <2>1. d = [m EXCEPT !.ok = FALSE]
    BY <1>3 DEF PushVariantCore
  <2> HIDE DEF d, m
  <2>2. d.buf = m.buf /\ d.sig = m.sig /\ d.fds = m.fds /\ d.ok = FALSE /\ d \in Context
    BY <1>1, <2>1 DEF Context
  <2> QED BY <1>1, <1>2, <2>2 DEF d, Grown
<1>4. CASE p.fault # "marshal"
  <2>1. d = PushSig(m, "v", TRUE) /\ "v" \in DOMAIN Types
    BY <1>4, MessageBodyAssumption DEF PushVariantCore
  <2> HIDE DEF d, m
  <2>3. /\ d \in Context /\ d.buf = m.buf /\ d.fds = m.fds /\ d.sig = Append(m.sig, "v")
        /\ Begins(d.sig, m.sig)
        /\ d.ok => SigLen(d.sig) <= SigMax
    BY <1>1, <2>1, PushSigIs
  <2>4. q \in Pushed /\ q.sig = "v" /\ q.typ = p.typ /\ q.val = p.val
    BY ParamPushedType DEF VariantPushed
  <2> HIDE DEF q
  <2>5. /\ Holds(d, Append(old, q))
        /\ c.fds = FdsOf(old) => d.fds = FdsOf(Append(old, q))
    <3>1. Appended(m, c, q)
      BY <1>1, <2>4 DEF Appended
    <3> QED BY <2>3, <2>4, <3>1, PushedOne
  <2> QED BY <1>1, <2>3, <2>5 DEF Grown, d, q
<1> QED BY <1>3, <1>4

\* Cutting back what was appended
LEMMA CutBack ==
  ASSUME NEW S, NEW s \in Seq(S), NEW t \in Seq(S), Begins(s, t)
  PROVE  SubSeq(s, 1, Len(t)) = t
<1>1. Len(s) \in Nat /\ Len(t) \in Nat /\ Len(t) \in 0 .. Len(s) /\ \A i \in 1 .. Len(t) : s[i] = t[i]
  BY DEF Begins
<1> DEFINE u == SubSeq(s, 1, Len(t))
<1>2. u \in Seq(S) /\ Len(u) = Len(t)
  BY <1>1, Cut
<1>3. \A i \in 1 .. Len(t) : u[i] = t[i]
  BY <1>1
<1> HIDE DEF u
<1>4. u = t
  BY <1>2, <1>3, SeqEqual
<1> QED BY <1>4 DEF u

\* What a body holds depends on its buffer, signature and fds.
LEMMA HoldsSame ==
  ASSUME NEW b, NEW c, NEW ps, Holds(b, ps), b.buf = c.buf, b.sig = c.sig, b.fds = c.fds
  PROVE  Holds(c, ps)
  BY DEF Holds, Value

\* A body that holds ps validates and reads back as ps.
LEMMA HoldsRead ==
  ASSUME NEW b, NEW ps, Holds(b, ps)
  PROVE  /\ Validate(b) /\ ReadBack(b) = Values(ps) /\ b.sig = Sigs(ps)
         /\ b.sig \in Seq(DOMAIN Types) /\ b.fds \in Seq(Nat)
         /\ b.buf = <<>> <=> ps = <<>>
<1> DEFINE E == Ends(b.buf, b.sig)
<1>1. /\ ps \in Seq(Pushed) /\ b.sig = Sigs(ps) /\ E[Len(ps)] = Len(b.buf)
      /\ b.buf \in Seq(Byte) /\ b.fds \in Seq(Nat)
      /\ \A i \in 1 .. Len(ps) : E[i] \in 1 .. Len(b.buf) /\ Value(b, E[i]) = <<ps[i].typ, ps[i].val>>
  BY DEF Holds
<1>2. /\ Len(ps) \in Nat /\ Len(b.sig) = Len(ps) /\ DOMAIN b.sig = 1 .. Len(ps)
      /\ DOMAIN ps = 1 .. Len(ps) /\ b.sig \in Seq(DOMAIN Types)
  BY <1>1, SigsSeq
<1>3. Validate(b)
  BY <1>1, <1>2 DEF Validate
<1>4. ReadBack(b) = [i \in 1 .. Len(ps) |-> Value(b, E[i])]
  BY <1>2 DEF ReadBack
<1>5. Values(ps) = [i \in 1 .. Len(ps) |-> <<ps[i].typ, ps[i].val>>]
  BY <1>2 DEF Values
<1>6. E[0] = 0
  BY <1>2, EndsRec
<1> HIDE DEF E
<1>7. ReadBack(b) = Values(ps)
  BY <1>1, <1>4, <1>5
<1>8. b.buf = <<>> <=> ps = <<>>
  <2>1. CASE Len(ps) = 0
    <3>1. ps = <<>> /\ Len(b.buf) = 0
      BY <1>1, <1>6, <2>1, EmptySeq
    <3> QED BY <1>1, <3>1, EmptySeq
  <2>2. CASE Len(ps) # 0
    <3>1. Len(ps) \in 1 .. Len(ps)
      BY <1>2, <2>2
    <3>2. Len(b.buf) # 0
      BY <1>1, <3>1
    <3> QED BY <2>2, <3>2
  <2> QED BY <2>1, <2>2
<1> QED BY <1>1, <1>2, <1>3, <1>7, <1>8

-----------------------------------------------------------------------------
(* The body                                                                *)

USE DEF BodyInv

\* A bounded sequence is a sequence.
LEMMA BoundedIsSeq == ASSUME NEW S, NEW n \in Nat, NEW s \in BoundedSeq(S, n) PROVE s \in Seq(S)
<1>1. PICK m \in 0 .. n : s \in [1 .. m -> S]
  BY DEF BoundedSeq, SeqOf
<1> QED BY <1>1

\* The body as a push starts with it
LEMMA CtxIs ==
  ASSUME BodyInv
  PROVE  Ctx \in Context /\ Holds(Ctx, pushed) /\ SigLen(Ctx.sig) <= SigMax /\ pushed \in Seq(Pushed)
<1>1. Ctx \in Context /\ Ctx.buf = body.buf /\ Ctx.sig = body.sig /\ Ctx.fds = body.fds
  BY DEF Ctx, Context
<1>2. Holds(Ctx, pushed)
  BY <1>1, HoldsSame
<1> QED BY <1>1, <1>2 DEF Holds

\* push_param_helper: a push that failed left nothing, one that did not added
\* all of its parameters.
LEMMA HelperInv ==
  ASSUME BodyInv, NEW c, NEW ps, Grown(c, Ctx, pushed, pushed \o ps), PushParamHelper(c, ps)
  PROVE  BodyInv'
<1>1. /\ c \in Context /\ Begins(c.buf, body.buf) /\ Begins(c.sig, body.sig) /\ Begins(c.fds, body.fds)
      /\ c.ok => /\ Holds(c, pushed \o ps) /\ SigLen(c.sig) <= SigMax
                 /\ body.fds = FdsOf(pushed) => c.fds = FdsOf(pushed \o ps)
  BY DEF Grown, Ctx
<1>2. c.buf \in Seq(Byte) /\ c.sig \in Seq(DOMAIN Types) /\ c.fds \in Seq(Nat)
  BY <1>1 DEF Context
<1>3. body.buf \in Seq(Byte) /\ body.sig \in Seq(DOMAIN Types) /\ body.fds \in Seq(Nat)
  OBVIOUS
<1>4. parser = <<>> /\ parser' = parser /\ got' = got /\ reused' = reused
  BY DEF PushParamHelper
<1>5. CASE c.ok
  <2>1. body' = [buf |-> c.buf, sig |-> c.sig, fds |-> c.fds] /\ pushed' = pushed \o ps
    BY <1>5 DEF PushParamHelper
  <2>2. Holds(body', pushed')
    BY <1>1, <1>5, <2>1, HoldsSame, SMTT(40)
  <2> QED BY <1>1, <1>2, <1>4, <1>5, <2>1, <2>2 DEF ParserInStep
<1>6. CASE ~c.ok
  <2>1. body' = Truncate(c, body) /\ pushed' = pushed
    BY <1>6 DEF PushParamHelper
  <2>2. body'.buf = body.buf /\ body'.sig = body.sig /\ body'.fds = body.fds
    BY <1>1, <1>2, <1>3, <2>1, CutBack DEF Truncate
  <2>3. body' \in [buf : Seq(Byte), sig : Seq(DOMAIN Types), fds : Seq(Nat)]
    <3>1. body' = [buf |-> body'.buf, sig |-> body'.sig, fds |-> body'.fds]
      BY <2>1 DEF Truncate
    <3> QED BY <1>3, <2>2, <3>1
  <2>4. Holds(body', pushed')
    BY <2>1, <2>2, HoldsSame
  <2> QED BY <1>4, <2>1, <2>2, <2>3, <2>4 DEF ParserInStep
<1> QED BY <1>5, <1>6

\* push_param .. push_params
LEMMA PushParamsInv == ASSUME BodyInv, PushParams PROVE BodyInv'
<1>1. PICK ps \in BoundedSeq(Params, MaxArgs) :
        PushParamHelper(PushAll(Ctx, ps), [i \in DOMAIN ps |->
          [sig |-> ps[i].typ, typ |-> ps[i].typ, val |-> ps[i].val]])
  BY DEF PushParams
<1>2. ps \in Seq(Params)
  BY <1>1, BoundedIsSeq, MessageBodyAssumption
<1> DEFINE qs == [i \in DOMAIN ps |-> ParamPushed(ps[i])]
<1>3. PushParamHelper(PushAll(Ctx, ps), qs)
  BY <1>1 DEF ParamPushed
<1>4. Grown(PushAll(Ctx, ps), Ctx, pushed, pushed \o qs)
  <2>1. qs = [i \in DOMAIN ps |-> ParamPushed(ps[i])]
    OBVIOUS
  <2> HIDE DEF qs
  <2> QED BY <1>2, <2>1, CtxIs, PushAllGrown
<1> HIDE DEF qs
<1> QED BY <1>3, <1>4, HelperInv

\* push_variant
LEMMA PushVariantInv == ASSUME BodyInv, PushVariant PROVE BodyInv'
<1>1. PICK p \in Params : PushParamHelper(PushVariantCore(Ctx, p), <<VariantPushed(p)>>)
  BY DEF PushVariant, VariantPushed
<1>2. Grown(PushVariantCore(Ctx, p), Ctx, pushed, Append(pushed, VariantPushed(p)))
  BY CtxIs, PushVariantGrown
<1>3. Append(pushed, VariantPushed(p)) = pushed \o <<VariantPushed(p)>>
  BY CtxIs, ParamPushedType, AppendIsConcat
<1> QED BY <1>1, <1>2, <1>3, HelperInv

\* reset: nothing is held any more, the fds excepted.
LEMMA ResetInv == ASSUME BodyInv, Reset PROVE BodyInv'
<1>1. /\ body' = [body EXCEPT !.sig = <<>>, !.buf = <<>>] /\ pushed' = <<>> /\ reused' = TRUE
      /\ parser' = <<>> /\ got' = got
  BY DEF Reset
<1>2. body'.buf = <<>> /\ body'.sig = <<>> /\ body'.fds = body.fds /\ body.fds \in Seq(Nat)
  BY <1>1
<1>3. body' \in [buf : Seq(Byte), sig : Seq(DOMAIN Types), fds : Seq(Nat)]
  <2>1. <<>> \in Seq(Byte) /\ <<>> \in Seq(DOMAIN Types)
    OBVIOUS
  <2> QED BY <1>1, <2>1
<1>4. Holds(body', pushed')
  BY <1>1, <1>2, HoldsEmpty
<1>5. SigLen(body'.sig) <= SigMax
  BY <1>2, SigLenEmpty, MessageBodyAssumption
<1> QED BY <1>1, <1>3, <1>4, <1>5 DEF ParserInStep

\* s is what gets made of the parser: if all went well it is in step with what
\* was returned.
InStep(s) ==
  /\ DOMAIN s = {"p", "got", "ok"} /\ s = [p |-> s.p, got |-> s.got, ok |-> s.ok]
  /\ s.ok => /\ s.p.sig_idx \in 0 .. Len(pushed) /\ s.p.buf_idx = Ends(body.buf, body.sig)[s.p.sig_idx]
             /\ s.got = SubSeq(Values(pushed), 1, s.p.sig_idx)

\* get: the next value, or none and the caller puts the parser back.
LEMMA GetInStep ==
  ASSUME BodyInv, NEW s, InStep(s), NEW want
  PROVE  InStep(Get(s, want))
<1> DEFINE k == s.p.sig_idx
           end == DecodeEnd(body.buf, s.p.buf_idx, want.typ)
           bad == \/ ~s.ok \/ k >= Len(body.sig) \/ body.sig[k + 1] # want.typ
                  \/ end > Len(body.buf) \/ want.refuse
           d == Get(s, want)
<1>1. CASE bad
  <2>1. d = [s EXCEPT !.ok = FALSE]
    BY <1>1 DEF Get
  <2> HIDE DEF d
  <2>2. DOMAIN d = {"p", "got", "ok"} /\ d = [p |-> d.p, got |-> d.got, ok |-> d.ok] /\ d.ok = FALSE
    BY <2>1 DEF InStep
  <2> QED BY <2>2 DEF InStep, d
<1>2. CASE ~bad
  <2>1. d = [s EXCEPT !.p = [buf_idx |-> end, sig_idx |-> k + 1], !.got = Append(s.got, Value(body, end))]
    BY <1>2 DEF Get, InStep
  <2>2. s.ok /\ ~(k >= Len(body.sig)) /\ body.sig[k + 1] = want.typ
    BY <1>2
  <2>3. pushed \in Seq(Pushed) /\ body.sig = Sigs(pushed)
    BY DEF Holds
  <2>4. /\ Len(pushed) \in Nat /\ Len(body.sig) = Len(pushed)
        /\ Values(pushed) \in Seq((DOMAIN Types) \X Nat) /\ Len(Values(pushed)) = Len(pushed)
        /\ \A i \in 1 .. Len(pushed) : Values(pushed)[i] = <<pushed[i].typ, pushed[i].val>>
    BY <2>3, SigsSeq
  <2>5. k \in 0 .. Len(pushed) /\ k + 1 \in 1 .. Len(pushed) /\ k + 1 \in 0 .. Len(pushed) /\ (k + 1) - 1 = k
    BY <2>2, <2>4, SMTT(40), ZenonT(60) DEF InStep
  <2> DEFINE E == Ends(body.buf, body.sig)
  <2>6. E[k + 1] = DecodeEnd(body.buf, E[k], body.sig[k + 1])
    <3>1. \A i \in 1 .. Len(body.sig) : E[i] = DecodeEnd(body.buf, E[i - 1], body.sig[i])
      BY <2>4, EndsRec
    <3> HIDE DEF E, k
    <3> QED BY <2>4, <2>5, <3>1
  <2>7. end = E[k + 1]
    BY <2>2, <2>6 DEF InStep
  <2>8. Value(body, end) = Values(pushed)[k + 1]
    <3>1. Value(body, E[k + 1]) = <<pushed[k + 1].typ, pushed[k + 1].val>>
      BY <2>5 DEF Holds
    <3> QED BY <2>4, <2>5, <2>7, <3>1
  <2>9. Append(SubSeq(Values(pushed), 1, k), Values(pushed)[k + 1]) = SubSeq(Values(pushed), 1, k + 1)
    <3> DEFINE v == Values(pushed)
    <3>1. v \in Seq((DOMAIN Types) \X Nat) /\ k \in Nat /\ k + 1 \in 1 .. Len(v) /\ Len(v) \in Nat
      BY <2>4, <2>5
    <3> HIDE DEF v, k
    <3>2. Append(SubSeq(v, 1, k), v[k + 1]) = SubSeq(v, 1, k + 1)
      BY <3>1
    <3> QED BY <3>2 DEF v
  <2>10. s.got = SubSeq(Values(pushed), 1, k)
    BY <2>2 DEF InStep
  <2> HIDE DEF d, end, E, k
  <2>11. /\ DOMAIN d = {"p", "got", "ok"} /\ d = [p |-> d.p, got |-> d.got, ok |-> d.ok]
         /\ d.p.sig_idx = k + 1 /\ d.p.buf_idx = end /\ d.got = Append(s.got, Value(body, end))
    BY <2>1 DEF InStep
  <2>12. d.got = SubSeq(Values(pushed), 1, k + 1)
    BY <2>8, <2>9, <2>10, <2>11
  <2> QED BY <2>5, <2>7, <2>11, <2>12 DEF InStep, d, E
<1> QED BY <1>1, <1>2

\* get2 .. get5
LEMMA GetAllInStep ==
  ASSUME BodyInv, NEW s, InStep(s), NEW wants, Len(wants) \in Nat
  PROVE  InStep(GetAll(s, wants))
<1> DEFINE n == Len(wants)
<1>1. PICK f : /\ f[0] = s /\ \A i \in 1 .. n : f[i] = Get(f[i - 1], wants[i])
               /\ GetAll(s, wants) = f[n]
  BY GetAllRec
<1> DEFINE S == {i \in 0 .. n : InStep(f[i])}
<1>2. 0 \in S
  BY <1>1
<1>3. \A i \in 0 .. n - 1 : i \in S => i + 1 \in S
  <2>1. SUFFICES ASSUME NEW i \in 0 .. n - 1, i \in S PROVE i + 1 \in S
    OBVIOUS
  <2>2. i + 1 \in 1 .. n /\ i + 1 \in 0 .. n /\ (i + 1) - 1 = i
    OBVIOUS
  <2>3. f[i + 1] = Get(f[i], wants[i + 1])
    BY <1>1, <2>2
  <2>4. InStep(Get(f[i], wants[i + 1]))
    BY <2>1, GetInStep
  <2> QED BY <2>2, <2>3, <2>4
<1>4. n \in S
  <2>1. n \in 0 .. n /\ n \in Nat
    OBVIOUS
  <2> HIDE DEF S, n
  <2> QED BY <1>2, <1>3, <2>1, ZeroInduction
<1> QED BY <1>1, <1>4

\* When all gets went well the parser is where the last one left it, else where
\* it was.
LEMMA GetMultInv == ASSUME BodyInv, GetMult PROVE BodyInv'
<1>1. PICK wants \in BoundedSeq([typ : DOMAIN Types, refuse : BOOLEAN], MaxArgs) :
        /\ parser # <<>>
        /\ LET s == GetAll([p |-> parser[1], got |-> got, ok |-> TRUE], wants) IN
           /\ parser' = <<IF s.ok THEN s.p ELSE PutBack(s, parser[1])>>
           /\ got' = IF s.ok THEN s.got ELSE got
        /\ UNCHANGED <<body, pushed, reused, outs>>
  BY DEF GetMult
<1> DEFINE t == [p |-> parser[1], got |-> got, ok |-> TRUE]
           s == GetAll(t, wants)
<1>2. Len(wants) \in Nat
  BY BoundedIsSeq, MessageBodyAssumption
<1>3. InStep(t)
  BY <1>1 DEF InStep, ParserInStep
<1>4. InStep(s)
  <2> HIDE DEF t
  <2> QED BY <1>2, <1>3, GetAllInStep
<1>5. /\ parser' = <<IF s.ok THEN s.p ELSE parser[1]>> /\ got' = IF s.ok THEN s.got ELSE got
      /\ body' = body /\ pushed' = pushed /\ reused' = reused /\ parser # <<>>
  BY <1>1 DEF PutBack
<1> HIDE DEF s
<1>6. /\ parser'[1].sig_idx \in 0 .. Len(pushed)
      /\ parser'[1].buf_idx = Ends(body.buf, body.sig)[parser'[1].sig_idx]
      /\ got' = SubSeq(Values(pushed), 1, parser'[1].sig_idx)
  <2>1. CASE s.ok
    BY <2>1, <1>4, <1>5 DEF InStep
  <2>2. CASE ~s.ok
    <3>1. parser'[1] = parser[1] /\ got' = got
      BY <2>2, <1>5
    <3> QED BY <1>5, <3>1 DEF ParserInStep
  <2> QED BY <2>1, <2>2
<1> QED BY <1>5, <1>6 DEF ParserInStep

\* A new parser stands before the first value.
LEMMA NewParserInv == ASSUME BodyInv, NewParser PROVE BodyInv'
<1>1. /\ parser' = <<[buf_idx |-> 0, sig_idx |-> 0]>> /\ got' = <<>>
      /\ body' = body /\ pushed' = pushed /\ reused' = reused
  BY DEF NewParser
<1>2. pushed \in Seq(Pushed) /\ body.sig = Sigs(pushed)
  BY DEF Holds
<1>3. /\ Len(pushed) \in Nat /\ Len(body.sig) = Len(pushed)
      /\ Values(pushed) \in Seq((DOMAIN Types) \X Nat)
  BY <1>2, SigsSeq
<1>4. SubSeq(Values(pushed), 1, 0) = <<>>
  BY <1>3
<1>5. Ends(body.buf, body.sig)[0] = 0
  BY <1>3, EndsRec
<1>6. parser'[1].sig_idx = 0 /\ parser'[1].buf_idx = 0 /\ 0 \in 0 .. Len(pushed)
  BY <1>1, <1>3
<1> QED BY <1>1, <1>4, <1>5, <1>6 DEF ParserInStep

\* The parser goes.
LEMMA DropParserInv == ASSUME BodyInv, DropParser PROVE BodyInv'
  BY DEF DropParser, ParserInStep

\* What leaves the body and its parser alone
LEMMA BodyAlone == ASSUME BodyInv, UNCHANGED <<body, pushed, reused, parser, got>> PROVE BodyInv'
  BY DEF ParserInStep

\* An empty body that nothing was pushed on
LEMMA BodyInitInv == BodyInit => BodyInv
<1> SUFFICES ASSUME BodyInit PROVE BodyInv
  OBVIOUS
<1>1. /\ body = [buf |-> <<>>, sig |-> <<>>, fds |-> <<>>] /\ pushed = <<>> /\ parser = <<>>
  BY DEF BodyInit, Empty
<1>2. body \in [buf : Seq(Byte), sig : Seq(DOMAIN Types), fds : Seq(Nat)]
  <2>1. <<>> \in Seq(Byte) /\ <<>> \in Seq(DOMAIN Types) /\ <<>> \in Seq(Nat)
    OBVIOUS
  <2> QED BY <1>1, <2>1
<1>3. Holds(body, pushed)
  <2>1. body.buf = <<>> /\ body.sig = <<>> /\ body.fds \in Seq(Nat)
    BY <1>1, <1>2
  <2> QED BY <1>1, <2>1, HoldsEmpty
<1>4. SigLen(body.sig) <= SigMax
  BY <1>1, SigLenEmpty, MessageBodyAssumption
<1> QED BY <1>1, <1>2, <1>3, <1>4, FdsOfEmpty DEF ParserInStep

\* Every operation of the body keeps BodyInv.
LEMMA BodyNextInv == ASSUME BodyInv, BodyNext PROVE BodyInv'
<1>1. CASE PushParams
  BY <1>1, PushParamsInv
<1>2. CASE PushVariant
  BY <1>2, PushVariantInv
<1>3. CASE Reset
  BY <1>3, ResetInv
<1>4. CASE Reserve
  BY <1>4, BodyAlone DEF Reserve
<1>5. CASE NewParser
  BY <1>5, NewParserInv
<1>6. CASE DropParser
  BY <1>6, DropParserInv
<1>7. CASE GetMult
  BY <1>7, GetMultInv
<1> QED BY <1>1, <1>2, <1>3, <1>4, <1>5, <1>6, <1>7 DEF BodyNext

\* BodyInv is what HoldsWhatWasPushed says, and more.
LEMMA BodyInvHolds == BodyInv => HoldsWhatWasPushed /\ ParserInStep
<1> SUFFICES ASSUME BodyInv PROVE HoldsWhatWasPushed
  OBVIOUS
<1>1. Validate(body) /\ ReadBack(body) = Values(pushed) /\ body.sig = Sigs(pushed)
  BY HoldsRead
<1> QED BY <1>1 DEF HoldsWhatWasPushed

-----------------------------------------------------------------------------
(* Headers                                                                 *)

\* The codes of the fields
LEMMA CodeIs ==
  /\ Code[1] = "object" /\ Code[2] = "interface" /\ Code[3] = "member" /\ Code[4] = "error_name"
  /\ Code[5] = "response_serial" /\ Code[6] = "destination" /\ Code[7] = "sender"
  /\ Code[8] = "signature" /\ Code[9] = "num_fds" /\ DOMAIN Code = 1 .. 9 /\ Len(Code) = 9
  /\ Kind[1] = "o" /\ Kind[2] = "s" /\ Kind[3] = "s" /\ Kind[4] = "s" /\ Kind[5] = "u"
  /\ Kind[6] = "s" /\ Kind[7] = "s" /\ Kind[8] = "g" /\ Kind[9] = "u"
  BY DEF Code, Kind

\* The codes, one by one
LEMMA NineCodes ==
  \A c \in 1 .. 9 : \/ c = 1 \/ c = 2 \/ c = 3 \/ c = 4 \/ c = 5
                    \/ c = 6 \/ c = 7 \/ c = 8 \/ c = 9
  OBVIOUS

\* No two fields have the same name.
LEMMA CodeOnce == \A b, c \in 1 .. 9 : Code[b] = Code[c] => b = c
<1> SUFFICES ASSUME NEW b \in 1 .. 9, NEW c \in 1 .. 9, Code[b] = Code[c] PROVE b = c
  OBVIOUS
<1> QED BY CodeIs, NineCodes

\* The code of a field is found by its name.
LEMMA CodeOf == \A c \in 1 .. 9 : (CHOOSE k \in 1 .. 9 : Code[k] = Code[c]) = c
<1> SUFFICES ASSUME NEW c \in 1 .. 9 PROVE (CHOOSE k \in 1 .. 9 : Code[k] = Code[c]) = c
  OBVIOUS
<1> DEFINE k == CHOOSE x \in 1 .. 9 : Code[x] = Code[c]
<1>1. k \in 1 .. 9 /\ Code[k] = Code[c]
  OBVIOUS
<1> QED BY <1>1, CodeOnce

\* The fields of a DynamicHeader are those with a code, and the serial.
LEMMA FieldNames ==
  /\ DOMAIN NoFields = {Code[c] : c \in 1 .. 9} \cup {"serial"}
  /\ DOMAIN NoFields = {"object", "interface", "member", "error_name", "response_serial",
                        "destination", "sender", "signature", "num_fds", "serial"}
  /\ \A f \in DOMAIN NoFields : NoFields[f] = <<>>
  /\ \A c \in 1 .. 9 : Code[c] \in DOMAIN NoFields /\ Code[c] # "serial"
<1>1. ToSet(Code) = {Code[c] : c \in 1 .. 9}
  BY CodeIs DEF ToSet
<1>2. {Code[c] : c \in 1 .. 9} = {"object", "interface", "member", "error_name", "response_serial",
                                   "destination", "sender", "signature", "num_fds"}
  BY CodeIs, NineCodes
<1>3. NoFields = [f \in ToSet(Code) \cup {"serial"} |-> <<>>]
  BY DEF NoFields
<1>4. \A c \in 1 .. 9 : Code[c] # "serial"
  BY CodeIs, NineCodes
<1> QED BY <1>1, <1>2, <1>3, <1>4

\* Every field of a header is an Option.
LEMMA FieldOption ==
  ASSUME NEW d, Options(d), NEW b, NEW c \in 1 .. 9
  PROVE  Field(d, b, c) # <<>> => Field(d, b, c) = <<Field(d, b, c)[1]>>
<1>1. CASE c = 8
  BY <1>1 DEF Field
<1>2. CASE c = 9
  BY <1>2 DEF Field
<1>3. CASE c # 8 /\ c # 9
  <2>1. Field(d, b, c) = d[Code[c]] /\ Code[c] \in DOMAIN d
    BY <1>3, FieldNames DEF Field, Options
  <2> QED BY <2>1 DEF Options
<1> QED BY <1>1, <1>2, <1>3

\* A field as it is marshalled
Marshalled(d, b, c) == [code |-> c, kind |-> Kind[c], val |-> Field(d, b, c)[1]]

\* marshal_header writes exactly the fields that are there.
LEMMA MarshalHeaderIs ==
  ASSUME NEW m, NEW b, NEW serial, Options(m.dyn)
  PROVE  LET h == MarshalHeader(m, b, serial)
             x == h.fields IN
         /\ h.typ = m.typ /\ h.serial = serial /\ h.cut = FALSE /\ DOMAIN h = {"typ", "serial", "cut", "fields"}
         /\ Len(x) \in Nat /\ DOMAIN x = 1 .. Len(x) /\ OnWire(x, m.dyn, b)
<1> DEFINE d == m.dyn
           h == MarshalHeader(m, b, serial)
           x == h.fields
           One(c) == LET opt == Field(d, b, c) IN
                     [i \in DOMAIN opt |-> [code |-> c, kind |-> Kind[c], val |-> opt[i]]]
           s == [c \in 1 .. 9 |-> One(c)]
           S == {Marshalled(d, b, c) : c \in 1 .. 9}
<1>1. /\ h = [typ |-> m.typ, serial |-> serial, cut |-> FALSE, fields |-> FlattenSeq(s)]
  BY DEF MarshalHeader
<1>2. /\ h.typ = m.typ /\ h.serial = serial /\ h.cut = FALSE /\ x = FlattenSeq(s)
      /\ DOMAIN h = {"typ", "serial", "cut", "fields"}
  <2> HIDE DEF s, h
  <2> QED BY <1>1
<1>3. ASSUME NEW c \in 1 .. 9
      PROVE  /\ s[c] \in Seq(S)
             /\ Field(d, b, c) = <<>> => s[c] = <<>>
             /\ Field(d, b, c) # <<>> => s[c] = <<Marshalled(d, b, c)>>
  <2>1. s[c] = One(c)
    OBVIOUS
  <2> DEFINE opt == Field(d, b, c)
  <2>2. One(c) = [i \in DOMAIN opt |-> [code |-> c, kind |-> Kind[c], val |-> opt[i]]]
    OBVIOUS
  <2>3. opt # <<>> => opt = <<opt[1]>>
    <3> HIDE DEF d
    <3> QED BY FieldOption DEF d
  <2> HIDE DEF opt, One
  <2>4. CASE opt = <<>>
    BY <2>1, <2>2, <2>4 DEF opt
  <2>5. CASE opt # <<>>
    <3>1. DOMAIN opt = 1 .. 1
      BY <2>3, <2>5
    <3>2. One(c) = <<[code |-> c, kind |-> Kind[c], val |-> opt[1]]>>
      BY <2>2, <3>1
    <3>3. One(c) = <<Marshalled(d, b, c)>> /\ Marshalled(d, b, c) \in S
      BY <3>2 DEF opt, Marshalled
    <3> HIDE DEF S, s, d
    <3>4. <<Marshalled(d, b, c)>> \in Seq(S)
      BY <3>3
    <3> QED BY <2>1, <2>5, <3>3, <3>4 DEF opt
  <2> QED BY <2>4, <2>5
<1>4. s \in [1 .. 9 -> Seq(S)]
  <2>1. \A c \in 1 .. 9 : s[c] \in Seq(S)
    BY <1>3
  <2>2. s = [c \in 1 .. 9 |-> s[c]]
    OBVIOUS
  <2> HIDE DEF s, S
  <2> QED BY <2>1, <2>2
<1> HIDE DEF s, h, d, S
<1>5. Len(s) = 9 /\ s \in Seq(Seq(S))
  BY <1>4, FunctionSeq
<1>6. x \in Seq(S) /\ ElementsOf(x, s) /\ 1 .. Len(s) = 1 .. 9
  <2>1. Len(s) \in Nat /\ Len(s) # 0 /\ \A i \in 1 .. Len(s) : s[i] \in Seq(S)
    BY <1>3, <1>5
  <2>2. x = FlattenSeq(s) /\ 1 .. Len(s) = 1 .. 9
    BY <1>2, <1>5
  <2>3. FlattenSeq(s) \in Seq(S) /\ ElementsOf(FlattenSeq(s), s)
    BY <2>1, FlattenElements
  <2> HIDE DEF x
  <2>4. x \in Seq(S) /\ ElementsOf(x, s)
    BY <2>2, <2>3
  <2> QED BY <2>2, <2>4
<1>7. Len(x) \in Nat /\ DOMAIN x = 1 .. Len(x)
  BY <1>6
<1>8. ASSUME NEW j \in DOMAIN x
      PROVE  x[j].code \in 1 .. 9 /\ x[j].kind = Kind[x[j].code] /\ Field(d, b, x[j].code) = <<x[j].val>>
  <2>1. PICK c \in 1 .. 9 : \E k \in 1 .. Len(s[c]) : x[j] = s[c][k]
    <3>1. j \in 1 .. Len(x)
      BY <1>7
    <3>2. \E c \in 1 .. Len(s) : \E k \in 1 .. Len(s[c]) : x[j] = s[c][k]
      BY <1>6, <3>1 DEF ElementsOf
    <3> QED BY <1>6, <3>2
  <2>2. PICK k \in 1 .. Len(s[c]) : x[j] = s[c][k]
    BY <2>1
  <2>3. Field(d, b, c) # <<>> /\ s[c] = <<Marshalled(d, b, c)>>
    <3>1. s[c] # <<>>
      BY <2>2
    <3> QED BY <1>3, <3>1, Zenon
  <2>4. x[j] = Marshalled(d, b, c)
    BY <2>2, <2>3
  <2>5. x[j].code = c /\ x[j].kind = Kind[c] /\ x[j].val = Field(d, b, c)[1]
    BY <2>4 DEF Marshalled
  <2> QED BY <2>3, <2>5, FieldOption DEF d
<1>9. ASSUME NEW c \in 1 .. 9, Field(d, b, c) # <<>> PROVE \E j \in DOMAIN x : x[j].code = c
  <2>1. s[c] = <<Marshalled(d, b, c)>> /\ 1 \in 1 .. Len(s[c]) /\ s[c][1] = Marshalled(d, b, c)
    <3>1. s[c] = <<Marshalled(d, b, c)>>
      BY <1>3, <1>9, Zenon
    <3> QED BY <3>1
  <2>2. PICK j \in 1 .. Len(x) : x[j] = s[c][1]
    <3>1. c \in 1 .. Len(s)
      BY <1>6
    <3> QED BY <1>6, <2>1, <3>1 DEF ElementsOf
  <2>3. x[j].code = c
    BY <2>1, <2>2 DEF Marshalled
  <2> QED BY <1>7, <2>2, <2>3
<1>10. OnWire(x, d, b)
  <2> HIDE DEF x
  <2> QED BY <1>8, <1>9 DEF OnWire
<1> QED BY <1>2, <1>7, <1>10 DEF h, d

\* The header d with the sender the bus names
Named7(d, who) == [d EXCEPT !.sender = <<who>>]

\* The header e is d, but for the sender.
ButSender(e, d, b, who) ==
  /\ Options(e) /\ Field(e, b, 7) = <<who>>
  /\ \A c \in 1 .. 9 : c # 7 => Field(e, b, c) = Field(d, b, c)

\* Naming the sender changes no other field.
LEMMA SenderOnly ==
  ASSUME NEW d, Options(d), NEW b, NEW who
  PROVE  ButSender(Named7(d, who), d, b, who)
<1> DEFINE e == Named7(d, who)
<1>0. e = [d EXCEPT !.sender = <<who>>]
  BY DEF Named7
<1> HIDE DEF e
<1>1. DOMAIN d = DOMAIN NoFields /\ "sender" \in DOMAIN d
  BY FieldNames DEF Options
<1>2. DOMAIN e = DOMAIN d /\ e["sender"] = <<who>> /\ \A f \in DOMAIN d : f # "sender" => e[f] = d[f]
  BY <1>0, <1>1
<1>3. Options(e)
  BY <1>1, <1>2 DEF Options
<1>4. Field(e, b, 7) = <<who>>
  BY <1>2, CodeIs DEF Field
<1>5. ASSUME NEW c \in 1 .. 9, c # 7 PROVE Field(e, b, c) = Field(d, b, c)
  <2>1. Code[c] \in DOMAIN d /\ Code[c] # "sender"
    BY <1>1, <1>5, CodeIs, CodeOnce, FieldNames
  <2> QED BY <1>2, <2>1 DEF Field
<1> QED BY <1>3, <1>4, <1>5 DEF ButSender, e

\* The bus leaves every field but the sender as it was.
LEMMA StampIs ==
  ASSUME NEW x, Len(x) \in Nat, DOMAIN x = 1 .. Len(x), NEW d, Options(d), NEW b, OnWire(x, d, b),
         NEW who
  PROVE  LET y == Stamp(x, who) IN
         Len(y) \in Nat /\ DOMAIN y = 1 .. Len(y) /\ OnWire(y, Named7(d, who), b)
<1> DEFINE e == Named7(d, who)
           n == Len(x)
           f == [code |-> 7, kind |-> "s", val |-> who]
           t == [i \in DOMAIN x |-> IF x[i].code = 7 THEN <<>> ELSE <<x[i]>>]
           z == FlattenSeq(t)
           y == Stamp(x, who)
           S == {x[i] : i \in 1 .. n} \cup {f}
<1>1. y = z \o <<f>>
  BY DEF Stamp
<1>2. f \in S /\ f.code = 7 /\ f.kind = "s" /\ f.val = who
  OBVIOUS
<1>3. ASSUME NEW i \in 1 .. n
      PROVE  /\ t[i] \in Seq(S)
             /\ x[i].code = 7 => t[i] = <<>>
             /\ x[i].code # 7 => t[i] = <<x[i]>>
  <2>1. t[i] = IF x[i].code = 7 THEN <<>> ELSE <<x[i]>>
    OBVIOUS
  <2>2. x[i] \in S
    OBVIOUS
  <2> HIDE DEF t, S
  <2> QED BY <2>1, <2>2
<1>4. t \in [1 .. n -> Seq(S)]
  <2>1. \A i \in 1 .. n : t[i] \in Seq(S)
    BY <1>3
  <2>2. t = [i \in 1 .. n |-> t[i]]
    OBVIOUS
  <2> HIDE DEF t, S
  <2> QED BY <2>1, <2>2
<1> HIDE DEF t, S, f, y
<1>5. t \in Seq(Seq(S)) /\ Len(t) = n
  BY <1>4, FunctionSeq
<1>6. z \in Seq(S) /\ ElementsOf(z, t)
  <2>1. CASE n = 0
    <3>1. z = t
      BY <1>5, <2>1, FlattenEmpty
    <3>2. t = <<>>
      BY <1>5, <2>1, EmptySeq
    <3> QED BY <3>1, <3>2 DEF ElementsOf
  <2>2. CASE n # 0
    <3>1. Len(t) \in Nat /\ Len(t) # 0 /\ \A i \in 1 .. Len(t) : t[i] \in Seq(S)
      BY <1>3, <1>5, <2>2
    <3> QED BY <3>1, FlattenElements
  <2> QED BY <2>1, <2>2
<1> HIDE DEF z
<1>7. /\ y \in Seq(S) /\ Len(y) = Len(z) + 1 /\ Len(z) \in Nat /\ y[Len(z) + 1] = f
      /\ \A j \in 1 .. Len(z) : y[j] = z[j]
  BY <1>1, <1>2, <1>6
<1>8. Len(y) \in Nat /\ DOMAIN y = 1 .. Len(y)
  BY <1>7
<1>9. /\ Field(e, b, 7) = <<who>> /\ \A c \in 1 .. 9 : c # 7 => Field(e, b, c) = Field(d, b, c)
  BY SenderOnly DEF ButSender
<1> HIDE DEF e
<1>10. ASSUME NEW j \in DOMAIN y
       PROVE  y[j].code \in 1 .. 9 /\ y[j].kind = Kind[y[j].code] /\ Field(e, b, y[j].code) = <<y[j].val>>
  <2>1. CASE j = Len(z) + 1
    BY <1>2, <1>7, <1>9, <2>1, CodeIs
  <2>2. CASE j # Len(z) + 1
    <3>1. j \in 1 .. Len(z) /\ y[j] = z[j]
      BY <1>7, <1>8, <2>2
    <3>2. PICK i \in 1 .. Len(t) : \E k \in 1 .. Len(t[i]) : z[j] = t[i][k]
      BY <1>6, <3>1 DEF ElementsOf
    <3>3. PICK k \in 1 .. Len(t[i]) : z[j] = t[i][k]
      BY <3>2
    <3>4. i \in 1 .. n /\ t[i] # <<>>
      BY <1>5, <3>3
    <3>5. x[i].code # 7 /\ t[i] = <<x[i]>>
      BY <1>3, <3>4, Zenon
    <3>6. y[j] = x[i]
      BY <3>1, <3>3, <3>5
    <3>7. x[i].code \in 1 .. 9 /\ x[i].kind = Kind[x[i].code] /\ Field(d, b, x[i].code) = <<x[i].val>>
      BY <3>4 DEF OnWire
    <3> QED BY <1>9, <3>5, <3>6, <3>7
  <2> QED BY <2>1, <2>2
<1>11. ASSUME NEW c \in 1 .. 9, Field(e, b, c) # <<>> PROVE \E j \in DOMAIN y : y[j].code = c
  <2>1. CASE c = 7
    BY <1>2, <1>7, <1>8, <2>1
  <2>2. CASE c # 7
    <3>1. Field(d, b, c) # <<>>
      BY <1>9, <1>11, <2>2
    <3>2. PICK i \in 1 .. n : x[i].code = c
      BY <3>1 DEF OnWire
    <3>3. t[i] = <<x[i]>>
      BY <1>3, <2>2, <3>2, Zenon
    <3>4. i \in 1 .. Len(t) /\ 1 \in 1 .. Len(t[i]) /\ t[i][1] = x[i]
      BY <1>5, <3>3
    <3>5. PICK j \in 1 .. Len(z) : z[j] = t[i][1]
      BY <1>6, <3>4 DEF ElementsOf
    <3>6. j \in DOMAIN y /\ y[j] = z[j]
      BY <1>7, <1>8
    <3> QED BY <3>2, <3>4, <3>5, <3>6
  <2> QED BY <2>1, <2>2
<1>12. OnWire(y, e, b)
  BY <1>10, <1>11 DEF OnWire
<1> QED BY <1>8, <1>12 DEF y, e

\* The last field with a code, if there is one
LEMMA LastWithIs ==
  ASSUME NEW x, Len(x) \in Nat, NEW c
  PROVE  /\ LastWith(x, c) = 0 => \A i \in 1 .. Len(x) : x[i].code # c
         /\ LastWith(x, c) # 0 => LastWith(x, c) \in 1 .. Len(x) /\ x[LastWith(x, c)].code = c
<1> DEFINE I == {i \in 1 .. Len(x) : x[i].code = c}
<1>1. LastWith(x, c) = IF I # {} THEN Max(I) ELSE 0
  BY DEF LastWith, SelectLastInSeq
<1>2. CASE I = {}
  BY <1>1, <1>2
<1>3. CASE I # {}
  <2>1. I \subseteq 0 .. Len(x)
    OBVIOUS
  <2>2. Max(I) \in I
    <3> HIDE DEF I
    <3> QED BY <1>3, <2>1, GreatestExists
  <2> QED BY <1>1, <1>3, <2>2
<1> QED BY <1>2, <1>3

\* The field that reading stops at, if there is one
LEMMA StopsAtIs ==
  ASSUME NEW x, Len(x) \in Nat
  PROVE  /\ StopsAt(x) # 0 => /\ StopsAt(x) \in 1 .. Len(x)
                              /\ Unreadable(x[StopsAt(x)]) \/ PastEnd(x[StopsAt(x)].code)
         /\ (\A i \in 1 .. Len(x) : ~Unreadable(x[i]) /\ ~PastEnd(x[i].code)) => StopsAt(x) = 0
<1> DEFINE I == {i \in 1 .. Len(x) : Unreadable(x[i]) \/ PastEnd(x[i].code)}
<1>1. StopsAt(x) = IF I # {} THEN Min(I) ELSE 0
  BY DEF StopsAt, SelectInSeq
<1>2. CASE I = {}
  BY <1>1, <1>2
<1>3. CASE I # {}
  <2>1. I \subseteq Nat
    OBVIOUS
  <2>2. Min(I) \in I
    <3> HIDE DEF I
    <3> QED BY <1>3, <2>1, LeastExists
  <2> QED BY <1>1, <1>3, <2>2
<1> QED BY <1>2, <1>3

\* A header that can be taken apart again: with the fields of d, for body b
Readable(hdr, d, b) ==
  /\ Len(hdr.fields) \in Nat /\ DOMAIN hdr.fields = 1 .. Len(hdr.fields) /\ OnWire(hdr.fields, d, b)
  /\ Options(d) /\ ValidHeader(d) /\ ~hdr.cut /\ hdr.serial # 0
  /\ d.response_serial # <<>> => d.response_serial[1] # 0
  /\ b.buf # <<>> => ToSet(b.sig) \subseteq DOMAIN Types

\* The fields that unmarshal finds are those that are there.
LEMMA ParsedIs ==
  ASSUME NEW hdr, NEW d, NEW b, Readable(hdr, d, b)
  PROVE  /\ DOMAIN Parsed(hdr) = DOMAIN NoFields /\ Parsed(hdr)["serial"] = <<hdr.serial>>
         /\ \A c \in 1 .. 9 : Parsed(hdr)[Code[c]] = Field(d, b, c)
<1> DEFINE x == hdr.fields
           p == Parsed(hdr)
           At(f) == LastWith(x, CHOOSE c \in 1 .. 9 : Code[c] = f)
<1>1. p = [f \in DOMAIN NoFields |->
             IF f = "serial" THEN <<hdr.serial>> ELSE IF At(f) = 0 THEN <<>> ELSE <<x[At(f)].val>>]
  BY DEF Parsed
<1>2. DOMAIN p = DOMAIN NoFields /\ p["serial"] = <<hdr.serial>>
  <2> HIDE DEF p, At
  <2> QED BY <1>1, FieldNames
<1>3. ASSUME NEW c \in 1 .. 9 PROVE p[Code[c]] = Field(d, b, c)
  <2>1. At(Code[c]) = LastWith(x, c)
    BY CodeOf
  <2>2. Code[c] \in DOMAIN NoFields /\ Code[c] # "serial"
    BY FieldNames
  <2> HIDE DEF p, At
  <2>3. p[Code[c]] = IF LastWith(x, c) = 0 THEN <<>> ELSE <<x[LastWith(x, c)].val>>
    BY <1>1, <2>1, <2>2
  <2>4. /\ LastWith(x, c) = 0 => \A i \in 1 .. Len(x) : x[i].code # c
        /\ LastWith(x, c) # 0 => LastWith(x, c) \in 1 .. Len(x) /\ x[LastWith(x, c)].code = c
    BY LastWithIs DEF Readable
  <2>5. CASE LastWith(x, c) = 0
    <3>1. Field(d, b, c) = <<>>
      BY <2>4, <2>5 DEF Readable, OnWire
    <3> QED BY <2>3, <2>5, <3>1
  <2>6. CASE LastWith(x, c) # 0
    <3>1. Field(d, b, c) = <<x[LastWith(x, c)].val>>
      BY <2>4, <2>6 DEF Readable, OnWire
    <3> QED BY <2>3, <2>6, <3>1
  <2> QED BY <2>5, <2>6
<1> QED BY <1>2, <1>3

\* No field of a header that marshal_header wrote stops the reading of them.
LEMMA NoneStops ==
  ASSUME NEW hdr, NEW d, NEW b, Readable(hdr, d, b)
  PROVE  StopsAt(hdr.fields) = 0
<1> DEFINE x == hdr.fields
<1>1. ASSUME NEW i \in 1 .. Len(x) PROVE ~Unreadable(x[i]) /\ ~PastEnd(x[i].code)
  <2> DEFINE c == x[i].code
  <2>1. c \in 1 .. 9 /\ x[i].kind = Kind[c] /\ Field(d, b, c) = <<x[i].val>>
    BY DEF Readable, OnWire
  <2> HIDE DEF x
  <2>2. ~PastEnd(c)
    BY <2>1 DEF PastEnd
  <2>3. ASSUME x[i].kind = "o" PROVE ValidName(x[i].val)
    <3>1. c = 1
      BY <2>1, <2>3, CodeIs, NineCodes
    <3>2. d["object"] = <<x[i].val>>
      BY <2>1, <3>1, CodeIs DEF Field
    <3>3. "object" \in Named
      BY DEF Named
    <3>4. d["object"] # <<>> => ValidName(d["object"][1])
      BY <3>3 DEF Readable, ValidHeader
    <3> QED BY <3>2, <3>4
  <2>4. ASSUME x[i].kind = "g" PROVE ToSet(x[i].val) \subseteq DOMAIN Types
    <3>1. c = 8
      BY <2>1, <2>4, CodeIs, NineCodes
    <3>2. Field(d, b, 8) = IF b.buf # <<>> THEN <<b.sig>> ELSE <<>>
      BY DEF Field
    <3>3. b.buf # <<>> /\ x[i].val = b.sig
      BY <2>1, <3>1, <3>2
    <3> QED BY <3>3 DEF Readable
  <2> QED BY <2>2, <2>3, <2>4 DEF Unreadable
<1> QED BY <1>1, StopsAtIs DEF Readable

\* The header that a receiver makes of d, which comes with body b and a serial
Arrived(d, b, serial) ==
  [d EXCEPT !.serial = <<serial>>, !.signature = Field(d, b, 8), !.num_fds = Field(d, b, 9)]

\* DynamicHeader::unmarshal takes apart what marshal_header put together.
LEMMA UnmarshalIs ==
  ASSUME NEW hdr, NEW d, NEW b, Readable(hdr, d, b)
  PROVE  Unmarshal(hdr) = [res |-> "ok", dyn |-> Arrived(d, b, hdr.serial)]
<1> DEFINE x == hdr.fields
           p == Parsed(hdr)
           e == Arrived(d, b, hdr.serial)
<1>1. /\ DOMAIN p = DOMAIN NoFields /\ p["serial"] = <<hdr.serial>>
      /\ \A c \in 1 .. 9 : p[Code[c]] = Field(d, b, c)
  BY ParsedIs
<1>2. DOMAIN d = DOMAIN NoFields
  BY DEF Readable, Options
<1>3. p = e
  <2>1. e = [d EXCEPT !.serial = <<hdr.serial>>, !.signature = Field(d, b, 8), !.num_fds = Field(d, b, 9)]
    BY DEF Arrived
  <2>2. p = [f \in DOMAIN NoFields |-> p[f]]
    BY <1>1 DEF Parsed
  <2> HIDE DEF p, e
  <2>3. /\ DOMAIN e = DOMAIN NoFields /\ e["serial"] = <<hdr.serial>>
        /\ e["signature"] = Field(d, b, 8) /\ e["num_fds"] = Field(d, b, 9)
        /\ \A f \in DOMAIN NoFields \ {"serial", "signature", "num_fds"} : e[f] = d[f]
    BY <1>2, <2>1, FieldNames
  <2>4. ASSUME NEW f \in DOMAIN NoFields PROVE p[f] = e[f]
    <3>1. CASE f = "serial"
      BY <1>1, <2>3, <3>1
    <3>2. CASE f # "serial"
      <4>1. PICK c \in 1 .. 9 : f = Code[c]
        BY <3>2, FieldNames
      <4>2. CASE c = 8
        BY <1>1, <2>3, <4>1, <4>2, CodeIs
      <4>3. CASE c = 9
        BY <1>1, <2>3, <4>1, <4>3, CodeIs
      <4>4. CASE c # 8 /\ c # 9
        <5>1. f # "signature" /\ f # "num_fds"
          BY <4>1, <4>4, CodeIs, CodeOnce
        <5>2. Field(d, b, c) = d[f]
          BY <4>1, <4>4 DEF Field
        <5> QED BY <1>1, <2>3, <3>2, <4>1, <5>1, <5>2
      <4> QED BY <4>2, <4>3, <4>4
    <3> QED BY <3>1, <3>2
  <2>5. e = [f \in DOMAIN NoFields |-> e[f]]
    BY <1>2, <2>1
  <2> QED BY <2>2, <2>4, <2>5
<1>4. Accepted(p)
  <2>1. ASSUME NEW f \in Named PROVE p[f] = d[f]
    <3>1. \/ f = Code[1] \/ f = Code[2] \/ f = Code[3] \/ f = Code[4] \/ f = Code[6] \/ f = Code[7]
      BY CodeIs DEF Named
    <3>2. \A c \in {1, 2, 3, 4, 6, 7} : p[Code[c]] = d[Code[c]]
      BY <1>1 DEF Field
    <3> HIDE DEF p
    <3> QED BY <3>1, <3>2
  <2>2. ValidHeader(d)
    BY DEF Readable
  <2> HIDE DEF p
  <2> QED BY <2>1, <2>2 DEF Accepted, ValidHeader
<1>5. ASSUME NEW c \in 1 .. 9 PROVE Fits(x, c)
  <2> DEFINE k == LastWith(x, c)
  <2>1. k # 0 => k \in 1 .. Len(x) /\ x[k].code = c
    BY LastWithIs DEF Readable
  <2>2. k # 0 => x[k].kind = Kind[c] /\ Field(d, b, c) = <<x[k].val>>
    BY <2>1 DEF Readable, OnWire
  <2>3. k # 0 /\ c = 5 => d["response_serial"] = <<x[k].val>>
    BY <2>2, CodeIs DEF Field
  <2>4. d["response_serial"] # <<>> => d["response_serial"][1] # 0
    BY DEF Readable
  <2> HIDE DEF x, k
  <2>5. k # 0 /\ c = 5 => x[k].val # 0
    BY <2>3, <2>4, SMTT(40), ZenonT(60)
  <2> QED BY <2>2, <2>5 DEF Fits, k
<1>6. StopsAt(x) = 0 /\ ~hdr.cut /\ hdr.serial # 0
  BY NoneStops DEF Readable
<1> HIDE DEF p, e, x
<1>7. Unmarshal(hdr) = [res |-> "ok", dyn |-> p]
  BY <1>4, <1>5, <1>6 DEF Unmarshal, p, x
<1> QED BY <1>3, <1>7 DEF e

\* What unmarshal makes of a header of any implementation
LEMMA UnmarshalAny ==
  ASSUME NEW hdr, Len(hdr.fields) \in Nat, DOMAIN hdr.fields = 1 .. Len(hdr.fields),
         \A i \in DOMAIN hdr.fields : hdr.fields[i].code \in Nat
  PROVE  /\ Unmarshal(hdr).res = "ok" =>
              /\ Options(Unmarshal(hdr).dyn) /\ ValidHeader(Unmarshal(hdr).dyn)
              /\ Unmarshal(hdr).dyn.serial # <<>> /\ Unmarshal(hdr).dyn.serial[1] # 0
         /\ Unmarshal(hdr).res = "panic" => \E i \in DOMAIN hdr.fields : hdr.fields[i].code > Len(Code)
<1> DEFINE x == hdr.fields
           u == Unmarshal(hdr)
           p == Parsed(hdr)
<1>1. CASE StopsAt(x) # 0
  <2>1. StopsAt(x) \in 1 .. Len(x) /\ (Unreadable(x[StopsAt(x)]) \/ PastEnd(x[StopsAt(x)].code))
    BY <1>1, StopsAtIs
  <2>2. u.res = IF Unreadable(x[StopsAt(x)]) THEN "err" ELSE "panic"
    BY <1>1 DEF Unmarshal, Failed
  <2>3. u.res = "panic" => x[StopsAt(x)].code > Len(Code)
    BY <2>1, <2>2, CodeIs DEF PastEnd
  <2> QED BY <2>1, <2>2, <2>3
<1>2. CASE StopsAt(x) = 0
  <2>1. \/ u = Failed("err")
        \/ u = [res |-> "ok", dyn |-> p] /\ Accepted(p) /\ hdr.serial # 0
    BY <1>2 DEF Unmarshal
  <2>2. CASE u = Failed("err")
    BY <2>2 DEF Failed
  <2>3. CASE u = [res |-> "ok", dyn |-> p] /\ Accepted(p) /\ hdr.serial # 0
    <3>1. Options(p) /\ p["serial"] = <<hdr.serial>>
      <4> DEFINE At(f) == LastWith(x, CHOOSE c \in 1 .. 9 : Code[c] = f)
      <4>1. p = [f \in DOMAIN NoFields |->
                   IF f = "serial" THEN <<hdr.serial>> ELSE IF At(f) = 0 THEN <<>> ELSE <<x[At(f)].val>>]
        BY DEF Parsed
      <4> HIDE DEF p, At
      <4>2. DOMAIN p = DOMAIN NoFields /\ p["serial"] = <<hdr.serial>>
        BY <4>1, FieldNames
      <4>3. ASSUME NEW f \in DOMAIN NoFields, p[f] # <<>> PROVE p[f] = <<p[f][1]>>
        BY <4>1, <4>3
      <4> QED BY <4>2, <4>3 DEF Options
    <3> HIDE DEF p, u
    <3>2. u.res = "ok" /\ u.dyn = p
      BY <2>3
    <3>3. p["serial"] # <<>> /\ p["serial"][1] # 0
      BY <2>3, <3>1
    <3> QED BY <2>3, <3>1, <3>2, <3>3 DEF Accepted, u
  <2> QED BY <2>1, <2>2, <2>3
<1> QED BY <1>1, <1>2

-----------------------------------------------------------------------------
(* A message with the sender arrives                                       *)

HIDE DEF BodyInv

\* The body and the header of a message as they go over the bus
BodyOf(o) == [buf |-> o.buf, sig |-> Sigs(o.pushed), fds |-> o.fds]
StampedHdr(o) == [o.hdr.wire EXCEPT !.fields = Stamp(@, o.hdr.who)]
SentDyn(o) == Named7(o.hdr.dyn, o.hdr.who)
ArrivedDyn(o) == Arrived(SentDyn(o), BodyOf(o), o.hdr.serial)

\* The bus hands over a header that can be taken apart.
LEMMA StampedReadable ==
  ASSUME NEW o, Queued(o)
  PROVE  /\ Readable(StampedHdr(o), SentDyn(o), BodyOf(o))
         /\ StampedHdr(o).typ = o.hdr.typ /\ StampedHdr(o).serial = o.hdr.serial
<1> DEFINE d == o.hdr.dyn
           who == o.hdr.who
           x == o.hdr.wire.fields
           b == BodyOf(o)
           h == StampedHdr(o)
           e == SentDyn(o)
<1>1. /\ Holds(b, o.pushed) /\ Options(d) /\ ValidHeader(d) /\ who \in Conns /\ o.hdr.serial # 0
      /\ d["response_serial"] # <<>> => d["response_serial"][1] # 0
      /\ Len(x) \in Nat /\ DOMAIN x = 1 .. Len(x) /\ OnWire(x, d, b)
  BY DEF Queued, BodyOf
<1>2. o.hdr.wire = [typ |-> o.hdr.typ, serial |-> o.hdr.serial, cut |-> FALSE, fields |-> x]
  BY DEF Queued
<1>3. h.typ = o.hdr.typ /\ h.serial = o.hdr.serial /\ h.cut = FALSE /\ h.fields = Stamp(x, who)
  <2>1. h = [o.hdr.wire EXCEPT !.fields = Stamp(x, who)]
    BY DEF StampedHdr
  <2> HIDE DEF x, h
  <2> QED BY <1>2, <2>1
<1>4. e = Named7(d, who)
  BY DEF SentDyn
<1> HIDE DEF d, who, x, b, h, e
<1>5. Len(h.fields) \in Nat /\ DOMAIN h.fields = 1 .. Len(h.fields) /\ OnWire(h.fields, e, b)
  BY <1>1, <1>3, <1>4, StampIs
<1>6. Options(e)
  BY <1>1, <1>4, SenderOnly DEF ButSender
<1>7. /\ DOMAIN d = DOMAIN NoFields /\ e["sender"] = <<who>>
      /\ \A f \in DOMAIN NoFields : f # "sender" => e[f] = d[f]
  <2>1. DOMAIN d = DOMAIN NoFields
    BY <1>1 DEF Options
  <2> QED BY <1>4, <2>1, FieldNames DEF Named7
<1>8. ValidHeader(e)
  <2>1. ASSUME NEW f \in Named PROVE e[f] # <<>> => ValidName(e[f][1])
    <3>1. CASE f = "sender"
      BY <1>1, <1>7, <3>1, MessageAssumption DEF ValidName
    <3>2. CASE f # "sender"
      <4>1. f \in DOMAIN NoFields
        BY FieldNames DEF Named
      <4>2. e[f] = d[f]
        BY <1>7, <3>2, <4>1
      <4> QED BY <1>1, <4>2 DEF ValidHeader
    <3> QED BY <3>1, <3>2
  <2> QED BY <2>1 DEF ValidHeader
<1>9. e["response_serial"] = d["response_serial"]
  BY <1>7, FieldNames
<1>10. ToSet(b.sig) \subseteq DOMAIN Types
  <2>1. b.sig \in Seq(DOMAIN Types)
    BY <1>1, HoldsRead
  <2> QED BY <2>1 DEF ToSet
<1>11. Readable(h, e, b)
  BY <1>1, <1>3, <1>5, <1>6, <1>8, <1>9, <1>10 DEF Readable
<1> QED BY <1>3, <1>11 DEF h, e, b

\* The message that o is at its receiver
IsArrival(r, o, at, intro) ==
  /\ r.hdr.typ = o.hdr.typ /\ r.dyn = ArrivedDyn(o) /\ r.body = BodyOf(o)
  /\ r.at = at /\ r.sent = <<o>>
  /\ r.res = IF Unwrapped(o.hdr.typ, ArrivedDyn(o), intro) THEN "panic" ELSE "ok"

\* What the receiver makes of a message with the sender
LEMMA ReceiveIs ==
  ASSUME NEW o, Queued(o), NEW at, NEW intro
  PROVE  IsArrival(Receive(StampedHdr(o), o.buf, o.fds, at, <<o>>, intro), o, at, intro)
<1> DEFINE h == StampedHdr(o)
           e == ArrivedDyn(o)
           b == BodyOf(o)
           u == Unmarshal(h)
           c == [buf |-> o.buf, fds |-> o.fds,
                 sig |-> IF u.dyn.signature = <<>> THEN <<>> ELSE u.dyn.signature[1]]
           n == IF u.dyn.num_fds = <<>> THEN 0 ELSE u.dyn.num_fds[1]
           res == IF u.res # "ok" THEN u.res
                  ELSE IF Len(o.fds) # n \/ ~Validate(c)
                  THEN "err"
                  ELSE IF Unwrapped(h.typ, u.dyn, intro) THEN "panic" ELSE "ok"
           r == Receive(h, o.buf, o.fds, at, <<o>>, intro)
<1>1. r = [res |-> res, hdr |-> h, dyn |-> u.dyn, body |-> c, at |-> at, sent |-> <<o>>]
  BY DEF Receive
<1>2. Readable(h, SentDyn(o), b) /\ h.typ = o.hdr.typ /\ h.serial = o.hdr.serial
  BY StampedReadable
<1>3. u = [res |-> "ok", dyn |-> e]
  <2> HIDE DEF h, b
  <2> QED BY <1>2, UnmarshalIs DEF ArrivedDyn, b
<1>4. e.signature = Field(SentDyn(o), b, 8) /\ e.num_fds = Field(SentDyn(o), b, 9)
  <2>1. DOMAIN SentDyn(o) = DOMAIN NoFields
    BY <1>2 DEF Readable, Options
  <2> QED BY <2>1, FieldNames DEF ArrivedDyn, Arrived
<1>5. Holds(b, o.pushed)
  BY DEF Queued, BodyOf
<1>6. /\ Validate(b) /\ b.sig = Sigs(o.pushed) /\ b.fds \in Seq(Nat)
      /\ b.buf = <<>> <=> o.pushed = <<>>
  <2> HIDE DEF b
  <2> QED BY <1>5, HoldsRead
<1>7. b.buf = o.buf /\ b.fds = o.fds /\ b = [buf |-> o.buf, sig |-> Sigs(o.pushed), fds |-> o.fds]
  BY DEF BodyOf
<1>8. Sigs(<<>>) = <<>>
  BY DEF Sigs
<1> HIDE DEF u, e, b
<1>9. c = b /\ n = Len(o.fds)
  <2>1. u.dyn = e
    BY <1>3
  <2>2. e.signature = IF b.buf # <<>> THEN <<b.sig>> ELSE <<>>
    BY <1>4 DEF Field
  <2>3. e.num_fds = IF b.fds # <<>> THEN <<Len(b.fds)>> ELSE <<>>
    BY <1>4 DEF Field
  <2>4. n = Len(o.fds)
    BY <1>7, <2>1, <2>3
  <2>5. (IF u.dyn.signature = <<>> THEN <<>> ELSE u.dyn.signature[1]) = Sigs(o.pushed)
    BY <1>6, <1>7, <1>8, <2>1, <2>2
  <2> QED BY <1>7, <2>4, <2>5
<1> HIDE DEF c, n
<1>10. u.res = "ok" /\ u.dyn = e
  BY <1>3
<1>11. res = IF Unwrapped(o.hdr.typ, e, intro) THEN "panic" ELSE "ok"
  BY <1>2, <1>6, <1>9, <1>10
<1> HIDE DEF res, r, h
<1>12. r.res = res /\ r.hdr = h /\ r.dyn = u.dyn /\ r.body = c /\ r.at = at /\ r.sent = <<o>>
  BY <1>1
<1>13. IsArrival(r, o, at, intro)
  BY <1>2, <1>9, <1>10, <1>11, <1>12 DEF IsArrival, e, b
<1> QED BY <1>13 DEF r, h

\* What ReceivedAsSent says the header of o is at its receiver
AsSent(o) ==
  [o.hdr.dyn EXCEPT
     !.sender = <<o.hdr.who>>, !.serial = <<o.hdr.serial>>,
     !.signature = IF o.pushed = <<>> THEN <<>> ELSE <<Sigs(o.pushed)>>,
     !.num_fds = IF o.fds = <<>> THEN <<>> ELSE <<Len(o.fds)>>]

\* The header of o at its receiver: valid, and all that is answered is named.
LEMMA ArrivedIs ==
  ASSUME NEW o, Queued(o)
  PROVE  /\ ArrivedDyn(o) = AsSent(o) /\ Options(ArrivedDyn(o)) /\ ValidHeader(ArrivedDyn(o))
         /\ ArrivedDyn(o).serial = <<o.hdr.serial>>
         /\ ArrivedDyn(o).response_serial = o.hdr.dyn.response_serial
<1> DEFINE d == o.hdr.dyn
           b == BodyOf(o)
           g == IF o.pushed = <<>> THEN <<>> ELSE <<Sigs(o.pushed)>>
           n == IF o.fds = <<>> THEN <<>> ELSE <<Len(o.fds)>>
           e == ArrivedDyn(o)
           s == SentDyn(o)
<1>1. Options(d) /\ Holds(b, o.pushed) /\ b.buf = o.buf /\ b.fds = o.fds /\ b.sig = Sigs(o.pushed)
  BY DEF Queued, BodyOf
<1>2. b.buf = <<>> <=> o.pushed = <<>>
  BY <1>1, HoldsRead
<1>3. s = [d EXCEPT !.sender = <<o.hdr.who>>]
  BY DEF SentDyn, Named7
<1>4. Field(s, b, 8) = g /\ Field(s, b, 9) = n
  BY <1>1, <1>2 DEF Field
<1>5. e = [s EXCEPT !.serial = <<o.hdr.serial>>, !.signature = g, !.num_fds = n]
  BY <1>4 DEF ArrivedDyn, Arrived
<1>6. AsSent(o) = [d EXCEPT !.sender = <<o.hdr.who>>, !.serial = <<o.hdr.serial>>,
                            !.signature = g, !.num_fds = n]
  BY DEF AsSent
<1>7. DOMAIN d = DOMAIN NoFields
  BY <1>1 DEF Options
<1> HIDE DEF d, b, g, n, e, s
<1>8. e = AsSent(o)
  BY <1>3, <1>5, <1>6, <1>7, FieldNames
<1>9. /\ DOMAIN e = DOMAIN NoFields /\ e["serial"] = <<o.hdr.serial>>
      /\ e["signature"] = g /\ e["num_fds"] = n
      /\ \A f \in DOMAIN NoFields \ {"serial", "signature", "num_fds"} : e[f] = s[f]
  BY <1>3, <1>5, <1>7, FieldNames
<1>10. Readable(StampedHdr(o), s, b)
  BY StampedReadable DEF s, b
<1>11. Options(s) /\ ValidHeader(s)
  BY <1>10 DEF Readable
<1>12. g # <<>> => g = <<g[1]>>
  BY DEF g
<1>13. n # <<>> => n = <<n[1]>>
  BY DEF n
<1>14. Options(e)
  <2>1. ASSUME NEW f \in DOMAIN NoFields, e[f] # <<>> PROVE e[f] = <<e[f][1]>>
    <3>1. CASE f = "serial"
      BY <1>9, <3>1
    <3>2. CASE f = "signature"
      BY <1>9, <1>12, <2>1, <3>2
    <3>3. CASE f = "num_fds"
      BY <1>9, <1>13, <2>1, <3>3
    <3>4. CASE f \notin {"serial", "signature", "num_fds"}
      BY <1>9, <1>11, <2>1, <3>4 DEF Options
    <3> QED BY <3>1, <3>2, <3>3, <3>4
  <2> QED BY <1>9, <2>1 DEF Options
<1>15. ValidHeader(e)
  <2>1. ASSUME NEW f \in Named PROVE e[f] = s[f]
    <3>1. f \in DOMAIN NoFields \ {"serial", "signature", "num_fds"}
      BY FieldNames DEF Named
    <3> QED BY <1>9, <3>1
  <2> QED BY <1>11, <2>1 DEF ValidHeader
<1>16. e["response_serial"] = d["response_serial"]
  <2>1. s["response_serial"] = d["response_serial"]
    BY <1>3, <1>7, FieldNames
  <2> QED BY <1>9, <2>1, FieldNames
<1> QED BY <1>8, <1>9, <1>14, <1>15, <1>16 DEF e, d

\* An answer to a header that is valid is valid itself.
LEMMA ResponseIs ==
  ASSUME NEW d, Options(d), ValidHeader(d)
  PROVE  /\ Options(MakeResponse(d).dyn) /\ ValidHeader(MakeResponse(d).dyn)
         /\ MakeResponse(d).typ = "reply"
         /\ MakeResponse(d).dyn.destination = d.sender /\ MakeResponse(d).dyn.response_serial = d.serial
<1> DEFINE e == MakeResponse(d).dyn
<1>1. e = [NoFields EXCEPT !.destination = d.sender, !.response_serial = d.serial]
  BY DEF MakeResponse
<1>2. MakeResponse(d).typ = "reply"
  BY DEF MakeResponse
<1> HIDE DEF e
<1>3. /\ DOMAIN e = DOMAIN NoFields /\ e["destination"] = d["sender"] /\ e["response_serial"] = d["serial"]
      /\ \A f \in DOMAIN NoFields \ {"destination", "response_serial"} : e[f] = <<>>
  BY <1>1, FieldNames
<1>4. "sender" \in DOMAIN d /\ "serial" \in DOMAIN d
  BY FieldNames DEF Options
<1>5. Options(e)
  <2>1. ASSUME NEW f \in DOMAIN NoFields, e[f] # <<>> PROVE e[f] = <<e[f][1]>>
    <3>1. CASE f = "destination"
      BY <1>3, <1>4, <2>1, <3>1 DEF Options
    <3>2. CASE f = "response_serial"
      BY <1>3, <1>4, <2>1, <3>2 DEF Options
    <3> QED BY <1>3, <2>1, <3>1, <3>2
  <2> QED BY <1>3, <2>1 DEF Options
<1>6. ValidHeader(e)
  <2>1. d["sender"] # <<>> => ValidName(d["sender"][1])
    BY DEF ValidHeader, Named
  <2>2. ASSUME NEW f \in Named, e[f] # <<>> PROVE ValidName(e[f][1])
    <3>1. f \in DOMAIN NoFields /\ f # "response_serial"
      BY FieldNames DEF Named
    <3>2. f = "destination"
      BY <1>3, <2>2, <3>1
    <3> QED BY <1>3, <2>1, <2>2, <3>2
  <2> QED BY <2>2 DEF ValidHeader
<1> QED BY <1>2, <1>3, <1>5, <1>6 DEF e

\* The same for an error, if its name is valid.
LEMMA ErrorResponseIs ==
  ASSUME NEW d, Options(d), ValidHeader(d), NEW name
  PROVE  /\ Options(MakeErrorResponse(d, name).dyn) /\ MakeErrorResponse(d, name).typ = "error"
         /\ MakeErrorResponse(d, name).dyn.error_name = <<name>>
         /\ ValidName(name) => ValidHeader(MakeErrorResponse(d, name).dyn)
         /\ MakeErrorResponse(d, name).dyn.destination = d.sender
         /\ MakeErrorResponse(d, name).dyn.response_serial = d.serial
<1> DEFINE e == MakeErrorResponse(d, name).dyn
<1>1. e = [NoFields EXCEPT !.destination = d.sender, !.error_name = <<name>>, !.response_serial = d.serial]
  BY DEF MakeErrorResponse
<1>2. MakeErrorResponse(d, name).typ = "error"
  BY DEF MakeErrorResponse
<1> HIDE DEF e
<1>3. /\ DOMAIN e = DOMAIN NoFields /\ e["destination"] = d["sender"] /\ e["response_serial"] = d["serial"]
      /\ e["error_name"] = <<name>>
      /\ \A f \in DOMAIN NoFields \ {"destination", "error_name", "response_serial"} : e[f] = <<>>
  BY <1>1, FieldNames
<1>4. "sender" \in DOMAIN d /\ "serial" \in DOMAIN d
  BY FieldNames DEF Options
<1>5. Options(e)
  <2>1. ASSUME NEW f \in DOMAIN NoFields, e[f] # <<>> PROVE e[f] = <<e[f][1]>>
    <3>1. CASE f = "destination"
      BY <1>3, <1>4, <2>1, <3>1 DEF Options
    <3>2. CASE f = "response_serial"
      BY <1>3, <1>4, <2>1, <3>2 DEF Options
    <3>3. CASE f = "error_name"
      BY <1>3, <3>3
    <3> QED BY <1>3, <2>1, <3>1, <3>2, <3>3
  <2> QED BY <1>3, <2>1 DEF Options
<1>6. ASSUME ValidName(name) PROVE ValidHeader(e)
  <2>1. d["sender"] # <<>> => ValidName(d["sender"][1])
    BY DEF ValidHeader, Named
  <2>2. ASSUME NEW f \in Named, e[f] # <<>> PROVE ValidName(e[f][1])
    <3>1. f \in DOMAIN NoFields /\ f # "response_serial"
      BY FieldNames DEF Named
    <3>2. CASE f = "destination"
      BY <1>3, <2>1, <2>2, <3>2
    <3>3. CASE f = "error_name"
      BY <1>3, <1>6, <3>3
    <3> QED BY <1>3, <2>2, <3>1, <3>2, <3>3
  <2> QED BY <2>2 DEF ValidHeader
<1>7. "error_name" \in DOMAIN e
  BY <1>3, FieldNames
<1> QED BY <1>2, <1>3, <1>5, <1>6, <1>7 DEF e

\* A message m that may be queued
Sendable(who, m, serial, answers) ==
  /\ Options(m.dyn) /\ ValidHeader(m.dyn) /\ who \in Conns /\ serial # 0
  /\ m.typ \in {"call", "signal", "reply", "error"}
  /\ m.typ \in {"reply", "error"} => m.dyn.response_serial # <<>>
  /\ m.dyn.response_serial # <<>> => m.dyn.response_serial[1] # 0
  /\ \A call \in answers :
       /\ m.typ \in {"reply", "error"} /\ call.who \in Conns
       /\ m.dyn.destination = <<call.who>> /\ m.dyn.response_serial = <<call.serial>>

\* It is queued in a form that can be taken apart.
LEMMA QueuedNew ==
  ASSUME NEW who, NEW m, NEW serial, NEW answers, Sendable(who, m, serial, answers),
         NEW b, NEW ps, Holds(b, ps), b = [buf |-> b.buf, sig |-> b.sig, fds |-> b.fds], NEW shared
  PROVE  Queued(RawOut(Envelope(who, m, b, serial, answers), b, ps, shared))
<1> DEFINE h == Envelope(who, m, b, serial, answers)
           w == MarshalHeader(m, b, serial)
           o == RawOut(h, b, ps, shared)
<1>1. /\ h.who = who /\ h.typ = m.typ /\ h.dyn = m.dyn /\ h.serial = serial /\ h.answers = answers
      /\ h.wire = w
  BY DEF Envelope
<1>2. /\ o.hdr = h /\ o.buf = b.buf /\ o.fds = b.fds /\ o.pushed = ps
      /\ DOMAIN o = {"hdr", "buf", "fds", "shared", "pushed"}
  <2> HIDE DEF h
  <2> QED BY DEF RawOut
<1>3. /\ w.typ = m.typ /\ w.serial = serial /\ w.cut = FALSE /\ DOMAIN w = {"typ", "serial", "cut", "fields"}
      /\ Len(w.fields) \in Nat /\ DOMAIN w.fields = 1 .. Len(w.fields) /\ OnWire(w.fields, m.dyn, b)
  BY MarshalHeaderIs DEF Sendable
<1>4. w = [typ |-> m.typ, serial |-> serial, cut |-> FALSE, fields |-> w.fields]
  BY DEF MarshalHeader
<1>5. [buf |-> b.buf, sig |-> Sigs(ps), fds |-> b.fds] = b
  <2>1. b.sig = Sigs(ps)
    BY DEF Holds
  <2> QED BY <2>1
<1> HIDE DEF h, w, o
<1>6. Queued(o)
  BY <1>1, <1>2, <1>3, <1>4, <1>5 DEF Queued, Sendable
<1> QED BY <1>6 DEF o, h

-----------------------------------------------------------------------------
(* The steps                                                               *)

\* Once a message is dealt with nothing is asserted of it.
LEMMA NoneReceived ==
  ASSUME AnswerArrives, inbox' = <<>>, refused' \subseteq refused
  PROVE  Answerable' /\ ReceivedAsSent' /\ AnswerArrives'
  BY DEF Answerable, ReceivedAsSent, AnswerArrives, AcceptedCall, Received

\* The error name of an answer is not valid.
Own(m) == m.dyn.error_name # <<>> /\ ~ValidName(m.dyn.error_name[1])

\* What the sender has of a message stays when the body gets a buffer of its own.
LEMMA OutsKept ==
  ASSUME \A o \in outs : Queued(o), NEW buf, outs' = MakeMut(buf) \/ UNCHANGED outs
  PROVE  (\A o \in outs : Queued(o))'
<1>1. CASE UNCHANGED outs
  BY <1>1 DEF Queued
<1>2. CASE outs' = MakeMut(buf)
  <2> SUFFICES ASSUME NEW q \in outs' PROVE Queued(q)
    BY DEF Queued
  <2>1. PICK o \in outs : q = [o EXCEPT !.shared = FALSE]
    BY <1>2 DEF MakeMut
  <2>2. Queued(o)
    OBVIOUS
  <2>3. DOMAIN o = {"hdr", "buf", "fds", "shared", "pushed"}
    BY <2>2 DEF Queued
  <2>4. q.hdr = o.hdr /\ q.buf = o.buf /\ q.fds = o.fds /\ q.pushed = o.pushed /\ DOMAIN q = DOMAIN o
    BY <2>1, <2>3
  <2> QED BY <2>2, <2>4 DEF Queued
<1> QED BY <1>1, <1>2

\* Pushes, reset, reserve and the parser
LEMMA UseBodyInv == ASSUME MessageInv, UseBody PROVE MessageInv'
<1>1. BodyInv'
  BY BodyNextInv DEF MessageInv, UseBody
<1>2. \E buf : outs' = MakeMut(buf) \/ UNCHANGED outs
  BY DEF UseBody, BodyNext, PushParams, PushVariant, PushParamHelper, Reset, Reserve, NewParser,
         DropParser, GetMult
<1>3. (\A o \in outs : Queued(o))'
  BY <1>2, OutsKept DEF MessageInv
<1>4. inbox' = <<>> /\ refused' = refused
  BY DEF UseBody
<1> QED BY <1>1, <1>3, <1>4, NoneReceived DEF MessageInv

\* One more message with the sender
LEMMA OneMore ==
  ASSUME \A o \in outs : Queued(o), NEW q, Queued(q), outs' = outs \cup {q}
  PROVE  (\A o \in outs : Queued(o))'
<1> SUFFICES ASSUME NEW o \in outs' PROVE Queued(o)
  BY DEF Queued
<1> QED OBVIOUS

\* What MessageBuilder builds has an Option in every field and answers nothing.
LEMMA BuiltIs ==
  ASSUME NEW typ, NEW o \in Opt(Objects), NEW i \in Opt(Interfaces), NEW d \in Opt(Destinations)
  PROVE  /\ Options(Built(typ, o, i, d).dyn) /\ Built(typ, o, i, d).dyn.response_serial = <<>>
         /\ Built(typ, o, i, d).typ = typ
<1> DEFINE m == Built(typ, o, i, d)
           Is(x) == x # <<>> => x = <<x[1]>>
<1>1. Is(o) /\ Is(i) /\ Is(d)
  BY DEF Opt
<1>2. /\ m.dyn = [NoFields EXCEPT !.member = <<"m">>, !.object = o, !.interface = i, !.destination = d]
      /\ m.typ = typ
  BY DEF Built
<1> HIDE DEF m
<1>3. /\ DOMAIN m.dyn = DOMAIN NoFields /\ m.dyn["response_serial"] = <<>>
      /\ m.dyn["member"] = <<"m">> /\ m.dyn["object"] = o /\ m.dyn["interface"] = i
      /\ m.dyn["destination"] = d
      /\ \A f \in DOMAIN NoFields \ {"member", "object", "interface", "destination"} : m.dyn[f] = <<>>
  BY <1>2, FieldNames
<1>4. ASSUME NEW f \in DOMAIN NoFields PROVE Is(m.dyn[f])
  <2>1. CASE f \in {"member", "object", "interface", "destination"}
    BY <1>1, <1>3, <2>1
  <2> QED BY <1>3, <2>1
<1>5. Options(m.dyn)
  BY <1>3, <1>4 DEF Options
<1> QED BY <1>2, <1>3, <1>5 DEF m

\* write_next_message
LEMMA SendInv == ASSUME MessageInv, Send PROVE MessageInv'
<1>0. PICK who \in Senders, s \in Serials, typ \in {"call", "signal"},
           obj \in Opt(Objects), i \in Opt(Interfaces), d \in Opt(Destinations) :
        /\ ValidHeader(Built(typ, obj, i, d).dyn)
        /\ BufArc(Envelope(who, Built(typ, obj, i, d), body, s, {}))
  BY DEF Send
<1> DEFINE m == Built(typ, obj, i, d)
<1>1. /\ ValidHeader(m.dyn) /\ BufArc(Envelope(who, m, body, s, {}))
      /\ Options(m.dyn) /\ m.dyn.response_serial = <<>> /\ m.typ \in {"call", "signal"}
  BY <1>0, BuiltIs
<1> HIDE DEF m
<1>2. Sendable(who, m, s, {})
  <2>1. who \in Conns /\ s # 0
    BY MessageAssumption
  <2> QED BY <1>1, <2>1 DEF Sendable
<1>3. Holds(body, pushed) /\ body = [buf |-> body.buf, sig |-> body.sig, fds |-> body.fds]
  BY DEF MessageInv, BodyInv
<1>4. Queued(RawOut(Envelope(who, m, body, s, {}), body, pushed, TRUE))
  BY <1>2, <1>3, QueuedNew
<1>5. outs' = outs \cup {RawOut(Envelope(who, m, body, s, {}), body, pushed, TRUE)}
  BY <1>1 DEF BufArc, Enqueue
<1>6. (\A o \in outs : Queued(o))'
  BY <1>4, <1>5, OneMore DEF MessageInv
<1>7. BodyInv'
  BY <1>1, BodyAlone DEF MessageInv, BufArc
<1>8. inbox' = <<>> /\ refused' = refused
  BY DEF Send
<1> QED BY <1>6, <1>7, <1>8, NoneReceived DEF MessageInv

\* The bus carries a message to its receiver.
LEMMA TransmitInv == ASSUME MessageInv, NEW o \in outs, Transmit(o) PROVE MessageInv'
<1> DEFINE e == ArrivedDyn(o)
<1>1. PICK at \in Conns, intro \in BOOLEAN :
        /\ o.hdr.dyn.destination # <<>> /\ o.hdr.dyn.destination[1] \in Conns => at = o.hdr.dyn.destination[1]
        /\ inbox' = <<Receive(StampedHdr(o), o.buf, o.fds, at, <<o>>, intro)>>
  BY DEF Transmit, StampedHdr
<1>2. Queued(o)
  BY DEF MessageInv
<1> DEFINE r == Receive(StampedHdr(o), o.buf, o.fds, at, <<o>>, intro)
<1>3. IsArrival(r, o, at, intro)
  BY <1>2, ReceiveIs
<1>4. inbox' # <<>> /\ inbox'[1] = r
  BY <1>1
<1> HIDE DEF r
<1>5. /\ r.hdr.typ = o.hdr.typ /\ r.dyn = e /\ r.body = BodyOf(o) /\ r.at = at /\ r.sent = <<o>>
      /\ r.res = IF Unwrapped(o.hdr.typ, e, intro) THEN "panic" ELSE "ok"
  BY <1>3 DEF IsArrival
<1>6. /\ e = AsSent(o) /\ Options(e) /\ ValidHeader(e) /\ e.serial = <<o.hdr.serial>>
      /\ e.response_serial = o.hdr.dyn.response_serial
  BY <1>2, ArrivedIs
<1> HIDE DEF e
<1>7. /\ o.hdr.who \in Conns /\ o.hdr.serial # 0 /\ o.hdr.typ \in {"call", "signal", "reply", "error"}
      /\ o.hdr.typ \in {"reply", "error"} => o.hdr.dyn.response_serial # <<>>
      /\ \A call \in o.hdr.answers :
           /\ o.hdr.typ \in {"reply", "error"} /\ call.who \in Conns
           /\ o.hdr.dyn.destination = <<call.who>> /\ o.hdr.dyn.response_serial = <<call.serial>>
  BY <1>2 DEF Queued
<1>8. BodyInv' /\ (\A q \in outs : Queued(q))'
  <2>1. outs' = outs \ {o} /\ UNCHANGED <<body, pushed, reused, parser, got>>
    BY DEF Transmit, Written
  <2>2. (\A q \in outs : Queued(q))'
    BY <2>1 DEF MessageInv, Queued
  <2> QED BY <2>1, <2>2, BodyAlone DEF MessageInv
<1>9. Answerable'
  BY <1>4, <1>5, <1>6, <1>7 DEF Answerable, AcceptedCall, Received
<1>10. ReceivedAsSent'
  <2>1. Validate(r.body) /\ ReadBack(r.body) = Values(o.pushed)
    <3>1. Holds(BodyOf(o), o.pushed)
      BY <1>2 DEF Queued, BodyOf
    <3> QED BY <1>5, <3>1, HoldsRead
  <2>2. r.res = "ok" \/ (r.hdr.typ = "call" /\ <<>> \in {r.dyn.object, r.dyn.interface})
    BY <1>5, <1>6, <1>7 DEF Unwrapped
  <2>3. r.sent[1] = o
    BY <1>5
  <2> QED BY <1>4, <1>5, <1>6, <2>1, <2>2, <2>3 DEF ReceivedAsSent, Received, AsSent
<1>11. AnswerArrives'
  <2>1. (\A m \in refused : Own(m))'
    BY DEF MessageInv, AnswerArrives, Own, Transmit
  <2>2. ASSUME NEW call \in o.hdr.answers
        PROVE  r.at = call.who /\ r.res = "ok" /\ r.dyn.response_serial = <<call.serial>>
    <3>1. at = call.who
      BY <1>1, <1>7
    <3>2. ~Unwrapped(o.hdr.typ, e, intro)
      BY <1>6, <1>7 DEF Unwrapped
    <3> QED BY <1>5, <1>6, <1>7, <3>1, <3>2
  <2>3. r.sent[1] = o
    BY <1>5
  <2> QED BY <1>4, <2>1, <2>2, <2>3 DEF AnswerArrives, Own, Received
<1> QED BY <1>8, <1>9, <1>10, <1>11 DEF MessageInv

\* The code of a field is a byte.
LEMMA ForeignCode == \A k \in DOMAIN ForeignFields : ForeignFields[k].code \in Nat
<1>1. \A k \in DOMAIN ForeignFields : ForeignFields[k].code \in 0 .. 255
  BY MessageAssumption
<1> QED BY <1>1

\* A message of another implementation
LEMMA ForeignInv == ASSUME MessageInv, Foreign PROVE MessageInv'
<1>1. PICK typ \in {"call", "reply", "error", "signal"}, serial \in {0} \cup Serials,
           cut \in BOOLEAN, intro \in BOOLEAN, at \in Conns,
           is \in BoundedSeq(DOMAIN ForeignFields, 2) :
        inbox' = <<Receive([typ |-> typ, serial |-> serial, cut |-> cut,
                            fields |-> [i \in DOMAIN is |-> ForeignFields[is[i]]]],
                           <<>>, <<>>, at, <<>>, intro)>>
  BY DEF Foreign
<1> DEFINE x == [i \in DOMAIN is |-> ForeignFields[is[i]]]
           h == [typ |-> typ, serial |-> serial, cut |-> cut, fields |-> x]
           r == Receive(h, <<>>, <<>>, at, <<>>, intro)
           u == Unmarshal(h)
<1>2. inbox' # <<>> /\ inbox'[1] = r
  BY <1>1
<1>3. Len(x) \in Nat /\ DOMAIN x = 1 .. Len(x) /\ \A i \in DOMAIN x : x[i].code \in Nat
  <2>1. is \in Seq(DOMAIN ForeignFields)
    BY BoundedIsSeq
  <2>2. Len(is) \in Nat /\ DOMAIN is = 1 .. Len(is) /\ \A i \in 1 .. Len(is) : is[i] \in DOMAIN ForeignFields
    BY <2>1
  <2>3. x = [i \in 1 .. Len(is) |-> ForeignFields[is[i]]]
    BY <2>2
  <2>4. ASSUME NEW i \in 1 .. Len(is) PROVE x[i] = ForeignFields[is[i]] /\ x[i].code \in Nat
    <3>1. x[i] = ForeignFields[is[i]]
      BY <2>3
    <3>2. ForeignFields[is[i]].code \in Nat
      BY <2>2, ForeignCode
    <3> HIDE DEF x
    <3> QED BY <3>1, <3>2, Zenon
  <2> DEFINE S == {x[i] : i \in 1 .. Len(is)}
  <2>5. x \in [1 .. Len(is) -> S]
    BY <2>3
  <2> HIDE DEF x, S
  <2>6. Len(x) = Len(is) /\ DOMAIN x = 1 .. Len(is)
    BY <2>2, <2>5, FunctionSeq
  <2> QED BY <2>2, <2>4, <2>6
<1>4. h.typ = typ /\ h.serial = serial /\ h.fields = x
  <2> HIDE DEF x
  <2> QED OBVIOUS
<1> HIDE DEF x, h
<1>5. u.res = "ok" => /\ Options(u.dyn) /\ ValidHeader(u.dyn)
                      /\ u.dyn.serial # <<>> /\ u.dyn.serial[1] # 0
  <2>1. /\ Len(h.fields) \in Nat /\ DOMAIN h.fields = 1 .. Len(h.fields)
        /\ \A i \in DOMAIN h.fields : h.fields[i].code \in Nat
    BY <1>3, <1>4
  <2> QED BY <2>1, UnmarshalAny
<1>6. /\ r.hdr = h /\ r.dyn = u.dyn /\ r.at = at /\ r.sent = <<>>
      /\ r.res = "ok" => u.res = "ok"
  <2> HIDE DEF u
  <2> QED BY <1>4 DEF Receive, u
<1> HIDE DEF r, u
<1>7. BodyInv' /\ (\A o \in outs : Queued(o))'
  <2>1. UNCHANGED <<body, pushed, reused, outs, parser, got>>
    BY DEF Foreign, bodyVars
  <2>2. (\A o \in outs : Queued(o))'
    BY <2>1 DEF MessageInv, Queued
  <2> QED BY <2>1, <2>2, BodyAlone DEF MessageInv
<1>8. Answerable' /\ ReceivedAsSent'
  <2>1. ~Received'
    BY <1>2, <1>6 DEF Received
  <2>2. AcceptedCall' => u.res = "ok"
    BY <1>2, <1>6 DEF AcceptedCall
  <2>4. Answerable'
    BY <1>2, <1>5, <1>6, <2>1, <2>2 DEF Answerable
  <2> QED BY <2>1, <2>4 DEF ReceivedAsSent
<1>9. AnswerArrives'
  BY <1>2, <1>6 DEF MessageInv, AnswerArrives, Received, Foreign
<1> QED BY <1>7, <1>8, <1>9 DEF MessageInv

\* What was pushed on the body of an answer
Answer(c) == IF c = Empty THEN <<>> ELSE <<[sig |-> Text.typ, typ |-> Text.typ, val |-> Text.val]>>

\* make_response's body is empty, make_error_response's may have a text.
LEMMA AnswerHolds ==
  ASSUME NEW c \in {Empty, WithText}
  PROVE  Holds(c, Answer(c)) /\ c = [buf |-> c.buf, sig |-> c.sig, fds |-> c.fds]
<1> DEFINE a == [buf |-> <<>>, sig |-> <<>>, fds |-> <<>>, ok |-> TRUE]
           p == PushParamCore(a, Text)
<1>1. <<>> \in Seq(Byte) /\ <<>> \in Seq(DOMAIN Types) /\ <<>> \in Seq(Nat)
  OBVIOUS
<1>2. CASE c = Empty
  <2>1. c.buf = <<>> /\ c.sig = <<>> /\ c.fds = <<>> /\ c = [buf |-> c.buf, sig |-> c.sig, fds |-> c.fds]
    BY <1>2 DEF Empty
  <2>2. Holds(c, <<>>)
    BY <1>1, <2>1, HoldsEmpty
  <2> QED BY <1>2, <2>1, <2>2 DEF Answer
<1>3. CASE c # Empty
  <2>1. c = [buf |-> p.buf, sig |-> p.sig, fds |-> p.fds]
    BY <1>3 DEF WithText
  <2>2. a \in Context /\ a.ok /\ a.buf = <<>> /\ a.sig = <<>> /\ a.fds = <<>>
    BY <1>1 DEF Context
  <2>3. Holds(a, <<>>)
    BY <1>1, <2>2, HoldsEmpty
  <2>4. Text \in Params /\ Text.fault # "marshal"
    BY MessageAssumption
  <2> HIDE DEF a, p
  <2>5. Holds(p, Append(<<>>, ParamPushed(Text)))
    BY <2>2, <2>3, <2>4, PushParamIs DEF p
  <2>6. Append(<<>>, ParamPushed(Text)) = <<ParamPushed(Text)>>
    OBVIOUS
  <2>7. Answer(c) = <<ParamPushed(Text)>>
    BY <1>3 DEF Answer, ParamPushed
  <2>8. c.buf = p.buf /\ c.sig = p.sig /\ c.fds = p.fds /\ c = [buf |-> c.buf, sig |-> c.sig, fds |-> c.fds]
    BY <2>1
  <2>9. Holds(c, <<ParamPushed(Text)>>)
    BY <2>5, <2>6, <2>8, HoldsSame
  <2> QED BY <2>7, <2>8, <2>9
<1> QED BY <1>2, <1>3

\* An answer to the call received last
AnswersIt(m) ==
  /\ Options(m.dyn) /\ m.typ \in {"reply", "error"}
  /\ m.dyn.destination = inbox[1].dyn.sender /\ m.dyn.response_serial = inbox[1].dyn.serial

\* An answer that is not valid is not sent, and has itself to blame.
LEMMA RefuseInv ==
  ASSUME MessageInv, NEW m, NEW c, Respond(m, c), ~ValidHeader(m.dyn), Own(m)
  PROVE  MessageInv'
<1>1. /\ refused' = refused \cup {m}
      /\ UNCHANGED <<body, pushed, reused, outs, parser, got, inbox>>
  BY DEF Respond
<1>2. BodyInv' /\ (\A o \in outs : Queued(o))'
  BY <1>1, BodyAlone DEF MessageInv, Queued
<1>3. (\A x \in refused : Own(x))'
  BY <1>1 DEF MessageInv, AnswerArrives, Own
<1>4. Answerable' /\ AnswerArrives'
  BY <1>1, <1>3 DEF MessageInv, Answerable, AnswerArrives, Own, AcceptedCall, Received
<1>5. ReceivedAsSent'
  BY <1>1 DEF MessageInv, ReceivedAsSent, Received
<1> QED BY <1>2, <1>4, <1>5 DEF MessageInv

\* An answer is queued in a form that can be taken apart.
LEMMA RespondInv ==
  ASSUME MessageInv, NEW m, NEW c \in {Empty, WithText}, Respond(m, c), AnswersIt(m),
         ValidHeader(m.dyn)
  PROVE  MessageInv'
<1> DEFINE d == inbox[1].dyn
           who == inbox[1].at
           A == {[who |-> o.hdr.who, serial |-> o.hdr.serial] : o \in ToSet(inbox[1].sent)}
<1>1. PICK s \in Serials : Enqueue(RawOut(Envelope(who, m, c, s, A), c, Answer(c), FALSE))
  BY DEF Respond, Answer
<1>2. /\ AcceptedCall /\ ValidHeader(m.dyn) /\ inbox' = <<>> /\ refused' = {}
      /\ UNCHANGED <<body, pushed, reused, parser, got>>
  BY DEF Respond
<1>3. /\ Options(d) /\ ValidHeader(d) /\ who \in Conns /\ d["serial"] # <<>> /\ d["serial"][1] # 0
      /\ Received => inbox[1].sent = <<inbox[1].sent[1]>> /\ inbox[1].sent[1].hdr.who \in Conns
  BY <1>2 DEF MessageInv, Answerable
<1>4. ASSUME NEW call \in A
      PROVE  call.who \in Conns /\ d["sender"] = <<call.who>> /\ d["serial"] = <<call.serial>>
  <2>1. PICK o \in ToSet(inbox[1].sent) : call = [who |-> o.hdr.who, serial |-> o.hdr.serial]
    OBVIOUS
  <2>2. PICK i \in DOMAIN inbox[1].sent : o = inbox[1].sent[i]
    BY <2>1 DEF ToSet
  <2>3. Received
    BY <1>2, <2>2 DEF Received, AcceptedCall
  <2>4. o = inbox[1].sent[1] /\ o.hdr.who \in Conns
    BY <1>3, <2>2, <2>3
  <2>5. d = AsSent(o)
    BY <2>3, <2>4 DEF MessageInv, ReceivedAsSent, AsSent
  <2>6. "sender" \in DOMAIN d /\ "serial" \in DOMAIN d
    BY <1>3, FieldNames DEF Options
  <2> HIDE DEF d, A
  <2>7. d["sender"] = <<o.hdr.who>> /\ d["serial"] = <<o.hdr.serial>>
    BY <2>5, <2>6 DEF AsSent
  <2>8. call.who = o.hdr.who /\ call.serial = o.hdr.serial
    BY <2>1
  <2> QED BY <2>4, <2>7, <2>8
<1>5. s # 0
  BY MessageAssumption
<1>6. /\ Options(m.dyn) /\ m.typ \in {"reply", "error"}
      /\ m.dyn.destination = d["sender"] /\ m.dyn.response_serial = d["serial"]
  BY DEF AnswersIt
<1> HIDE DEF d, who, A
<1>7. Sendable(who, m, s, A)
  BY <1>2, <1>3, <1>4, <1>5, <1>6 DEF Sendable
<1>8. Holds(c, Answer(c)) /\ c = [buf |-> c.buf, sig |-> c.sig, fds |-> c.fds]
  BY AnswerHolds
<1>9. Queued(RawOut(Envelope(who, m, c, s, A), c, Answer(c), FALSE))
  BY <1>7, <1>8, QueuedNew
<1>10. outs' = outs \cup {RawOut(Envelope(who, m, c, s, A), c, Answer(c), FALSE)}
  BY <1>1 DEF Enqueue
<1>11. (\A o \in outs : Queued(o))'
  BY <1>9, <1>10, OneMore DEF MessageInv
<1>12. BodyInv'
  BY <1>2, BodyAlone DEF MessageInv
<1> QED BY <1>2, <1>11, <1>12, NoneReceived DEF MessageInv

\* make_response and its answer
LEMMA ReplyInv == ASSUME MessageInv, Reply PROVE MessageInv'
<1> DEFINE m == MakeResponse(inbox[1].dyn)
<1>1. Respond(m, Empty) /\ Empty \in {Empty, WithText}
  BY DEF Reply
<1>2. Options(inbox[1].dyn) /\ ValidHeader(inbox[1].dyn)
  BY <1>1 DEF MessageInv, Answerable, Respond
<1>3. AnswersIt(m) /\ ValidHeader(m.dyn)
  BY <1>2, ResponseIs DEF AnswersIt
<1> HIDE DEF m
<1> QED BY <1>1, <1>3, RespondInv

\* make_error_response and its answer
LEMMA ReplyErrorInv == ASSUME MessageInv, ReplyError PROVE MessageInv'
<1>1. PICK name \in ErrorNames, c \in {Empty, WithText} :
        Respond(MakeErrorResponse(inbox[1].dyn, name), c)
  BY DEF ReplyError
<1> DEFINE m == MakeErrorResponse(inbox[1].dyn, name)
<1>2. Options(inbox[1].dyn) /\ ValidHeader(inbox[1].dyn)
  BY <1>1 DEF MessageInv, Answerable, Respond
<1>3. AnswersIt(m) /\ m.dyn.error_name = <<name>> /\ (ValidName(name) => ValidHeader(m.dyn))
  BY <1>2, ErrorResponseIs DEF AnswersIt
<1>4. Respond(m, c)
  BY <1>1
<1> HIDE DEF m
<1>5. CASE ValidHeader(m.dyn)
  BY <1>3, <1>4, <1>5, RespondInv
<1>6. CASE ~ValidHeader(m.dyn)
  <2>1. Own(m)
    BY <1>3, <1>6 DEF Own
  <2> QED BY <1>4, <1>6, <2>1, RefuseInv
<1> QED BY <1>5, <1>6

\* The receiver drops the message.
LEMMA DropReceivedInv == ASSUME MessageInv, DropReceived PROVE MessageInv'
<1>1. inbox' = <<>> /\ refused' = {} /\ UNCHANGED <<body, pushed, reused, outs, parser, got>>
  BY DEF DropReceived, bodyVars
<1>2. (\A o \in outs : Queued(o))'
  BY <1>1 DEF MessageInv, Queued
<1> QED BY <1>1, <1>2, NoneReceived, BodyAlone DEF MessageInv

\* MessageInv holds at first.
LEMMA MessageInit == Init => MessageInv
<1> SUFFICES ASSUME Init PROVE MessageInv
  OBVIOUS
<1>1. inbox = <<>> /\ refused = {} /\ outs = {} /\ BodyInv
  BY BodyInitInv DEF Init, BodyInit
<1> QED BY <1>1 DEF MessageInv, Answerable, ReceivedAsSent, AnswerArrives, AcceptedCall, Received

\* Every step keeps MessageInv.
LEMMA MessageNext == MessageInv /\ [Next]_vars => MessageInv'
<1> SUFFICES ASSUME MessageInv, [Next]_vars PROVE MessageInv'
  OBVIOUS
<1>1. CASE UseBody
  BY <1>1, UseBodyInv
<1>2. CASE Send
  BY <1>2, SendInv
<1>3. ASSUME NEW o \in outs, Transmit(o) PROVE MessageInv'
  BY <1>3, TransmitInv
<1>4. CASE Foreign
  BY <1>4, ForeignInv
<1>5. CASE Reply
  BY <1>5, ReplyInv
<1>6. CASE ReplyError
  BY <1>6, ReplyErrorInv
<1>7. CASE DropReceived
  BY <1>7, DropReceivedInv
<1>8. CASE UNCHANGED vars
  <2>1. UNCHANGED <<body, pushed, reused, outs, parser, got, inbox, refused>>
    BY <1>8 DEF vars, bodyVars
  <2>2. BodyInv'
    BY <2>1, BodyAlone DEF MessageInv
  <2>3. (\A o \in outs : Queued(o))'
    BY <2>1 DEF MessageInv, Queued
  <2>4. Answerable' /\ AnswerArrives'
    BY <2>1 DEF MessageInv, Answerable, AnswerArrives, AcceptedCall, Received
  <2>5. ReceivedAsSent'
    BY <2>1 DEF MessageInv, ReceivedAsSent, Received
  <2> QED BY <2>2, <2>3, <2>4, <2>5 DEF MessageInv
<1> QED BY <1>1, <1>2, <1>3, <1>4, <1>5, <1>6, <1>7, <1>8 DEF Next

\* MessageInv always holds.
LEMMA AlwaysMessageInv == Spec => []MessageInv
  BY MessageInit, MessageNext, PTL DEF Spec

-----------------------------------------------------------------------------
(* What always holds, for all parameters, types, names and bounds          *)

\* The body holds what the successful pushes gave it, validates and reads back,
\* whichever parameter of a push failed (push_param_helper, reset).
THEOREM AlwaysHoldsWhatWasPushed == Spec => []HoldsWhatWasPushed
<1>1. MessageInv => HoldsWhatWasPushed
  BY BodyInvHolds DEF MessageInv
<1> QED BY <1>1, AlwaysMessageInv, PTL

\* A parser stands behind the values it returned, after any mix of gets that
\* failed half-way (get_mult_helper).
THEOREM AlwaysParserInStep == Spec => []ParserInStep
<1>1. MessageInv => ParserInStep
  BY BodyInvHolds DEF MessageInv
<1> QED BY <1>1, AlwaysMessageInv, PTL

\* What marshal_header put on the wire is what the other end's unmarshal makes
\* of it, header and body, whatever became of the body meanwhile.
THEOREM AlwaysReceivedAsSent == Spec => []ReceivedAsSent
<1>1. MessageInv => ReceivedAsSent
  BY DEF MessageInv
<1> QED BY <1>1, AlwaysMessageInv, PTL

\* Nothing of a call that is accepted can keep its answer from being sent, and
\* an answer that is sent arrives at the connection that called, with the
\* serial it waits for.
THEOREM AlwaysAnswerArrives == Spec => []AnswerArrives
<1>1. MessageInv => AnswerArrives
  BY DEF MessageInv
<1> QED BY <1>1, AlwaysMessageInv, PTL
=============================================================================
