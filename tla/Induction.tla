----------------------------- MODULE Induction -----------------------------
(***************************************************************************)
(* Induction over the naturals for sets: the library's induction theorems  *)
(* take an operator, these take a set, which a DEFINE can name.  The proofs*)
(* about the recursive functions of the models rest on them (insert_inner  *)
(* and send_inner of src/src/routing.rs walk from the end of a path up).   *)
(***************************************************************************)
EXTENDS Integers, SequencesExt, SequenceTheorems, WellFoundedInduction, TLAPS

NatLess == {ss \in Nat \X Nat : ss[1] < ss[2]}

\* The order of the naturals, as a relation, is well founded.
LEMMA NatLessWellFounded == IsWellFoundedOn(NatLess, Nat)
  BY NatLessThanWellFounded DEF OpToRel, NatLess

\* A set with 0 and with every successor holds all naturals.
LEMMA NatSetInduction ==
  ASSUME NEW S, 0 \in S, \A n \in Nat : n \in S => n + 1 \in S
  PROVE  Nat \subseteq S
<1>1. SUFFICES ASSUME Nat \ S # {} PROVE FALSE
  OBVIOUS
<1>2. PICK x \in Nat \ S : \A y \in Nat \ S : ~(<<y, x>> \in NatLess)
  <2>1. Nat \ S \subseteq Nat
    OBVIOUS
  <2> QED BY <1>1, <2>1, NatLessWellFounded, WFMin
<1>3. x # 0 /\ x \in Nat
  BY <1>2
<1>4. x - 1 \in Nat /\ x - 1 < x /\ (x - 1) + 1 = x
  BY <1>3
<1>5. <<x - 1, x>> \in NatLess
  BY <1>3, <1>4 DEF NatLess
<1>6. x - 1 \in S
  BY <1>2, <1>4, <1>5
<1> QED BY <1>2, <1>4, <1>6

\* The least element of a set of naturals
LEMMA LeastExists ==
  ASSUME NEW I, I \subseteq Nat, I # {}
  PROVE  Min(I) \in I /\ \A y \in I : Min(I) <= y
<1>1. PICK x \in I : \A y \in I : ~(<<y, x>> \in NatLess)
  BY NatLessWellFounded, WFMin
<1>2. ASSUME NEW y \in I PROVE x <= y
  <2>1. x \in Nat /\ y \in Nat
    OBVIOUS
  <2>2. y < x => <<y, x>> \in NatLess
    BY <2>1 DEF NatLess
  <2> QED BY <1>1, <2>1, <2>2
<1>3. Min(I) = CHOOSE z \in I : \A y \in I : z <= y
  BY DEF Min
<1> QED BY <1>1, <1>2, <1>3

\* Induction from the end of a path to the root: the order in which the
\* recursive calls of insert_inner and send_inner (routing.rs) return.
LEMMA DownInduction ==
  ASSUME NEW n \in Nat, NEW S, n \in S, \A i \in 0 .. n - 1 : i + 1 \in S => i \in S
  PROVE  0 .. n \subseteq S
<1> DEFINE T == {k \in Nat : k <= n => n - k \in S}
<1>1. 0 \in T
  OBVIOUS
<1>2. \A k \in Nat : k \in T => k + 1 \in T
  <2>1. SUFFICES ASSUME NEW k \in Nat, k \in T, k + 1 <= n PROVE n - (k + 1) \in S
    OBVIOUS
  <2>2. n - k \in S /\ n - (k + 1) \in 0 .. n - 1 /\ (n - (k + 1)) + 1 = n - k
    BY <2>1
  <2> QED BY <2>2
<1>3. Nat \subseteq T
  <2> HIDE DEF T
  <2> QED BY <1>1, <1>2, NatSetInduction
<1>4. ASSUME NEW i \in 0 .. n PROVE i \in S
  <2>1. n - i \in Nat /\ n - i <= n /\ n - (n - i) = i
    OBVIOUS
  <2> QED BY <2>1, <1>3
<1> QED BY <1>4

\* Induction up to the length of a sequence.
LEMMA UpInduction ==
  ASSUME NEW n \in Nat, NEW S, 1 \in S, \A i \in 1 .. n - 1 : i \in S => i + 1 \in S
  PROVE  1 .. n \subseteq S
<1> DEFINE T == {k \in Nat : k + 1 <= n => k + 1 \in S}
<1>1. 0 \in T
  OBVIOUS
<1>2. \A k \in Nat : k \in T => k + 1 \in T
  <2>1. SUFFICES ASSUME NEW k \in Nat, k \in T, (k + 1) + 1 <= n PROVE (k + 1) + 1 \in S
    OBVIOUS
  <2>2. k + 1 \in S /\ k + 1 \in 1 .. n - 1
    BY <2>1
  <2> QED BY <2>2
<1>3. Nat \subseteq T
  <2> HIDE DEF T
  <2> QED BY <1>1, <1>2, NatSetInduction
<1>4. ASSUME NEW i \in 1 .. n PROVE i \in S
  <2>1. i - 1 \in Nat /\ (i - 1) + 1 = i
    OBVIOUS
  <2> QED BY <2>1, <1>3
<1> QED BY <1>4

\* Induction up to the length of a sequence, from nothing on.
LEMMA ZeroInduction ==
  ASSUME NEW n \in Nat, NEW S, 0 \in S, \A i \in 0 .. n - 1 : i \in S => i + 1 \in S
  PROVE  0 .. n \subseteq S
<1> DEFINE T == {k \in Nat : k <= n => k \in S}
<1>1. 0 \in T
  OBVIOUS
<1>2. \A k \in Nat : k \in T => k + 1 \in T
  <2>1. SUFFICES ASSUME NEW k \in Nat, k \in T, k + 1 <= n PROVE k + 1 \in S
    OBVIOUS
  <2>2. k \in S /\ k \in 0 .. n - 1
    BY <2>1
  <2> QED BY <2>2
<1>3. Nat \subseteq T
  <2> HIDE DEF T
  <2> QED BY <1>1, <1>2, NatSetInduction
<1>4. ASSUME NEW i \in 0 .. n PROVE i \in S
  BY <1>3
<1> QED BY <1>4

\* The body of FlattenSeq, f standing for the recursive call.
FlattenAt(f, s, i) == IF i = 1 THEN s[i] ELSE f[i - 1] \o s[i]

\* FlattenSeq appends one sequence after the other: the recursive definition
\* has a solution, whose last value is the result.
LEMMA FlattenRec ==
  ASSUME NEW s, Len(s) \in Nat, Len(s) # 0
  PROVE  \E f : /\ f[1] = s[1] /\ \A i \in 2 .. Len(s) : f[i] = f[i - 1] \o s[i]
                /\ FlattenSeq(s) = f[Len(s)]
<1> DEFINE n == Len(s)
<1> DEFINE S == {k \in 1 .. n : \E g : g = [i \in 1 .. k |-> FlattenAt(g, s, i)]}
<1>1. 1 \in S
  <2> DEFINE g == [i \in 1 .. 1 |-> s[i]]
  <2>1. \A i \in 1 .. 1 : g[i] = FlattenAt(g, s, i)
    BY DEF FlattenAt
  <2>2. g = [i \in 1 .. 1 |-> FlattenAt(g, s, i)]
    BY <2>1
  <2> HIDE DEF g
  <2> QED BY <2>2
<1>2. \A k \in 1 .. n - 1 : k \in S => k + 1 \in S
  <2>1. SUFFICES ASSUME NEW k \in 1 .. n - 1, k \in S PROVE k + 1 \in S
    OBVIOUS
  <2>2. PICK g : g = [i \in 1 .. k |-> FlattenAt(g, s, i)]
    BY <2>1
  <2> DEFINE h == [i \in 1 .. k + 1 |-> IF i = k + 1 THEN g[k] \o s[k + 1] ELSE g[i]]
  <2>3. ASSUME NEW i \in 1 .. k + 1 PROVE h[i] = FlattenAt(h, s, i)
    <3>1. CASE i = k + 1
      <4>1. h[k] = g[k] /\ i # 1 /\ i - 1 = k
        BY <3>1
      <4> QED BY <3>1, <4>1 DEF FlattenAt
    <3>2. CASE i # k + 1
      <4>1. i \in 1 .. k /\ h[i] = g[i] /\ (i # 1 => h[i - 1] = g[i - 1])
        BY <3>2
      <4>2. g[i] = FlattenAt(g, s, i)
        BY <2>2, <4>1
      <4> QED BY <4>1, <4>2 DEF FlattenAt
    <3> QED BY <3>1, <3>2
  <2>4. h = [i \in 1 .. k + 1 |-> FlattenAt(h, s, i)]
    BY <2>3
  <2> HIDE DEF h
  <2> QED BY <2>1, <2>4
<1>3. n \in S
  <2>1. n \in 1 .. n /\ n \in Nat
    OBVIOUS
  <2> HIDE DEF S, n
  <2> QED BY <1>1, <1>2, <2>1, UpInduction
<1> DEFINE f == CHOOSE g : g = [i \in 1 .. n |-> FlattenAt(g, s, i)]
<1>4. f = [i \in 1 .. n |-> FlattenAt(f, s, i)]
  <2>1. PICK g : g = [i \in 1 .. n |-> FlattenAt(g, s, i)]
    BY <1>3
  <2> QED BY <2>1
<1>5. FlattenSeq(s) = f[n]
  BY DEF FlattenSeq, FlattenAt
<1> HIDE DEF f
<1>6. \A i \in 1 .. n : f[i] = FlattenAt(f, s, i)
  BY <1>4
<1>7. f[1] = s[1]
  <2>1. f[1] = FlattenAt(f, s, 1)
    BY <1>6
  <2> QED BY <2>1 DEF FlattenAt
<1>8. ASSUME NEW i \in 2 .. n PROVE f[i] = f[i - 1] \o s[i]
  <2>1. f[i] = FlattenAt(f, s, i) /\ i # 1
    BY <1>6
  <2> QED BY <2>1 DEF FlattenAt
<1> QED BY <1>5, <1>7, <1>8

\* A sequence of sequences is flattened into one.
LEMMA FlattenType ==
  ASSUME NEW S, NEW s, Len(s) \in Nat, Len(s) # 0, \A i \in 1 .. Len(s) : s[i] \in Seq(S)
  PROVE  FlattenSeq(s) \in Seq(S)
<1> DEFINE n == Len(s)
<1>1. PICK f : f[1] = s[1] /\ (\A i \in 2 .. n : f[i] = f[i - 1] \o s[i]) /\ FlattenSeq(s) = f[n]
  BY FlattenRec
<1> DEFINE T == {k \in 1 .. n : f[k] \in Seq(S)}
<1>2. 1 \in T
  BY <1>1
<1>3. \A k \in 1 .. n - 1 : k \in T => k + 1 \in T
  <2>1. SUFFICES ASSUME NEW k \in 1 .. n - 1, k \in T PROVE k + 1 \in T
    OBVIOUS
  <2>2. k + 1 \in 1 .. n /\ k + 1 \in 2 .. n /\ (k + 1) - 1 = k
    OBVIOUS
  <2>3. f[k + 1] = f[k] \o s[k + 1] /\ f[k] \in Seq(S) /\ s[k + 1] \in Seq(S)
    BY <1>1, <2>1, <2>2
  <2>4. f[k] \o s[k + 1] \in Seq(S)
    BY <2>3, ConcatProperties
  <2> QED BY <2>2, <2>3, <2>4
<1>4. n \in T
  <2>1. n \in Nat /\ n \in 1 .. n
    OBVIOUS
  <2> HIDE DEF T, n
  <2> QED BY <1>2, <1>3, <2>1, UpInduction
<1> QED BY <1>1, <1>4

\* A function on 1 .. n is a sequence.
LEMMA FunctionSeq ==
  ASSUME NEW S, NEW n \in Nat, NEW f \in [1 .. n -> S]
  PROVE  f \in Seq(S) /\ Len(f) = n
OBVIOUS

\* Taking n elements off the front of a sequence
LEMMA Cut ==
  ASSUME NEW S, NEW s \in Seq(S), NEW n \in 0 .. Len(s)
  PROVE  /\ SubSeq(s, 1, n) \in Seq(S) /\ SubSeq(s, n + 1, Len(s)) \in Seq(S)
         /\ Len(SubSeq(s, 1, n)) = n /\ Len(SubSeq(s, n + 1, Len(s))) = Len(s) - n
         /\ SubSeq(s, 1, n) \o SubSeq(s, n + 1, Len(s)) = s
<1>1. Len(s) \in Nat /\ n \in Int /\ \A i \in 1 .. Len(s) : s[i] \in S
  BY LenProperties, ElementOfSeq
<1>2. \A i \in 1 .. n : s[i] \in S
  BY <1>1
<1>3. \A i \in n + 1 .. Len(s) : s[i] \in S
  BY <1>1
<1>4. SubSeq(s, 1, n) \in Seq(S) /\ Len(SubSeq(s, 1, n)) = n
  BY <1>1, <1>2, SubSeqProperties
<1>5. SubSeq(s, n + 1, Len(s)) \in Seq(S) /\ Len(SubSeq(s, n + 1, Len(s))) = Len(s) - n
  BY <1>1, <1>3, SubSeqProperties
<1>6. SubSeq(s, 1, n) \o SubSeq(s, n + 1, Len(s)) = SubSeq(s, 1, Len(s))
  <2>1. 1 \in 1 .. Len(s) + 1 /\ n \in 1 - 1 .. Len(s) /\ Len(s) \in n .. Len(s)
    BY <1>1
  <2> QED BY <2>1, ConcatAdjacentSubSeq
<1>7. SubSeq(s, 1, Len(s)) = s
  BY SubSeqFull
<1> QED BY <1>4, <1>5, <1>6, <1>7

\* Concatenation, regrouped
LEMMA Regroup ==
  ASSUME NEW S, NEW a \in Seq(S), NEW b \in Seq(S), NEW c \in Seq(S)
  PROVE  /\ (a \o b) \o c = a \o (b \o c) /\ a \o b \in Seq(S) /\ b \o c \in Seq(S)
         /\ a \o (b \o c) \in Seq(S)
BY ConcatAssociative, ConcatProperties

\* Flattening nothing
LEMMA FlattenEmpty ==
  ASSUME NEW s, Len(s) = 0
  PROVE  FlattenSeq(s) = s
BY DEF FlattenSeq

\* Flattening one sequence more appends it.
LEMMA FlattenAppend ==
  ASSUME NEW S, NEW s, NEW t, Len(s) \in Nat, Len(s) = 0 => s = <<>>, Len(t) = Len(s) + 1,
         \A i \in 1 .. Len(s) : t[i] = s[i] /\ s[i] \in Seq(S), t[Len(t)] \in Seq(S)
  PROVE  FlattenSeq(t) = FlattenSeq(s) \o t[Len(t)]
<1> DEFINE n == Len(s)
<1>1. n \in Nat /\ Len(t) = n + 1 /\ Len(t) \in Nat /\ Len(t) # 0
  OBVIOUS
<1>2. PICK g : /\ g[1] = t[1] /\ \A i \in 2 .. n + 1 : g[i] = g[i - 1] \o t[i]
               /\ FlattenSeq(t) = g[n + 1]
  BY <1>1, FlattenRec
<1>3. CASE n = 0
  <2>1. FlattenSeq(s) = <<>>
    BY <1>3, FlattenEmpty
  <2>2. FlattenSeq(t) = t[1] /\ t[Len(t)] = t[1]
    BY <1>1, <1>2, <1>3
  <2>3. <<>> \o t[1] = t[1]
    BY <2>2, ConcatEmptySeq
  <2> QED BY <2>1, <2>2, <2>3
<1>4. CASE n # 0
  <2>1. PICK f : /\ f[1] = s[1] /\ \A i \in 2 .. n : f[i] = f[i - 1] \o s[i]
                 /\ FlattenSeq(s) = f[n]
    BY <1>1, <1>4, FlattenRec
  <2> DEFINE T == {k \in 1 .. n : g[k] = f[k]}
  <2>2. 1 \in T
    <3>1. 1 \in 1 .. n
      BY <1>1, <1>4
    <3> QED BY <1>2, <2>1, <3>1
  <2>3. \A k \in 1 .. n - 1 : k \in T => k + 1 \in T
    <3>1. SUFFICES ASSUME NEW k \in 1 .. n - 1, k \in T PROVE k + 1 \in T
      OBVIOUS
    <3>2. /\ k + 1 \in 1 .. n /\ k + 1 \in 2 .. n /\ k + 1 \in 2 .. n + 1 /\ (k + 1) - 1 = k
      BY <1>1
    <3>3. g[k + 1] = g[k] \o t[k + 1] /\ f[k + 1] = f[k] \o s[k + 1] /\ t[k + 1] = s[k + 1]
      BY <1>2, <2>1, <3>2
    <3> QED BY <3>1, <3>2, <3>3
  <2>4. g[n] = f[n]
    <3>1. n \in 1 .. n
      BY <1>1, <1>4
    <3>2. 1 .. n \subseteq T
      <4> HIDE DEF T, n
      <4> QED BY <1>1, <2>2, <2>3, UpInduction
    <3> QED BY <3>1, <3>2
  <2>5. g[n + 1] = g[n] \o t[n + 1]
    <3>1. n + 1 \in 2 .. n + 1 /\ (n + 1) - 1 = n
      BY <1>1, <1>4
    <3> QED BY <1>2, <3>1
  <2> QED BY <1>1, <1>2, <2>1, <2>4, <2>5
<1> QED BY <1>3, <1>4

\* The greatest element of a set of naturals up to n
LEMMA GreatestExists ==
  ASSUME NEW n \in Nat, NEW I, I \subseteq 0 .. n, I # {}
  PROVE  Max(I) \in I /\ \A y \in I : Max(I) >= y
<1> DEFINE J == {n - i : i \in I}
<1>1. J \subseteq Nat /\ J # {}
  <2>1. \A i \in I : n - i \in Nat
    OBVIOUS
  <2>2. J \subseteq Nat
    BY <2>1
  <2>3. PICK i \in I : TRUE
    OBVIOUS
  <2>4. n - i \in J
    OBVIOUS
  <2> QED BY <2>2, <2>4
<1>2. Min(J) \in J /\ \A y \in J : Min(J) <= y
  <2> HIDE DEF J
  <2> QED BY <1>1, LeastExists
<1>3. PICK x \in I : Min(J) = n - x
  BY <1>2
<1>4. ASSUME NEW y \in I PROVE x >= y
  <2>1. n - y \in J
    OBVIOUS
  <2>2. n - x <= n - y /\ x \in 0 .. n /\ y \in 0 .. n
    BY <1>2, <1>3, <2>1
  <2> QED BY <2>2
<1>5. Max(I) = CHOOSE z \in I : \A y \in I : z >= y
  BY DEF Max
<1> QED BY <1>3, <1>4, <1>5

\* x has the elements of the sequences in s and no others.
ElementsOf(x, s) ==
  /\ \A j \in 1 .. Len(x) : \E i \in 1 .. Len(s) : \E k \in 1 .. Len(s[i]) : x[j] = s[i][k]
  /\ \A i \in 1 .. Len(s) : \A k \in 1 .. Len(s[i]) : \E j \in 1 .. Len(x) : x[j] = s[i][k]

\* Flattening keeps every element and adds none.
LEMMA FlattenElements ==
  ASSUME NEW S, NEW s, Len(s) \in Nat, Len(s) # 0, \A i \in 1 .. Len(s) : s[i] \in Seq(S)
  PROVE  FlattenSeq(s) \in Seq(S) /\ ElementsOf(FlattenSeq(s), s)
<1> DEFINE n == Len(s)
<1>1. PICK f : f[1] = s[1] /\ (\A i \in 2 .. n : f[i] = f[i - 1] \o s[i]) /\ FlattenSeq(s) = f[n]
  BY FlattenRec
<1> DEFINE T == {m \in 1 .. n :
             /\ f[m] \in Seq(S)
             /\ \A j \in 1 .. Len(f[m]) : \E i \in 1 .. m : \E k \in 1 .. Len(s[i]) : f[m][j] = s[i][k]
             /\ \A i \in 1 .. m : \A k \in 1 .. Len(s[i]) : \E j \in 1 .. Len(f[m]) : f[m][j] = s[i][k]}
<1>2. 1 \in T
  BY <1>1
<1>3. \A m \in 1 .. n - 1 : m \in T => m + 1 \in T
  <2>1. SUFFICES ASSUME NEW m \in 1 .. n - 1, m \in T PROVE m + 1 \in T
    OBVIOUS
  <2>2. m + 1 \in 1 .. n /\ m + 1 \in 2 .. n /\ (m + 1) - 1 = m
    OBVIOUS
  <2> DEFINE a == f[m]
             b == s[m + 1]
             c == f[m + 1]
  <2>3. c = a \o b /\ a \in Seq(S) /\ b \in Seq(S)
    BY <1>1, <2>1, <2>2
  <2>4. /\ \A j \in 1 .. Len(a) : \E i \in 1 .. m : \E k \in 1 .. Len(s[i]) : a[j] = s[i][k]
        /\ \A i \in 1 .. m : \A k \in 1 .. Len(s[i]) : \E j \in 1 .. Len(a) : a[j] = s[i][k]
    BY <2>1
  <2> HIDE DEF a, b, c
  <2>5. /\ c \in Seq(S) /\ Len(c) = Len(a) + Len(b) /\ Len(a) \in Nat /\ Len(b) \in Nat
        /\ \A j \in 1 .. Len(c) : c[j] = IF j <= Len(a) THEN a[j] ELSE b[j - Len(a)]
    BY <2>3, ConcatProperties
  <2>6. ASSUME NEW j \in 1 .. Len(c)
        PROVE  \E i \in 1 .. m + 1 : \E k \in 1 .. Len(s[i]) : c[j] = s[i][k]
    <3>1. CASE j <= Len(a)
      <4>1. j \in 1 .. Len(a) /\ c[j] = a[j]
        BY <2>5, <3>1
      <4>2. PICK i \in 1 .. m : \E k \in 1 .. Len(s[i]) : a[j] = s[i][k]
        BY <2>4, <4>1
      <4>3. i \in 1 .. m + 1
        OBVIOUS
      <4> QED BY <4>1, <4>2, <4>3
    <3>2. CASE ~(j <= Len(a))
      <4>1. j - Len(a) \in 1 .. Len(b) /\ c[j] = b[j - Len(a)] /\ m + 1 \in 1 .. m + 1
        BY <2>5, <3>2
      <4>2. c[j] = s[m + 1][j - Len(a)] /\ j - Len(a) \in 1 .. Len(s[m + 1])
        BY <4>1 DEF b
      <4> QED BY <4>1, <4>2
    <3> QED BY <3>1, <3>2
  <2>7. ASSUME NEW i \in 1 .. m + 1, NEW k \in 1 .. Len(s[i])
        PROVE  \E j \in 1 .. Len(c) : c[j] = s[i][k]
    <3>1. CASE i = m + 1
      <4>1. k \in 1 .. Len(b) /\ s[i][k] = b[k]
        BY <3>1 DEF b
      <4>2. Len(a) + k \in 1 .. Len(c) /\ ~(Len(a) + k <= Len(a)) /\ (Len(a) + k) - Len(a) = k
        BY <2>5, <4>1
      <4>3. c[Len(a) + k] = b[k]
        BY <2>5, <4>2
      <4> QED BY <4>1, <4>2, <4>3
    <3>2. CASE i # m + 1
      <4>1. i \in 1 .. m
        BY <3>2
      <4>2. PICK j \in 1 .. Len(a) : a[j] = s[i][k]
        BY <2>4, <4>1
      <4>3. j \in 1 .. Len(c) /\ c[j] = a[j]
        BY <2>5
      <4> QED BY <4>2, <4>3
    <3> QED BY <3>1, <3>2
  <2> QED BY <2>2, <2>5, <2>6, <2>7 DEF c
<1>4. n \in T
  <2>1. n \in Nat /\ n \in 1 .. n
    OBVIOUS
  <2> HIDE DEF T, n
  <2> QED BY <1>2, <1>3, <2>1, UpInduction
<1> QED BY <1>1, <1>4 DEF ElementsOf
=============================================================================
