-------------------------- MODULE SigMatchesProofs --------------------------
(***************************************************************************)
(* Proofs about SigMatches: for any rules that MatchRule's Ord orders, any *)
(* signals and any tasks, SigInv is an invariant, hence SubscribedAtRest   *)
(* and MostSpecificFirst are, and every step is one QueuedAtMostSpecific   *)
(* allows.  Ord orders any rules whose namespaces are layered.             *)
(***************************************************************************)
EXTENDS SigMatches, SequenceTheorems, Induction, TLAPS

\* The chain of comparisons returns the first that is not Equal, and Equal if
\* all are.
LEMMA FirstDecidedIs ==
  ASSUME NEW n \in Nat, NEW s, s \in [1 .. n -> Int]
  PROVE  \/ FirstDecided(s) = 0 /\ \A j \in 1 .. n : s[j] = 0
         \/ \E i \in 1 .. n : /\ FirstDecided(s) = s[i] /\ s[i] # 0
                              /\ \A j \in 1 .. i - 1 : s[j] = 0
<1> DEFINE I == {i \in 1 .. Len(s) : s[i] # 0}
<1>1. s \in Seq(Int) /\ Len(s) = n
  OBVIOUS
<1>2. FirstDecided(s) = LET k == IF I = {} THEN 0 ELSE Min(I) IN IF k = 0 THEN 0 ELSE s[k]
  BY DEF FirstDecided, SelectInSeq
<1>3. CASE I = {}
  BY <1>1, <1>2, <1>3
<1>4. CASE I # {}
  <2>1. I \subseteq Nat
    BY <1>1
  <2>2. Min(I) \in I /\ \A y \in I : Min(I) <= y
    <3> HIDE DEF I
    <3> QED BY <1>4, <2>1, LeastExists
  <2> DEFINE i == Min(I)
  <2>3. i \in 1 .. n /\ s[i] # 0
    BY <1>1, <2>2
  <2>4. \A j \in 1 .. i - 1 : s[j] = 0
    <3>1. \A j \in 1 .. i - 1 : j \notin I /\ j \in 1 .. n
      BY <2>2, <2>3
    <3> QED BY <1>1, <3>1
  <2>5. FirstDecided(s) = s[i]
    BY <1>2, <1>4, <2>3
  <2> QED BY <2>3, <2>4, <2>5
<1> QED BY <1>3, <1>4

-----------------------------------------------------------------------------
(* Ord for MatchRule                                                       *)

\* cmp of two strings is a total order.
LEMMA NameCmpIs ==
  ASSUME NEW x \in Int, NEW y \in Int
  PROVE  /\ NameCmp(x, y) \in {-1, 0, 1} /\ NameCmp(x, y) = 0 - NameCmp(y, x)
         /\ NameCmp(x, y) = 0 <=> x = y
BY DEF NameCmp

\* When one list of comparisons is the other's with every sign changed, the
\* first that decides is the same, with its sign changed.
LEMMA FirstDecidedFlips ==
  ASSUME NEW n \in Nat, NEW s \in [1 .. n -> {-1, 0, 1}], NEW t \in [1 .. n -> {-1, 0, 1}],
         \A i \in 1 .. n : t[i] = 0 - s[i]
  PROVE  /\ FirstDecided(s) \in {-1, 0, 1} /\ FirstDecided(s) = 0 - FirstDecided(t)
         /\ FirstDecided(s) = 0 => \A i \in 1 .. n : s[i] = 0
<1>1. s \in [1 .. n -> Int] /\ t \in [1 .. n -> Int]
  OBVIOUS
<1>2. CASE FirstDecided(s) = 0 /\ \A j \in 1 .. n : s[j] = 0
  <2>1. \A j \in 1 .. n : t[j] = 0
    BY <1>2
  <2>2. FirstDecided(t) = 0
    BY <1>1, <2>1, FirstDecidedIs
  <2> QED BY <1>2, <2>2
<1>3. CASE \E i \in 1 .. n : /\ FirstDecided(s) = s[i] /\ s[i] # 0
                             /\ \A j \in 1 .. i - 1 : s[j] = 0
  <2>1. PICK i \in 1 .. n : /\ FirstDecided(s) = s[i] /\ s[i] # 0
                            /\ \A j \in 1 .. i - 1 : s[j] = 0
    BY <1>3
  <2>2. t[i] = 0 - s[i] /\ s[i] \in {-1, 1}
    BY <2>1
  <2>3. PICK k \in 1 .. n : /\ FirstDecided(t) = t[k] /\ t[k] # 0
                            /\ \A j \in 1 .. k - 1 : t[j] = 0
    <3>1. t[i] # 0
      BY <2>2
    <3> QED BY <1>1, <3>1, FirstDecidedIs, ZenonT(60)
  <2>4. t[k] = 0 - s[k] /\ s[k] \in {-1, 0, 1}
    OBVIOUS
  <2>5. ~(k \in 1 .. i - 1) /\ ~(i \in 1 .. k - 1)
    BY <2>1, <2>2, <2>3, <2>4
  <2>6. k = i
    BY <2>5
  <2> QED BY <2>1, <2>2, <2>3, <2>6
<1> QED BY <1>1, <1>2, <1>3, FirstDecidedIs

\* cmp of two paths is antisymmetric and is Equal only of equal paths.
LEMMA PathCmpIs ==
  ASSUME NEW x \in Seq(Nat), NEW y \in Seq(Nat)
  PROVE  /\ PathCmp(x, y) \in {-1, 0, 1} /\ PathCmp(x, y) = 0 - PathCmp(y, x)
         /\ PathCmp(x, y) = 0 <=> x = y
<1> DEFINE n == IF Len(x) < Len(y) THEN Len(x) ELSE Len(y)
           s == [i \in 1 .. n + 1 |-> IF i <= n THEN NameCmp(x[i], y[i])
                                      ELSE NameCmp(Len(x), Len(y))]
           t == [i \in 1 .. n + 1 |-> IF i <= n THEN NameCmp(y[i], x[i])
                                      ELSE NameCmp(Len(y), Len(x))]
<1>1. n \in Nat /\ n <= Len(x) /\ n <= Len(y) /\ n + 1 \in Nat
  OBVIOUS
<1>2. n = IF Len(y) < Len(x) THEN Len(y) ELSE Len(x)
  OBVIOUS
<1>3. PathCmp(x, y) = FirstDecided(s)
  BY DEF PathCmp
<1>4. PathCmp(y, x) = FirstDecided(t)
  <2>1. PathCmp(y, x) =
          LET k == IF Len(y) < Len(x) THEN Len(y) ELSE Len(x) IN
          FirstDecided([i \in 1 .. k + 1 |-> IF i <= k THEN NameCmp(y[i], x[i])
                                             ELSE NameCmp(Len(y), Len(x))])
    BY DEF PathCmp
  <2> HIDE DEF n
  <2> QED BY <1>2, <2>1
<1> HIDE DEF n
<1>5. ASSUME NEW i \in 1 .. n + 1
      PROVE  s[i] \in {-1, 0, 1} /\ t[i] \in {-1, 0, 1} /\ t[i] = 0 - s[i]
  <2>1. CASE i <= n
    <3>1. x[i] \in Int /\ y[i] \in Int
      <4>1. i \in 1 .. Len(x) /\ i \in 1 .. Len(y)
        BY <1>1, <2>1
      <4> QED BY <4>1
    <3> QED BY <2>1, <3>1, NameCmpIs
  <2>2. CASE ~(i <= n)
    <3>1. Len(x) \in Int /\ Len(y) \in Int
      OBVIOUS
    <3> QED BY <2>2, <3>1, NameCmpIs
  <2> QED BY <2>1, <2>2
<1>6. s \in [1 .. n + 1 -> {-1, 0, 1}] /\ t \in [1 .. n + 1 -> {-1, 0, 1}]
  BY <1>5
<1>7. s[n + 1] = NameCmp(Len(x), Len(y)) /\ \A i \in 1 .. n : s[i] = NameCmp(x[i], y[i])
  BY <1>1
<1> HIDE DEF s, t
<1>8. /\ FirstDecided(s) \in {-1, 0, 1} /\ FirstDecided(s) = 0 - FirstDecided(t)
      /\ FirstDecided(s) = 0 => \A i \in 1 .. n + 1 : s[i] = 0
  BY <1>1, <1>5, <1>6, FirstDecidedFlips
<1>9. ASSUME FirstDecided(s) = 0 PROVE x = y
  <2>1. s[n + 1] = 0 /\ \A i \in 1 .. n : s[i] = 0
    BY <1>1, <1>8, <1>9
  <2>2. Len(x) = Len(y)
    <3>1. Len(x) \in Int /\ Len(y) \in Int /\ NameCmp(Len(x), Len(y)) = 0
      BY <1>7, <2>1
    <3> QED BY <3>1, NameCmpIs
  <2>3. ASSUME NEW i \in 1 .. Len(x) PROVE x[i] = y[i]
    <3>1. i \in 1 .. n
      BY <2>2 DEF n
    <3>2. x[i] \in Int /\ y[i] \in Int
      BY <2>2
    <3> QED BY <1>7, <2>1, <3>1, <3>2, NameCmpIs, SMTT(40)
  <2> QED BY <2>2, <2>3, SeqEqual
<1>10. ASSUME x = y PROVE FirstDecided(s) = 0
  <2>1. s = t
    BY <1>10 DEF s, t
  <2> QED BY <1>8, <2>1
<1> QED BY <1>3, <1>4, <1>8, <1>9, <1>10

\* options, as sequences
Opt(S) == {o \in Seq(S) : Len(o) <= 1}

\* An Option is empty or holds one value.
LEMMA OptIs ==
  ASSUME NEW S, NEW o \in Opt(S)
  PROVE  /\ Len(o) \in {0, 1} /\ (o = <<>> <=> Len(o) = 0)
         /\ o # <<>> => o[1] \in S /\ o = <<o[1]>>
<1>1. o \in Seq(S) /\ Len(o) \in {0, 1}
  <2>1. o \in Seq(S) /\ Len(o) <= 1
    BY DEF Opt
  <2>2. Len(o) \in Nat
    BY <2>1
  <2> QED BY <2>1, <2>2
<1>2. CASE Len(o) = 0
  <2>1. o = <<>>
    BY <1>1, <1>2, EmptySeq
  <2> QED BY <1>2, <2>1
<1>3. CASE Len(o) = 1
  <2>1. o[1] \in S /\ <<o[1]>> \in Seq(S) /\ Len(<<o[1]>>) = 1
    BY <1>1, <1>3
  <2>2. o = <<o[1]>>
    BY <1>1, <1>3, <2>1, SeqEqual
  <2> QED BY <1>1, <1>3, <2>1, <2>2, EmptySeq
<1> QED BY <1>1, <1>2, <1>3

\* Options that are both empty or hold the same value are equal.
LEMMA OptEqual ==
  ASSUME NEW S, NEW l \in Opt(S), NEW r \in Opt(S),
         Len(l) = Len(r), l # <<>> => l[1] = r[1]
  PROVE  l = r
BY OptIs

\* option_ord is antisymmetric.
LEMMA OptionOrdIs ==
  ASSUME NEW S, NEW l \in Opt(S), NEW r \in Opt(S)
  PROVE  OptionOrd(l, r) \in {-1, 0, 1} /\ OptionOrd(l, r) = 0 - OptionOrd(r, l)
BY DEF OptionOrd

\* Two paths are not each a strict prefix of the other.
LEMMA StrictPrefixAsym ==
  ASSUME NEW x \in Seq(Nat), NEW y \in Seq(Nat), IsStrictPrefix(x, y)
  PROVE  ~IsStrictPrefix(y, x)
<1>1. SUFFICES ASSUME IsStrictPrefix(y, x) PROVE FALSE
  OBVIOUS
<1>2. Len(x) = Len(y) /\ SubSeq(x, 1, Len(x)) = SubSeq(y, 1, Len(x)) /\ x # y
  BY <1>1 DEF IsStrictPrefix, IsPrefix
<1>3. SubSeq(x, 1, Len(x)) = x /\ SubSeq(y, 1, Len(y)) = y
  OBVIOUS
<1> QED BY <1>2, <1>3

\* path_subset is antisymmetric.
LEMMA PathSubsetIs ==
  ASSUME NEW l \in Opt(Seq(Nat)), NEW r \in Opt(Seq(Nat))
  PROVE  PathSubset(l, r) \in {-1, 0, 1} /\ PathSubset(l, r) = 0 - PathSubset(r, l)
<1>1. CASE l = <<>> \/ r = <<>>
  <2>1. PathSubset(l, r) = OptionOrd(l, r) /\ PathSubset(r, l) = OptionOrd(r, l)
    BY <1>1 DEF PathSubset
  <2> QED BY <2>1, OptionOrdIs
<1>2. CASE l # <<>> /\ r # <<>>
  <2>1. l[1] \in Seq(Nat) /\ r[1] \in Seq(Nat)
    BY <1>2, OptIs
  <2>2. ~(IsStrictPrefix(l[1], r[1]) /\ IsStrictPrefix(r[1], l[1]))
    BY <2>1, StrictPrefixAsym
  <2> QED BY <1>2, <2>2 DEF PathSubset
<1> QED BY <1>1, <1>2

\* cmp of two optional strings is antisymmetric and Equal only of equal ones.
LEMMA OptNameCmpIs ==
  ASSUME NEW l \in Opt(Nat), NEW r \in Opt(Nat)
  PROVE  /\ OptNameCmp(l, r) \in {-1, 0, 1} /\ OptNameCmp(l, r) = 0 - OptNameCmp(r, l)
         /\ OptNameCmp(l, r) = 0 => l = r
<1>1. /\ Len(l) \in {0, 1} /\ (l = <<>> <=> Len(l) = 0)
      /\ Len(r) \in {0, 1} /\ (r = <<>> <=> Len(r) = 0)
  BY OptIs
<1>2. CASE l = <<>> \/ r = <<>>
  <2>1. OptNameCmp(l, r) = NameCmp(Len(l), Len(r)) /\ OptNameCmp(r, l) = NameCmp(Len(r), Len(l))
    BY <1>2 DEF OptNameCmp
  <2>2. Len(l) \in Int /\ Len(r) \in Int
    BY <1>1
  <2> QED BY <1>1, <1>2, <2>1, <2>2, NameCmpIs
<1>3. CASE l # <<>> /\ r # <<>>
  <2>1. OptNameCmp(l, r) = NameCmp(l[1], r[1]) /\ OptNameCmp(r, l) = NameCmp(r[1], l[1])
    BY <1>3 DEF OptNameCmp
  <2>2. l[1] \in Int /\ r[1] \in Int
    <3>1. l[1] \in Nat /\ r[1] \in Nat
      BY <1>3, OptIs
    <3> QED BY <3>1
  <2>3. l[1] = r[1] => l = r
    BY <1>1, <1>3, OptEqual
  <2> QED BY <2>1, <2>2, <2>3, NameCmpIs
<1> QED BY <1>2, <1>3

\* cmp of two optional paths is antisymmetric and Equal only of equal ones.
LEMMA OptPathCmpIs ==
  ASSUME NEW l \in Opt(Seq(Nat)), NEW r \in Opt(Seq(Nat))
  PROVE  /\ OptPathCmp(l, r) \in {-1, 0, 1} /\ OptPathCmp(l, r) = 0 - OptPathCmp(r, l)
         /\ OptPathCmp(l, r) = 0 => l = r
<1>1. /\ Len(l) \in {0, 1} /\ (l = <<>> <=> Len(l) = 0)
      /\ Len(r) \in {0, 1} /\ (r = <<>> <=> Len(r) = 0)
  BY OptIs
<1>2. CASE l = <<>> \/ r = <<>>
  <2>1. OptPathCmp(l, r) = NameCmp(Len(l), Len(r)) /\ OptPathCmp(r, l) = NameCmp(Len(r), Len(l))
    BY <1>2 DEF OptPathCmp
  <2>2. Len(l) \in Int /\ Len(r) \in Int
    BY <1>1
  <2> QED BY <1>1, <1>2, <2>1, <2>2, NameCmpIs
<1>3. CASE l # <<>> /\ r # <<>>
  <2>1. OptPathCmp(l, r) = PathCmp(l[1], r[1]) /\ OptPathCmp(r, l) = PathCmp(r[1], l[1])
    BY <1>3 DEF OptPathCmp
  <2>2. l[1] \in Seq(Nat) /\ r[1] \in Seq(Nat)
    BY <1>3, OptIs
  <2>3. l[1] = r[1] => l = r
    BY <1>1, <1>3, OptEqual
  <2> QED BY <2>1, <2>2, <2>3, PathCmpIs
<1> QED BY <1>2, <1>3

\* The fields of a MatchRule.
LEMMA RuleFields ==
  ASSUME NEW r \in Rules
  PROVE  /\ r.sender \in Opt(Nat) /\ r.iface \in Opt(Nat) /\ r.member \in Opt(Nat)
         /\ r.path \in Opt(Seq(Nat)) /\ r.ns \in Opt(Seq(Nat))
         /\ r.path = <<>> \/ r.ns = <<>>
         /\ r = [sender |-> r.sender, path |-> r.path, ns |-> r.ns,
                 iface |-> r.iface, member |-> r.member]
<1>1. r \in [sender : Seq(Nat), path : Seq(Seq(Nat)), ns : Seq(Seq(Nat)),
             iface : Seq(Nat), member : Seq(Nat)]
  BY RulesAssumption
<1>2. /\ Len(r.sender) <= 1 /\ Len(r.path) <= 1 /\ Len(r.ns) <= 1
      /\ Len(r.iface) <= 1 /\ Len(r.member) <= 1
  BY <1>1, RulesAssumption
<1>3. r.path = <<>> \/ r.ns = <<>>
  BY RulesAssumption
<1> QED BY <1>1, <1>2, <1>3 DEF Opt

\* The comparisons that Cmp makes, in order
Keys(a, b) ==
  <<OptionOrd(a.sender, b.sender), OptionOrd(a.path, b.path), PathSubset(a.ns, b.ns),
    OptionOrd(a.iface, b.iface), OptionOrd(a.member, b.member),
    OptNameCmp(a.sender, b.sender), OptPathCmp(a.path, b.path), OptPathCmp(a.ns, b.ns),
    OptNameCmp(a.iface, b.iface), OptNameCmp(a.member, b.member)>>

\* A list of ten comparisons.
LEMMA TenKeys ==
  ASSUME NEW S, NEW x1 \in S, NEW x2 \in S, NEW x3 \in S, NEW x4 \in S, NEW x5 \in S,
         NEW x6 \in S, NEW x7 \in S, NEW x8 \in S, NEW x9 \in S, NEW x10 \in S
  PROVE  <<x1, x2, x3, x4, x5, x6, x7, x8, x9, x10>> \in [1 .. 10 -> S]
OBVIOUS

\* A list of ten comparisons with every sign changed.
LEMMA TenFlips ==
  ASSUME NEW x1, NEW x2, NEW x3, NEW x4, NEW x5, NEW x6, NEW x7, NEW x8, NEW x9, NEW x10,
         NEW y1, NEW y2, NEW y3, NEW y4, NEW y5, NEW y6, NEW y7, NEW y8, NEW y9, NEW y10,
         x1 = 0 - y1, x2 = 0 - y2, x3 = 0 - y3, x4 = 0 - y4, x5 = 0 - y5,
         x6 = 0 - y6, x7 = 0 - y7, x8 = 0 - y8, x9 = 0 - y9, x10 = 0 - y10
  PROVE  \A i \in 1 .. 10 : <<x1, x2, x3, x4, x5, x6, x7, x8, x9, x10>>[i]
                             = 0 - <<y1, y2, y3, y4, y5, y6, y7, y8, y9, y10>>[i]
<1>1. \A i \in 1 .. 10 : \/ i = 1 \/ i = 2 \/ i = 3 \/ i = 4 \/ i = 5
                         \/ i = 6 \/ i = 7 \/ i = 8 \/ i = 9 \/ i = 10
  OBVIOUS
<1> QED BY <1>1

\* Every comparison that cmp makes is antisymmetric.
LEMMA KeysFlip ==
  ASSUME NEW a \in Rules, NEW b \in Rules
  PROVE  /\ Keys(a, b) \in [1 .. 10 -> {-1, 0, 1}]
         /\ \A i \in 1 .. 10 : Keys(b, a)[i] = 0 - Keys(a, b)[i]
<1>1. /\ a.sender \in Opt(Nat) /\ a.iface \in Opt(Nat) /\ a.member \in Opt(Nat)
      /\ a.path \in Opt(Seq(Nat)) /\ a.ns \in Opt(Seq(Nat))
      /\ b.sender \in Opt(Nat) /\ b.iface \in Opt(Nat) /\ b.member \in Opt(Nat)
      /\ b.path \in Opt(Seq(Nat)) /\ b.ns \in Opt(Seq(Nat))
  BY RuleFields
<1> DEFINE Flips(x, y) == x \in {-1, 0, 1} /\ x = 0 - y
<1>2. /\ Flips(OptionOrd(a.sender, b.sender), OptionOrd(b.sender, a.sender))
      /\ Flips(OptionOrd(a.path, b.path), OptionOrd(b.path, a.path))
      /\ Flips(PathSubset(a.ns, b.ns), PathSubset(b.ns, a.ns))
      /\ Flips(OptionOrd(a.iface, b.iface), OptionOrd(b.iface, a.iface))
      /\ Flips(OptionOrd(a.member, b.member), OptionOrd(b.member, a.member))
  BY <1>1, OptionOrdIs, PathSubsetIs
<1>3. /\ Flips(OptNameCmp(a.sender, b.sender), OptNameCmp(b.sender, a.sender))
      /\ Flips(OptPathCmp(a.path, b.path), OptPathCmp(b.path, a.path))
      /\ Flips(OptPathCmp(a.ns, b.ns), OptPathCmp(b.ns, a.ns))
      /\ Flips(OptNameCmp(a.iface, b.iface), OptNameCmp(b.iface, a.iface))
      /\ Flips(OptNameCmp(a.member, b.member), OptNameCmp(b.member, a.member))
  BY <1>1, OptNameCmpIs, OptPathCmpIs
<1>6. /\ OptionOrd(b.sender, a.sender) \in {-1, 0, 1} /\ OptionOrd(b.path, a.path) \in {-1, 0, 1}
      /\ PathSubset(b.ns, a.ns) \in {-1, 0, 1} /\ OptionOrd(b.iface, a.iface) \in {-1, 0, 1}
      /\ OptionOrd(b.member, a.member) \in {-1, 0, 1}
      /\ OptNameCmp(b.sender, a.sender) \in {-1, 0, 1} /\ OptPathCmp(b.path, a.path) \in {-1, 0, 1}
      /\ OptPathCmp(b.ns, a.ns) \in {-1, 0, 1} /\ OptNameCmp(b.iface, a.iface) \in {-1, 0, 1}
      /\ OptNameCmp(b.member, a.member) \in {-1, 0, 1}
  BY <1>1, OptionOrdIs, PathSubsetIs, OptNameCmpIs, OptPathCmpIs
<1>4. Keys(a, b) \in [1 .. 10 -> {-1, 0, 1}]
  BY <1>2, <1>3, TenKeys DEF Keys
<1>5. \A i \in 1 .. 10 : Keys(b, a)[i] = 0 - Keys(a, b)[i]
  <2>1. \A i \in 1 .. 10 : Keys(a, b)[i] = 0 - Keys(b, a)[i]
    BY <1>2, <1>3, TenFlips DEF Keys
  <2>2. \A i \in 1 .. 10 : Keys(b, a)[i] \in {-1, 0, 1}
    <3>1. Keys(b, a) \in [1 .. 10 -> {-1, 0, 1}]
      BY <1>6, TenKeys DEF Keys
    <3> QED BY <3>1
  <2> QED BY <2>1, <2>2
<1> QED BY <1>4, <1>5

\* MatchRule's comparison is decided one way or the other, and says Equal
\* only of the same rule.
LEMMA OrderIs ==
  ASSUME NEW a \in Rules, NEW b \in Rules
  PROVE  /\ Order[a][b] \in {-1, 0, 1} /\ Order[a][b] = 0 - Order[b][a]
         /\ Order[a][b] = 0 <=> a = b
<1>1. Order[a][b] = FirstDecided(Keys(a, b)) /\ Order[b][a] = FirstDecided(Keys(b, a))
  BY DEF Order, Cmp, Keys
<1>2. /\ Keys(a, b) \in [1 .. 10 -> {-1, 0, 1}] /\ Keys(b, a) \in [1 .. 10 -> {-1, 0, 1}]
      /\ \A i \in 1 .. 10 : Keys(b, a)[i] = 0 - Keys(a, b)[i]
  BY KeysFlip
<1>3. /\ FirstDecided(Keys(a, b)) \in {-1, 0, 1}
      /\ FirstDecided(Keys(a, b)) = 0 - FirstDecided(Keys(b, a))
      /\ FirstDecided(Keys(a, b)) = 0 => \A i \in 1 .. 10 : Keys(a, b)[i] = 0
  BY <1>2, FirstDecidedFlips
<1>4. ASSUME Order[a][b] = 0 PROVE a = b
  <2>1. \A i \in 1 .. 10 : Keys(a, b)[i] = 0
    BY <1>1, <1>3, <1>4
  <2>2. /\ OptNameCmp(a.sender, b.sender) = 0 /\ OptPathCmp(a.path, b.path) = 0
        /\ OptPathCmp(a.ns, b.ns) = 0 /\ OptNameCmp(a.iface, b.iface) = 0
        /\ OptNameCmp(a.member, b.member) = 0
    <3>1. Keys(a, b)[6] = 0 /\ Keys(a, b)[7] = 0 /\ Keys(a, b)[8] = 0
          /\ Keys(a, b)[9] = 0 /\ Keys(a, b)[10] = 0
      BY <2>1
    <3> QED BY <3>1 DEF Keys
  <2>3. a.sender = b.sender /\ a.iface = b.iface /\ a.member = b.member
    BY <2>2, RuleFields, OptNameCmpIs
  <2>4. a.path = b.path /\ a.ns = b.ns
    BY <2>2, RuleFields, OptPathCmpIs
  <2> QED BY <2>3, <2>4, RuleFields
<1>5. ASSUME a = b PROVE Order[a][b] = 0
  BY <1>1, <1>3, <1>5
<1> QED BY <1>1, <1>3, <1>4, <1>5

\* A narrower rule does not come after a wider one.
LEMMA NarrowerFirst ==
  ASSUME NEW r \in Rules, NEW q \in Rules, Narrower(r, q)
  PROVE  Order[q][r] # -1
<1>1. SUFFICES ASSUME Order[q][r] = -1 PROVE FALSE
  OBVIOUS
<1>2. FirstDecided(Keys(q, r)) = -1
  BY <1>1 DEF Order, Cmp, Keys
<1>3. Keys(q, r) \in [1 .. 10 -> Int] /\ 10 \in Nat
  <2>1. Keys(q, r) \in [1 .. 10 -> {-1, 0, 1}]
    BY KeysFlip
  <2> QED BY <2>1
<1>4. PICK i \in 1 .. 10 : Keys(q, r)[i] = -1 /\ \A j \in 1 .. i - 1 : Keys(q, r)[j] = 0
  <2> DEFINE k == Keys(q, r)
  <2>1. \/ FirstDecided(k) = 0 /\ \A j \in 1 .. 10 : k[j] = 0
        \/ \E i \in 1 .. 10 : /\ FirstDecided(k) = k[i] /\ k[i] # 0
                              /\ \A j \in 1 .. i - 1 : k[j] = 0
    <3> HIDE DEF k
    <3> QED BY <1>3, FirstDecidedIs DEF k
  <2> QED BY <1>2, <2>1
<1>5. /\ OptionOrd(q.sender, r.sender) # -1
      /\ OptionOrd(q.path, r.path) # -1
      /\ OptionOrd(q.iface, r.iface) # -1
      /\ OptionOrd(q.member, r.member) # -1
  BY DEF Narrower, FieldMatches, OptionOrd
<1>6. /\ OptionOrd(q.sender, r.sender) = 0 => q.sender = r.sender
      /\ OptionOrd(q.path, r.path) = 0 => q.path = r.path
      /\ OptionOrd(q.iface, r.iface) = 0 => q.iface = r.iface
      /\ OptionOrd(q.member, r.member) = 0 => q.member = r.member
  BY DEF Narrower, FieldMatches, OptionOrd
<1>7. ASSUME q.path = r.path
      PROVE  /\ PathSubset(q.ns, r.ns) # -1
             /\ PathSubset(q.ns, r.ns) = 0 => q.ns = r.ns
  <2>1. CASE q.ns = <<>>
    BY <2>1 DEF PathSubset, OptionOrd
  <2>2. CASE q.ns # <<>>
    <3>1. r.path = <<>>
      BY <1>7, <2>2, RuleFields
    <3>2. r.ns # <<>> /\ IsPrefix(q.ns[1], r.ns[1])
      BY <2>2, <3>1 DEF Narrower
    <3>3. q.ns[1] \in Seq(Nat) /\ r.ns[1] \in Seq(Nat)
      BY <2>2, <3>2, RuleFields, OptIs
    <3>4. CASE q.ns[1] = r.ns[1]
      <4>1. q.ns = r.ns
        BY <2>2, <3>2, <3>4, RuleFields, OptIs
      <4>2. PathSubset(q.ns, r.ns) = 0
        BY <2>2, <3>2, <3>4 DEF PathSubset, IsStrictPrefix
      <4> QED BY <4>1, <4>2
    <3>5. CASE q.ns[1] # r.ns[1]
      <4>1. IsStrictPrefix(q.ns[1], r.ns[1])
        BY <3>2, <3>5 DEF IsStrictPrefix
      <4>2. ~IsStrictPrefix(r.ns[1], q.ns[1])
        BY <3>3, <4>1, StrictPrefixAsym
      <4> QED BY <2>2, <3>2, <4>1, <4>2 DEF PathSubset
    <3> QED BY <3>4, <3>5
  <2> QED BY <2>1, <2>2
<1>8. CASE i \in 1 .. 5
  <2>1. i # 1 /\ i # 2 /\ i # 4 /\ i # 5
    BY <1>4, <1>5 DEF Keys
  <2>2. i = 3
    BY <1>8, <2>1
  <2>3. Keys(q, r)[2] = 0 /\ Keys(q, r)[3] = -1
    BY <1>4, <2>2
  <2> QED BY <1>6, <1>7, <2>3 DEF Keys
<1>9. CASE i \notin 1 .. 5
  <2>1. \A j \in 1 .. 5 : Keys(q, r)[j] = 0
    BY <1>4, <1>9
  <2>2. Keys(q, r)[1] = 0 /\ Keys(q, r)[2] = 0 /\ Keys(q, r)[3] = 0 /\ Keys(q, r)[4] = 0
        /\ Keys(q, r)[5] = 0
    BY <2>1
  <2>3. q.sender = r.sender /\ q.path = r.path /\ q.iface = r.iface /\ q.member = r.member
    BY <1>6, <2>2 DEF Keys
  <2>4. q.ns = r.ns
    BY <1>7, <2>2, <2>3 DEF Keys
  <2>5. q = r
    BY <2>3, <2>4, RuleFields
  <2> QED BY <1>1, <2>5, OrderIs
<1> QED BY <1>8, <1>9

-----------------------------------------------------------------------------
(* When MatchRule's Ord is transitive                                      *)

\* The three comparisons of a comparison with ties: of a with b, b with c and
\* a with c.
Weak(x, y, z) ==
  /\ x \in {-1, 0, 1} /\ y \in {-1, 0, 1} /\ z \in {-1, 0, 1}
  /\ x # 1 /\ y # 1 => z # 1 /\ (z = 0 <=> x = 0 /\ y = 0)

\* The first of the comparisons s that is not Equal decides.
Decided(s, n) ==
  \/ FirstDecided(s) = 0 /\ \A j \in 1 .. n : s[j] = 0
  \/ \E i \in 1 .. n : FirstDecided(s) = s[i] /\ s[i] # 0 /\ \A j \in 1 .. i - 1 : s[j] = 0

\* That is what the chain of comparisons does.
LEMMA DecidedIs ==
  ASSUME NEW n \in Nat, NEW s, s \in [1 .. n -> Int]
  PROVE  Decided(s, n)
BY FirstDecidedIs DEF Decided

\* When they decide for Less, the first that is not Equal says so.
LEMMA DecidedLess ==
  ASSUME NEW n \in Nat, NEW s, s \in [1 .. n -> Int], FirstDecided(s) = -1
  PROVE  \E i \in 1 .. n : s[i] = -1 /\ \A j \in 1 .. i - 1 : s[j] = 0
<1>1. -1 # 0
  OBVIOUS
<1>2. PICK i \in 1 .. n : FirstDecided(s) = s[i] /\ \A j \in 1 .. i - 1 : s[j] = 0
  <2>1. FirstDecided(s) # 0
    BY <1>1
  <2> QED BY <2>1, FirstDecidedIs
<1> QED BY <1>2

\* Lists of comparisons with ties decide transitively.
LEMMA FirstDecidedWeak ==
  ASSUME NEW n \in Nat, NEW x \in [1 .. n -> {-1, 0, 1}], NEW y \in [1 .. n -> {-1, 0, 1}],
         NEW z \in [1 .. n -> {-1, 0, 1}], \A i \in 1 .. n : Weak(x[i], y[i], z[i]),
         FirstDecided(x) = -1, FirstDecided(y) = -1
  PROVE  FirstDecided(z) = -1
<1>1. x \in [1 .. n -> Int] /\ y \in [1 .. n -> Int] /\ z \in [1 .. n -> Int]
  OBVIOUS
<1>2. PICK i \in 1 .. n : x[i] = -1 /\ \A j \in 1 .. i - 1 : x[j] = 0
  BY <1>1, DecidedLess
<1>3. PICK k \in 1 .. n : y[k] = -1 /\ \A j \in 1 .. k - 1 : y[j] = 0
  BY <1>1, DecidedLess
<1> DEFINE m == IF i < k THEN i ELSE k
<1>4. m \in 1 .. n /\ \A j \in 1 .. m - 1 : j \in 1 .. n /\ j \in 1 .. i - 1 /\ j \in 1 .. k - 1
  OBVIOUS
<1>5. x[m] \in {-1, 0} /\ y[m] \in {-1, 0} /\ ~(x[m] = 0 /\ y[m] = 0)
  <2>1. CASE i < k
    BY <1>2, <1>3, <2>1
  <2>2. CASE i = k
    BY <1>2, <1>3, <2>2
  <2>3. CASE k < i
    BY <1>2, <1>3, <2>3
  <2> QED BY <2>1, <2>2, <2>3
<1> HIDE DEF m
<1>6. z[m] = -1
  BY <1>4, <1>5 DEF Weak
<1>7. ASSUME NEW j \in 1 .. m - 1 PROVE z[j] = 0
  <2>1. x[j] = 0 /\ y[j] = 0 /\ j \in 1 .. n
    BY <1>2, <1>3, <1>4
  <2> QED BY <2>1 DEF Weak
<1>8. PICK l \in 1 .. n : FirstDecided(z) = z[l] /\ z[l] # 0 /\ \A j \in 1 .. l - 1 : z[j] = 0
  <2>1. Decided(z, n)
    BY <1>1, DecidedIs
  <2> QED BY <1>4, <1>6, <2>1 DEF Decided
<1>9. ~(l \in 1 .. m - 1) /\ ~(m \in 1 .. l - 1)
  BY <1>6, <1>7, <1>8
<1>10. l = m
  BY <1>4, <1>9
<1> QED BY <1>6, <1>8, <1>10

\* cmp of two strings is a comparison with ties.
LEMMA NameCmpWeak ==
  ASSUME NEW x \in Int, NEW y \in Int, NEW z \in Int
  PROVE  Weak(NameCmp(x, y), NameCmp(y, z), NameCmp(x, z))
BY DEF Weak, NameCmp

\* So is option_ord, which puts Some before None.
LEMMA OptionOrdWeak ==
  \A x, y, z : Weak(OptionOrd(x, y), OptionOrd(y, z), OptionOrd(x, z))
BY DEF Weak, OptionOrd

\* x is before y because of component k, which x may not have.
LessAt(x, y, k) ==
  /\ k \in 1 .. Len(y) /\ k - 1 <= Len(x)
  /\ \A j \in 1 .. k - 1 : x[j] = y[j]
  /\ k <= Len(x) => x[k] < y[k]

\* cmp of two paths looks for the first component that differs.
LEMMA PathCmpLess ==
  ASSUME NEW x \in Seq(Nat), NEW y \in Seq(Nat)
  PROVE  PathCmp(x, y) = -1 <=> \E k \in Nat : LessAt(x, y, k)
<1> DEFINE n == IF Len(x) < Len(y) THEN Len(x) ELSE Len(y)
           s == [i \in 1 .. n + 1 |-> IF i <= n THEN NameCmp(x[i], y[i])
                                      ELSE NameCmp(Len(x), Len(y))]
<1>1. n \in Nat /\ n <= Len(x) /\ n <= Len(y) /\ n + 1 \in Nat /\ Len(x) \in Nat /\ Len(y) \in Nat
  OBVIOUS
<1>2. PathCmp(x, y) = FirstDecided(s)
  BY DEF PathCmp
<1>3. \A i \in 1 .. n : x[i] \in Nat /\ y[i] \in Nat
  OBVIOUS
<1>4. (Len(x) < Len(y) => n = Len(x)) /\ (~(Len(x) < Len(y)) => n = Len(y))
  OBVIOUS
<1> HIDE DEF n
<1>5. s[n + 1] = NameCmp(Len(x), Len(y)) /\ \A i \in 1 .. n : s[i] = NameCmp(x[i], y[i])
  BY <1>1
<1>6. s \in [1 .. n + 1 -> Int]
  <2>1. ASSUME NEW i \in 1 .. n + 1 PROVE s[i] \in Int
    BY <1>1, <1>3 DEF NameCmp
  <2> QED BY <2>1
<1> HIDE DEF s
<1>7. \/ FirstDecided(s) = 0 /\ \A j \in 1 .. n + 1 : s[j] = 0
      \/ \E i \in 1 .. n + 1 : FirstDecided(s) = s[i] /\ s[i] # 0 /\ \A j \in 1 .. i - 1 : s[j] = 0
  BY <1>1, <1>6, FirstDecidedIs
<1>8. \A i \in 1 .. n : (s[i] = 0 <=> x[i] = y[i]) /\ (s[i] = -1 <=> x[i] < y[i])
  BY <1>3, <1>5, SMTT(40) DEF NameCmp
<1>9. s[n + 1] = -1 <=> Len(x) < Len(y)
  BY <1>1, <1>5 DEF NameCmp
<1>10. ASSUME FirstDecided(s) = -1 PROVE \E k \in Nat : LessAt(x, y, k)
  <2>1. PICK i \in 1 .. n + 1 : s[i] = -1 /\ \A j \in 1 .. i - 1 : s[j] = 0
    BY <1>7, <1>10
  <2>2. \A j \in 1 .. i - 1 : x[j] = y[j]
    BY <1>1, <1>8, <2>1
  <2>3. CASE i <= n
    <3>1. x[i] < y[i] /\ i \in 1 .. Len(y) /\ i - 1 <= Len(x) /\ i \in Nat
      BY <1>1, <1>8, <2>1, <2>3
    <3> QED BY <2>2, <3>1 DEF LessAt
  <2>4. CASE i = n + 1
    <3>1. Len(x) < Len(y) /\ n = Len(x)
      BY <1>4, <1>9, <2>1, <2>4
    <3>2. i \in 1 .. Len(y) /\ i - 1 <= Len(x) /\ i \in Nat /\ ~(i <= Len(x))
      BY <1>1, <2>4, <3>1
    <3> QED BY <2>2, <3>2 DEF LessAt
  <2> QED BY <1>1, <2>3, <2>4
<1>11. ASSUME NEW k \in Nat, LessAt(x, y, k) PROVE FirstDecided(s) = -1
  <2>1. /\ k \in 1 .. Len(y) /\ k - 1 <= Len(x)
        /\ \A j \in 1 .. k - 1 : x[j] = y[j]
        /\ k <= Len(x) => x[k] < y[k]
    BY <1>11 DEF LessAt
  <2>2. k \in 1 .. n + 1 /\ (k <= n => k <= Len(x)) /\ (~(k <= n) => k = n + 1 /\ Len(x) < Len(y))
    BY <1>1, <1>4, <2>1
  <2>3. s[k] = -1
    <3>1. CASE k <= n
      <4>1. k \in 1 .. n /\ x[k] < y[k]
        BY <1>1, <2>1, <2>2, <3>1
      <4> QED BY <1>8, <4>1
    <3>2. CASE ~(k <= n)
      BY <1>9, <2>2, <3>2
    <3> QED BY <3>1, <3>2
  <2>4. ASSUME NEW j \in 1 .. k - 1 PROVE s[j] = 0
    <3>1. j \in 1 .. n /\ x[j] = y[j]
      BY <1>1, <2>1, <2>2
    <3> QED BY <1>8, <3>1
  <2>5. PICK i \in 1 .. n + 1 : FirstDecided(s) = s[i] /\ s[i] # 0 /\ \A j \in 1 .. i - 1 : s[j] = 0
    BY <1>7, <2>2, <2>3
  <2>6. ~(i \in 1 .. k - 1) /\ ~(k \in 1 .. i - 1)
    BY <2>3, <2>4, <2>5
  <2>7. i = k
    BY <1>1, <2>2, <2>6
  <2> QED BY <2>3, <2>5, <2>7
<1> QED BY <1>2, <1>10, <1>11

\* So is cmp of two paths.
LEMMA PathCmpWeak ==
  ASSUME NEW x \in Seq(Nat), NEW y \in Seq(Nat), NEW z \in Seq(Nat)
  PROVE  Weak(PathCmp(x, y), PathCmp(y, z), PathCmp(x, z))
<1>1. ASSUME NEW k \in Nat, NEW m \in Nat, LessAt(x, y, k), LessAt(y, z, m)
      PROVE  \E l \in Nat : LessAt(x, z, l)
  <2> DEFINE l == IF k < m THEN k ELSE m
  <2>1. /\ k \in 1 .. Len(y) /\ k - 1 <= Len(x) /\ Len(x) \in Nat /\ Len(y) \in Nat
        /\ \A j \in 1 .. k - 1 : x[j] = y[j]
        /\ k <= Len(x) => x[k] < y[k]
    BY <1>1 DEF LessAt
  <2>2. /\ m \in 1 .. Len(z) /\ m - 1 <= Len(y) /\ Len(z) \in Nat
        /\ \A j \in 1 .. m - 1 : y[j] = z[j]
        /\ m <= Len(y) => y[m] < z[m]
    BY <1>1 DEF LessAt
  <2>3. l \in Nat /\ l \in 1 .. Len(z) /\ l - 1 <= Len(x)
    BY <2>1, <2>2, SMTT(40)
  <2>4. \A j \in 1 .. l - 1 : x[j] = z[j]
    <3>1. \A j \in 1 .. l - 1 : j \in 1 .. k - 1 /\ j \in 1 .. m - 1
      BY <2>1, <2>2
    <3> QED BY <2>1, <2>2, <3>1
  <2>5. ASSUME l <= Len(x) PROVE x[l] < z[l]
    <3>1. CASE k < m
      <4>1. k \in 1 .. m - 1 /\ k <= Len(x) /\ l = k
        BY <2>1, <2>2, <2>5, <3>1
      <4> QED BY <2>1, <2>2, <4>1
    <3>2. CASE k = m
      <4>1. x[k] < y[k] /\ y[k] < z[k] /\ l = k
        BY <2>1, <2>2, <2>5, <3>2
      <4>2. x[k] \in Nat /\ y[k] \in Nat /\ z[k] \in Nat
        <5>1. k \in 1 .. Len(x) /\ k \in 1 .. Len(y) /\ k \in 1 .. Len(z)
          BY <2>1, <2>2, <2>5, <3>2
        <5> QED BY <5>1, ElementOfSeq
      <4> QED BY <4>1, <4>2, SMTT(40)
    <3>3. CASE m < k
      <4>1. m \in 1 .. k - 1 /\ m <= Len(y) /\ l = m
        BY <2>1, <2>2, <3>3
      <4> QED BY <2>1, <2>2, <4>1
    <3> QED BY <2>1, <2>2, <3>1, <3>2, <3>3
  <2> HIDE DEF l
  <2>6. LessAt(x, z, l)
    BY <2>3, <2>4, <2>5 DEF LessAt
  <2> QED BY <2>3, <2>6
<1>2. PathCmp(x, y) = -1 /\ PathCmp(y, z) = -1 => PathCmp(x, z) = -1
  <2>1. SUFFICES ASSUME PathCmp(x, y) = -1, PathCmp(y, z) = -1 PROVE PathCmp(x, z) = -1
    OBVIOUS
  <2>2. PICK k \in Nat : LessAt(x, y, k)
    BY <2>1, PathCmpLess
  <2>3. PICK m \in Nat : LessAt(y, z, m)
    BY <2>1, PathCmpLess
  <2>4. \E l \in Nat : LessAt(x, z, l)
    BY <1>1, <2>2, <2>3
  <2> QED BY <2>4, PathCmpLess
<1>3. /\ PathCmp(x, y) \in {-1, 0, 1} /\ PathCmp(y, z) \in {-1, 0, 1} /\ PathCmp(x, z) \in {-1, 0, 1}
      /\ (PathCmp(x, y) = 0 <=> x = y) /\ (PathCmp(y, z) = 0 <=> y = z)
      /\ (PathCmp(x, z) = 0 <=> x = z)
  BY PathCmpIs
<1> QED BY <1>2, <1>3 DEF Weak

\* So is cmp of two optional strings.
LEMMA OptNameCmpWeak ==
  ASSUME NEW x \in Opt(Nat), NEW y \in Opt(Nat), NEW z \in Opt(Nat)
  PROVE  Weak(OptNameCmp(x, y), OptNameCmp(y, z), OptNameCmp(x, z))
<1> DEFINE Val(o) == IF o = <<>> THEN 0 ELSE o[1] + 1
<1>1. ASSUME NEW l \in Opt(Nat), NEW r \in Opt(Nat)
      PROVE  OptNameCmp(l, r) = NameCmp(Val(l), Val(r)) /\ Val(l) \in Int
  <2>1. /\ Len(l) \in {0, 1} /\ (l = <<>> <=> Len(l) = 0) /\ (l # <<>> => l[1] \in Nat)
        /\ Len(r) \in {0, 1} /\ (r = <<>> <=> Len(r) = 0) /\ (r # <<>> => r[1] \in Nat)
    BY OptIs
  <2>2. CASE l = <<>> /\ r = <<>>
    BY <2>1, <2>2 DEF OptNameCmp, NameCmp
  <2>3. CASE l = <<>> /\ r # <<>>
    BY <2>1, <2>3 DEF OptNameCmp, NameCmp
  <2>4. CASE l # <<>> /\ r = <<>>
    BY <2>1, <2>4 DEF OptNameCmp, NameCmp
  <2>5. CASE l # <<>> /\ r # <<>>
    BY <2>1, <2>5 DEF OptNameCmp, NameCmp
  <2> QED BY <2>2, <2>3, <2>4, <2>5
<1> HIDE DEF Val
<1>2. /\ OptNameCmp(x, y) = NameCmp(Val(x), Val(y)) /\ OptNameCmp(y, z) = NameCmp(Val(y), Val(z))
      /\ OptNameCmp(x, z) = NameCmp(Val(x), Val(z))
      /\ Val(x) \in Int /\ Val(y) \in Int /\ Val(z) \in Int
  BY <1>1
<1> QED BY <1>2, NameCmpWeak

\* So is cmp of two optional paths.
LEMMA OptPathCmpWeak ==
  ASSUME NEW x \in Opt(Seq(Nat)), NEW y \in Opt(Seq(Nat)), NEW z \in Opt(Seq(Nat))
  PROVE  Weak(OptPathCmp(x, y), OptPathCmp(y, z), OptPathCmp(x, z))
<1>1. /\ Len(x) \in {0, 1} /\ (x = <<>> <=> Len(x) = 0) /\ (x # <<>> => x[1] \in Seq(Nat))
      /\ Len(y) \in {0, 1} /\ (y = <<>> <=> Len(y) = 0) /\ (y # <<>> => y[1] \in Seq(Nat))
      /\ Len(z) \in {0, 1} /\ (z = <<>> <=> Len(z) = 0) /\ (z # <<>> => z[1] \in Seq(Nat))
  BY OptIs
<1>2. CASE x # <<>> /\ y # <<>> /\ z # <<>>
  <2>1. /\ OptPathCmp(x, y) = PathCmp(x[1], y[1]) /\ OptPathCmp(y, z) = PathCmp(y[1], z[1])
        /\ OptPathCmp(x, z) = PathCmp(x[1], z[1])
    BY <1>2 DEF OptPathCmp
  <2> QED BY <1>1, <1>2, <2>1, PathCmpWeak
<1>3. CASE x = <<>> \/ y = <<>> \/ z = <<>>
  <2>1. /\ OptPathCmp(x, y) \in {-1, 0, 1} /\ OptPathCmp(y, z) \in {-1, 0, 1}
        /\ OptPathCmp(x, z) \in {-1, 0, 1}
    BY OptPathCmpIs
  <2>2. ASSUME NEW l \in {x, y, z}, NEW r \in {x, y, z}, l = <<>> \/ r = <<>>
        PROVE  OptPathCmp(l, r) = IF Len(l) < Len(r) THEN -1 ELSE IF Len(l) > Len(r) THEN 1 ELSE 0
    BY <2>2 DEF OptPathCmp, NameCmp
  <2>3. CASE x = <<>> /\ y # <<>> /\ z # <<>>
    BY <1>1, <2>1, <2>2, <2>3 DEF Weak
  <2>4. CASE y = <<>>
    BY <1>1, <2>1, <2>2, <2>4 DEF Weak
  <2>5. CASE x = <<>> /\ y # <<>> /\ z = <<>>
    BY <1>1, <2>1, <2>2, <2>5 DEF Weak
  <2>6. CASE x # <<>> /\ y # <<>> /\ z = <<>>
    BY <1>1, <2>1, <2>2, <2>6 DEF Weak
  <2> QED BY <1>3, <2>3, <2>4, <2>5, <2>6
<1> QED BY <1>2, <1>3

\* A strict prefix of a strict prefix is one.
LEMMA StrictPrefixTrans ==
  ASSUME NEW x \in Seq(Nat), NEW y \in Seq(Nat), NEW z \in Seq(Nat),
         IsStrictPrefix(x, y), IsStrictPrefix(y, z)
  PROVE  IsStrictPrefix(x, z)
<1>1. /\ Len(x) <= Len(y) /\ SubSeq(x, 1, Len(x)) = SubSeq(y, 1, Len(x)) /\ x # y
      /\ Len(y) <= Len(z) /\ SubSeq(y, 1, Len(y)) = SubSeq(z, 1, Len(y)) /\ y # z
  BY DEF IsStrictPrefix, IsPrefix
<1>2. /\ SubSeq(x, 1, Len(x)) = x /\ SubSeq(y, 1, Len(y)) = y
      /\ Len(x) \in Nat /\ Len(y) \in Nat /\ Len(z) \in Nat
  OBVIOUS
<1>3. SubSeq(y, 1, Len(x)) = SubSeq(z, 1, Len(x))
  <2>1. ASSUME NEW i \in 1 .. Len(x) PROVE y[i] = z[i]
    <3>1. i \in 1 .. Len(y)
      BY <1>1, <1>2
    <3>2. SubSeq(z, 1, Len(y))[i] = z[i]
      BY <1>1, <1>2, <3>1
    <3> QED BY <1>1, <1>2, <3>2
  <2>2. /\ SubSeq(y, 1, Len(x)) = [i \in 1 .. Len(x) |-> y[i]]
        /\ SubSeq(z, 1, Len(x)) = [i \in 1 .. Len(x) |-> z[i]]
    BY <1>1, <1>2
  <2> QED BY <2>1, <2>2
<1>4. x # z
  <2>1. SUFFICES ASSUME x = z PROVE FALSE
    OBVIOUS
  <2>2. Len(x) = Len(z)
    BY <2>1
  <2>3. Len(x) <= Len(y) /\ Len(y) <= Len(z)
    BY <1>1
  <2>4. Len(x) = Len(y)
    <3> DEFINE k == Len(x)
               l == Len(y)
               m == Len(z)
    <3>1. k \in Nat /\ l \in Nat /\ k = m /\ k <= l /\ l <= m
      BY <1>2, <2>2, <2>3
    <3> HIDE DEF k, l, m
    <3>2. k = l
      BY <3>1
    <3> QED BY <3>2 DEF k, l
  <2>5. SubSeq(y, 1, Len(x)) = y
    BY <1>2, <2>4
  <2> QED BY <1>1, <1>2, <2>5
<1> QED BY <1>1, <1>2, <1>3, <1>4 DEF IsStrictPrefix, IsPrefix

\* path_subset is transitive.
LEMMA PathSubsetTrans ==
  ASSUME NEW x \in Opt(Seq(Nat)), NEW y \in Opt(Seq(Nat)), NEW z \in Opt(Seq(Nat)),
         PathSubset(x, y) = -1, PathSubset(y, z) = -1
  PROVE  PathSubset(x, z) = -1
<1>1. /\ x # <<>> => x[1] \in Seq(Nat)
      /\ y # <<>> => y[1] \in Seq(Nat)
      /\ z # <<>> => z[1] \in Seq(Nat)
  BY OptIs
<1>2. x # <<>> /\ (y = <<>> \/ IsStrictPrefix(y[1], x[1]))
  BY DEF PathSubset, OptionOrd
<1>3. y # <<>> /\ (z = <<>> \/ IsStrictPrefix(z[1], y[1]))
  BY DEF PathSubset, OptionOrd
<1>4. CASE z = <<>>
  BY <1>2, <1>4 DEF PathSubset, OptionOrd
<1>5. CASE z # <<>>
  <2>1. IsStrictPrefix(z[1], x[1])
    BY <1>1, <1>2, <1>3, <1>5, StrictPrefixTrans
  <2> QED BY <1>2, <1>5, <2>1 DEF PathSubset
<1> QED BY <1>4, <1>5

\* With layered namespaces path_subset is a comparison with ties.
LEMMA PathSubsetWeak ==
  ASSUME Layered, NEW a \in Rules, NEW b \in Rules, NEW c \in Rules
  PROVE  Weak(PathSubset(a.ns, b.ns), PathSubset(b.ns, c.ns), PathSubset(a.ns, c.ns))
<1> DEFINE K(p, q) == PathSubset(p.ns, q.ns)
<1>1. ASSUME NEW p \in Rules, NEW q \in Rules
      PROVE  K(p, q) \in {-1, 0, 1} /\ K(p, q) = 0 - K(q, p)
  <2>1. p.ns \in Opt(Seq(Nat)) /\ q.ns \in Opt(Seq(Nat))
    BY RuleFields
  <2> QED BY <2>1, PathSubsetIs
<1>2. ASSUME NEW p \in Rules, NEW q \in Rules, NEW r \in Rules
      PROVE  /\ K(p, q) = -1 /\ K(q, r) = -1 => K(p, r) = -1
             /\ K(p, q) = 0 /\ K(q, r) = 0 => K(p, r) = 0
  <2>1. p.ns \in Opt(Seq(Nat)) /\ q.ns \in Opt(Seq(Nat)) /\ r.ns \in Opt(Seq(Nat))
    BY RuleFields
  <2> QED BY <2>1, PathSubsetTrans DEF Layered
<1> HIDE DEF K
<1>3. /\ K(a, b) \in {-1, 0, 1} /\ K(b, c) \in {-1, 0, 1} /\ K(a, c) \in {-1, 0, 1}
      /\ K(b, a) = 0 - K(a, b) /\ K(c, b) = 0 - K(b, c) /\ K(c, a) = 0 - K(a, c)
      /\ K(b, a) \in {-1, 0, 1} /\ K(c, b) \in {-1, 0, 1} /\ K(c, a) \in {-1, 0, 1}
  <2>1. \A p, q \in Rules : K(p, q) \in {-1, 0, 1} /\ K(p, q) = 0 - K(q, p)
    BY <1>1
  <2> QED BY <2>1
<1>4. /\ K(a, b) = -1 /\ K(b, c) = -1 => K(a, c) = -1
      /\ K(a, b) = 0 /\ K(b, c) = 0 => K(a, c) = 0
      /\ K(c, a) = -1 /\ K(a, b) = -1 => K(c, b) = -1
      /\ K(b, c) = -1 /\ K(c, a) = -1 => K(b, a) = -1
      /\ K(a, c) = 0 /\ K(c, b) = 0 => K(a, b) = 0
      /\ K(b, a) = 0 /\ K(a, c) = 0 => K(b, c) = 0
  BY <1>2
<1>5. Weak(K(a, b), K(b, c), K(a, c))
  BY <1>3, <1>4 DEF Weak
<1> QED BY <1>5 DEF K

\* Three lists of ten comparisons with ties.
LEMMA TenWeak ==
  ASSUME NEW x1, NEW x2, NEW x3, NEW x4, NEW x5, NEW x6, NEW x7, NEW x8, NEW x9, NEW x10,
         NEW y1, NEW y2, NEW y3, NEW y4, NEW y5, NEW y6, NEW y7, NEW y8, NEW y9, NEW y10,
         NEW z1, NEW z2, NEW z3, NEW z4, NEW z5, NEW z6, NEW z7, NEW z8, NEW z9, NEW z10,
         Weak(x1, y1, z1), Weak(x2, y2, z2), Weak(x3, y3, z3), Weak(x4, y4, z4), Weak(x5, y5, z5),
         Weak(x6, y6, z6), Weak(x7, y7, z7), Weak(x8, y8, z8), Weak(x9, y9, z9), Weak(x10, y10, z10)
  PROVE  \A i \in 1 .. 10 : Weak(<<x1, x2, x3, x4, x5, x6, x7, x8, x9, x10>>[i],
                                 <<y1, y2, y3, y4, y5, y6, y7, y8, y9, y10>>[i],
                                 <<z1, z2, z3, z4, z5, z6, z7, z8, z9, z10>>[i])
<1>1. \A i \in 1 .. 10 : \/ i = 1 \/ i = 2 \/ i = 3 \/ i = 4 \/ i = 5
                         \/ i = 6 \/ i = 7 \/ i = 8 \/ i = 9 \/ i = 10
  OBVIOUS
<1> QED BY <1>1

\* MatchRule's Ord (routing.rs:577) is transitive on any rules whose namespaces
\* are layered: there the hypothesis of the theorems below holds.
THEOREM LayeredIsTransitive == ASSUME Layered PROVE Transitive
<1>1. SUFFICES ASSUME NEW a \in Rules, NEW b \in Rules, NEW c \in Rules,
                      Order[a][b] = -1, Order[b][c] = -1
               PROVE  Order[a][c] = -1
  BY DEF Transitive
<1>2. /\ Order[a][b] = FirstDecided(Keys(a, b)) /\ Order[b][c] = FirstDecided(Keys(b, c))
      /\ Order[a][c] = FirstDecided(Keys(a, c))
  BY DEF Order, Cmp, Keys
<1>3. /\ Keys(a, b) \in [1 .. 10 -> {-1, 0, 1}] /\ Keys(b, c) \in [1 .. 10 -> {-1, 0, 1}]
      /\ Keys(a, c) \in [1 .. 10 -> {-1, 0, 1}]
  BY KeysFlip
<1>4. /\ a.sender \in Opt(Nat) /\ a.iface \in Opt(Nat) /\ a.member \in Opt(Nat)
      /\ a.path \in Opt(Seq(Nat)) /\ a.ns \in Opt(Seq(Nat))
      /\ b.sender \in Opt(Nat) /\ b.iface \in Opt(Nat) /\ b.member \in Opt(Nat)
      /\ b.path \in Opt(Seq(Nat)) /\ b.ns \in Opt(Seq(Nat))
      /\ c.sender \in Opt(Nat) /\ c.iface \in Opt(Nat) /\ c.member \in Opt(Nat)
      /\ c.path \in Opt(Seq(Nat)) /\ c.ns \in Opt(Seq(Nat))
  BY RuleFields
<1>5. /\ Weak(OptionOrd(a.sender, b.sender), OptionOrd(b.sender, c.sender), OptionOrd(a.sender, c.sender))
      /\ Weak(OptionOrd(a.path, b.path), OptionOrd(b.path, c.path), OptionOrd(a.path, c.path))
      /\ Weak(PathSubset(a.ns, b.ns), PathSubset(b.ns, c.ns), PathSubset(a.ns, c.ns))
      /\ Weak(OptionOrd(a.iface, b.iface), OptionOrd(b.iface, c.iface), OptionOrd(a.iface, c.iface))
      /\ Weak(OptionOrd(a.member, b.member), OptionOrd(b.member, c.member), OptionOrd(a.member, c.member))
  BY OptionOrdWeak, PathSubsetWeak
<1>6. /\ Weak(OptNameCmp(a.sender, b.sender), OptNameCmp(b.sender, c.sender), OptNameCmp(a.sender, c.sender))
      /\ Weak(OptPathCmp(a.path, b.path), OptPathCmp(b.path, c.path), OptPathCmp(a.path, c.path))
      /\ Weak(OptPathCmp(a.ns, b.ns), OptPathCmp(b.ns, c.ns), OptPathCmp(a.ns, c.ns))
      /\ Weak(OptNameCmp(a.iface, b.iface), OptNameCmp(b.iface, c.iface), OptNameCmp(a.iface, c.iface))
      /\ Weak(OptNameCmp(a.member, b.member), OptNameCmp(b.member, c.member), OptNameCmp(a.member, c.member))
  BY <1>4, OptNameCmpWeak, OptPathCmpWeak
<1>7. \A i \in 1 .. 10 : Weak(Keys(a, b)[i], Keys(b, c)[i], Keys(a, c)[i])
  BY <1>5, <1>6, TenWeak DEF Keys
<1> DEFINE n == 10
           x == Keys(a, b)
           y == Keys(b, c)
           z == Keys(a, c)
<1>8. /\ n \in Nat
      /\ x \in [1 .. n -> {-1, 0, 1}] /\ y \in [1 .. n -> {-1, 0, 1}] /\ z \in [1 .. n -> {-1, 0, 1}]
      /\ \A i \in 1 .. n : Weak(x[i], y[i], z[i])
      /\ FirstDecided(x) = -1 /\ FirstDecided(y) = -1
  <2>1. FirstDecided(x) = -1 /\ FirstDecided(y) = -1
    BY <1>1, <1>2
  <2> HIDE DEF x, y, z
  <2> QED BY <1>3, <1>7, <2>1 DEF x, y, z
<1> HIDE DEF n, x, y, z
<1>9. FirstDecided(z) = -1
  BY <1>8, FirstDecidedWeak
<1> QED BY <1>2, <1>9 DEF z

-----------------------------------------------------------------------------
(* The vector sig_matches                                                  *)

Entry == [rule : Rules, queue : Seq(Signals)]

InOrder(v) ==
  \A i, j \in 1 .. Len(v) : i < j => Order[v[i].rule][v[j].rule] = -1

HasRule(v, r) == \E i \in 1 .. Len(v) : v[i].rule = r

\* What an element of sig_matches holds.
LEMMA EntryRule ==
  ASSUME NEW v \in Seq(Entry), NEW i \in 1 .. Len(v)
  PROVE  v[i] \in Entry /\ v[i].rule \in Rules /\ v[i].queue \in Seq(Signals)
<1>1. v[i] \in Entry
  OBVIOUS
<1> QED BY <1>1 DEF Entry

\* Vec::remove, element by element.
LEMMA RemoveAtIs ==
  ASSUME NEW T, NEW v \in Seq(T), NEW i \in 1 .. Len(v)
  PROVE  /\ RemoveAt(v, i) \in Seq(T) /\ Len(RemoveAt(v, i)) = Len(v) - 1
         /\ \A j \in 1 .. Len(v) - 1 : RemoveAt(v, i)[j] = v[IF j < i THEN j ELSE j + 1]
<1> DEFINE l == SubSeq(v, 1, i - 1)
           r == SubSeq(v, i + 1, Len(v))
<1>1. l \in Seq(T) /\ Len(l) = i - 1 /\ \A j \in 1 .. i - 1 : l[j] = v[j]
  OBVIOUS
<1>2. r \in Seq(T) /\ Len(r) = Len(v) - i /\ \A j \in 1 .. Len(v) - i : r[j] = v[i + j]
  OBVIOUS
<1>3. RemoveAt(v, i) = l \o r
  BY DEF RemoveAt
<1> HIDE DEF l, r
<1>4. /\ l \o r \in Seq(T) /\ Len(l \o r) = Len(v) - 1
      /\ \A j \in 1 .. Len(v) - 1 : (l \o r)[j] = IF j < i THEN l[j] ELSE r[j - (i - 1)]
  <2>1. Len(l) + Len(r) = Len(v) - 1
    BY <1>1, <1>2
  <2>2. /\ l \o r \in Seq(T) /\ Len(l \o r) = Len(l) + Len(r)
        /\ \A j \in 1 .. Len(l) + Len(r) :
             (l \o r)[j] = IF j <= Len(l) THEN l[j] ELSE r[j - Len(l)]
    BY <1>1, <1>2, ConcatProperties
  <2>3. \A j \in 1 .. Len(v) - 1 : j <= Len(l) <=> j < i
    BY <1>1
  <2> QED BY <1>1, <2>1, <2>2, <2>3
<1>5. ASSUME NEW j \in 1 .. Len(v) - 1 PROVE (l \o r)[j] = v[IF j < i THEN j ELSE j + 1]
  <2>1. CASE j < i
    BY <1>1, <1>4, <2>1
  <2>2. CASE ~(j < i)
    <3>1. j - (i - 1) \in 1 .. Len(v) - i /\ i + (j - (i - 1)) = j + 1
      BY <2>2
    <3> QED BY <1>2, <1>4, <2>2, <3>1
  <2> QED BY <2>1, <2>2
<1> QED BY <1>3, <1>4, <1>5

\* Vec::insert, element by element.
LEMMA InsertAtIs ==
  ASSUME NEW T, NEW v \in Seq(T), NEW i \in 1 .. Len(v) + 1, NEW e \in T
  PROVE  /\ InsertAt(v, i, e) \in Seq(T) /\ Len(InsertAt(v, i, e)) = Len(v) + 1
         /\ \A j \in 1 .. Len(v) + 1 :
              InsertAt(v, i, e)[j] = IF j = i THEN e ELSE v[IF j < i THEN j ELSE j - 1]
<1> DEFINE l == SubSeq(v, 1, i - 1)
           r == SubSeq(v, i, Len(v))
           le == l \o <<e>>
<1>1. l \in Seq(T) /\ Len(l) = i - 1 /\ \A j \in 1 .. i - 1 : l[j] = v[j]
  OBVIOUS
<1>2. r \in Seq(T) /\ Len(r) = Len(v) - i + 1 /\ \A j \in 1 .. Len(v) - i + 1 : r[j] = v[i + j - 1]
  OBVIOUS
<1>3. InsertAt(v, i, e) = le \o r
  BY DEF InsertAt
<1> HIDE DEF l, r
<1>4. /\ le \in Seq(T) /\ Len(le) = i
      /\ \A j \in 1 .. i : le[j] = IF j = i THEN e ELSE l[j]
  <2>1. <<e>> \in Seq(T) /\ Len(<<e>>) = 1 /\ <<e>>[1] = e
    OBVIOUS
  <2>2. le \in Seq(T) /\ Len(le) = i
    BY <1>1, <2>1
  <2>3. \A j \in 1 .. i : le[j] = IF j <= i - 1 THEN l[j] ELSE <<e>>[j - (i - 1)]
    BY <1>1, <2>1
  <2>4. \A j \in 1 .. i : (j = i => ~(j <= i - 1) /\ j - (i - 1) = 1) /\ (j # i => j <= i - 1)
    OBVIOUS
  <2> HIDE DEF le
  <2> QED BY <2>1, <2>2, <2>3, <2>4
<1> HIDE DEF le
<1>5. /\ le \o r \in Seq(T) /\ Len(le \o r) = Len(v) + 1
      /\ \A j \in 1 .. Len(v) + 1 : (le \o r)[j] = IF j <= i THEN le[j] ELSE r[j - i]
  <2>1. Len(le) + Len(r) = Len(v) + 1
    BY <1>2, <1>4
  <2> QED BY <1>2, <1>4, <2>1, ConcatProperties
<1>6. ASSUME NEW j \in 1 .. Len(v) + 1
      PROVE  (le \o r)[j] = IF j = i THEN e ELSE v[IF j < i THEN j ELSE j - 1]
  <2>1. CASE j <= i
    <3>1. j \in 1 .. i
      BY <2>1
    <3>2. (le \o r)[j] = IF j = i THEN e ELSE l[j]
      BY <1>4, <1>5, <2>1, <3>1
    <3>3. j # i => j \in 1 .. i - 1 /\ j < i
      BY <3>1
    <3> QED BY <1>1, <3>2, <3>3
  <2>2. CASE ~(j <= i)
    <3>1. j - i \in 1 .. Len(v) - i + 1 /\ i + (j - i) - 1 = j - 1 /\ j # i /\ ~(j < i)
      BY <2>2
    <3> QED BY <1>2, <1>5, <2>2, <3>1
  <2> QED BY <2>1, <2>2
<1> QED BY <1>3, <1>5, <1>6

\* binary_search finds the rule itself.
LEMMA FoundIs ==
  ASSUME NEW v \in Seq(Entry), NEW r \in Rules, NEW i \in Found(v, r)
  PROVE  i \in 1 .. Len(v) /\ v[i].rule = r
<1>1. i \in 1 .. Len(v) /\ Order[v[i].rule][r] = 0
  BY DEF Found
<1>2. v[i].rule \in Rules
  BY <1>1, EntryRule
<1> QED BY <1>1, <1>2, OrderIs

\* A vector with the same rules in the same places is as well ordered.
LEMMA SameRules ==
  ASSUME NEW v \in Seq(Entry), NEW w \in Seq(Entry), Len(w) = Len(v), InOrder(v),
         \A i \in 1 .. Len(v) : w[i].rule = v[i].rule
  PROVE  InOrder(w) /\ \A r : HasRule(w, r) <=> HasRule(v, r)
<1>1. InOrder(w)
  BY DEF InOrder
<1>2. \A r : HasRule(w, r) <=> HasRule(v, r)
  BY DEF HasRule
<1> QED BY <1>1, <1>2

\* Removing a rule leaves the others in order.
LEMMA RemoveKeeps ==
  ASSUME NEW v \in Seq(Entry), InOrder(v), NEW i \in 1 .. Len(v)
  PROVE  /\ RemoveAt(v, i) \in Seq(Entry) /\ InOrder(RemoveAt(v, i))
         /\ \A r : HasRule(RemoveAt(v, i), r) <=> HasRule(v, r) /\ r # v[i].rule
<1> DEFINE w == RemoveAt(v, i)
           k(j) == IF j < i THEN j ELSE j + 1
<1>1. w \in Seq(Entry) /\ Len(w) = Len(v) - 1 /\ \A j \in 1 .. Len(v) - 1 : w[j] = v[k(j)]
  BY RemoveAtIs
<1>2. Len(v) \in Nat /\ \A j \in 1 .. Len(v) - 1 : k(j) \in 1 .. Len(v) /\ k(j) # i
  OBVIOUS
<1>3. \A j, l \in 1 .. Len(v) - 1 : j < l => k(j) < k(l)
  OBVIOUS
<1> HIDE DEF w
<1>4. InOrder(w)
  <2>1. SUFFICES ASSUME NEW j \in 1 .. Len(w), NEW l \in 1 .. Len(w), j < l
                 PROVE  Order[w[j].rule][w[l].rule] = -1
    BY DEF InOrder
  <2>2. w[j] = v[k(j)] /\ w[l] = v[k(l)] /\ k(j) \in 1 .. Len(v) /\ k(l) \in 1 .. Len(v) /\ k(j) < k(l)
    BY <1>1, <1>2, <1>3, <2>1
  <2> HIDE DEF k
  <2> QED BY <2>2 DEF InOrder
<1>5. ASSUME NEW j \in 1 .. Len(v), j # i PROVE v[j].rule # v[i].rule
  <2>1. v[j].rule \in Rules /\ v[i].rule \in Rules
    BY EntryRule
  <2>2. j < i \/ i < j
    BY <1>5
  <2>3. Order[v[j].rule][v[i].rule] = -1 \/ Order[v[i].rule][v[j].rule] = -1
    BY <2>2 DEF InOrder
  <2> QED BY <2>1, <2>3, OrderIs
<1>6. ASSUME NEW r PROVE HasRule(w, r) <=> HasRule(v, r) /\ r # v[i].rule
  <2>1. ASSUME HasRule(w, r) PROVE HasRule(v, r) /\ r # v[i].rule
    <3>1. PICK j \in 1 .. Len(w) : w[j].rule = r
      BY <2>1 DEF HasRule
    <3>2. w[j] = v[k(j)] /\ k(j) \in 1 .. Len(v) /\ k(j) # i
      BY <1>1, <1>2
    <3> HIDE DEF k
    <3> QED BY <1>5, <3>1, <3>2 DEF HasRule
  <2>2. ASSUME HasRule(v, r), r # v[i].rule PROVE HasRule(w, r)
    <3>1. PICK j \in 1 .. Len(v) : v[j].rule = r
      BY <2>2 DEF HasRule
    <3>2. j # i
      BY <2>2, <3>1
    <3> DEFINE l == IF j < i THEN j ELSE j - 1
    <3>3. l \in 1 .. Len(v) - 1 /\ k(l) = j
      BY <3>2
    <3>4. w[l] = v[j] /\ l \in 1 .. Len(w)
      BY <1>1, <3>3
    <3> HIDE DEF l
    <3> QED BY <3>1, <3>4 DEF HasRule
  <2> QED BY <2>1, <2>2
<1> QED BY <1>1, <1>4, <1>6 DEF w

\* When the comparison is an order, the place binary_search returns for a rule
\* it does not find separates the smaller rules from the greater ones.
LEMMA GapSplits ==
  ASSUME Transitive, NEW v \in Seq(Entry), InOrder(v), NEW r \in Rules, NEW i \in Gaps(v, r)
  PROVE  /\ i \in 1 .. Len(v) + 1
         /\ \A j \in 1 .. Len(v) : j < i => Order[v[j].rule][r] = -1
         /\ \A j \in 1 .. Len(v) : i <= j => Order[r][v[j].rule] = -1
         /\ ~HasRule(v, r)
<1>1. /\ i \in 1 .. Len(v) + 1 /\ Len(v) \in Nat
      /\ i > 1 => Order[v[i - 1].rule][r] = -1
      /\ i <= Len(v) => Order[v[i].rule][r] = 1
  BY DEF Gaps
<1>2. \A j \in 1 .. Len(v) : v[j].rule \in Rules
  BY EntryRule
<1>3. ASSUME NEW j \in 1 .. Len(v), j < i PROVE Order[v[j].rule][r] = -1
  <2>1. i > 1 /\ i - 1 \in 1 .. Len(v)
    BY <1>1, <1>3
  <2>2. CASE j = i - 1
    BY <1>1, <2>1, <2>2
  <2>3. CASE j < i - 1
    <3>1. Order[v[j].rule][v[i - 1].rule] = -1
      BY <2>1, <2>3 DEF InOrder
    <3> QED BY <1>1, <1>2, <2>1, <3>1 DEF Transitive
  <2> QED BY <1>1, <1>3, <2>2, <2>3
<1>4. ASSUME NEW j \in 1 .. Len(v), i <= j PROVE Order[r][v[j].rule] = -1
  <2>1. i \in 1 .. Len(v)
    BY <1>1, <1>4
  <2>2. Order[r][v[i].rule] = -1
    <3>1. Order[v[i].rule][r] = 1 /\ v[i].rule \in Rules
      BY <1>1, <1>2, <2>1
    <3>2. Order[v[i].rule][r] = 0 - Order[r][v[i].rule] /\ Order[r][v[i].rule] \in {-1, 0, 1}
      BY <3>1, OrderIs
    <3> QED BY <3>1, <3>2
  <2>3. CASE i = j
    BY <2>2, <2>3
  <2>4. CASE i < j
    <3>1. Order[v[i].rule][v[j].rule] = -1
      BY <2>1, <2>4 DEF InOrder
    <3> QED BY <1>2, <2>1, <2>2, <3>1 DEF Transitive
  <2> QED BY <1>1, <1>4, <2>3, <2>4
<1>5. ~HasRule(v, r)
  <2>1. SUFFICES ASSUME NEW j \in 1 .. Len(v), v[j].rule = r PROVE FALSE
    BY DEF HasRule
  <2>2. Order[r][r] = 0
    BY OrderIs
  <2>3. j < i \/ i <= j
    BY <1>1
  <2> QED BY <1>3, <1>4, <2>1, <2>2, <2>3
<1> QED BY <1>1, <1>3, <1>4, <1>5

\* Inserting a rule where binary_search says leaves the vector in order.
LEMMA InsertKeeps ==
  ASSUME Transitive, NEW v \in Seq(Entry), InOrder(v), NEW r \in Rules, NEW i \in Gaps(v, r),
         NEW e, e = [rule |-> r, queue |-> <<>>]
  PROVE  /\ InsertAt(v, i, e) \in Seq(Entry) /\ InOrder(InsertAt(v, i, e))
         /\ \A q : HasRule(InsertAt(v, i, e), q) <=> HasRule(v, q) \/ q = r
<1> DEFINE w == InsertAt(v, i, e)
           k(j) == IF j < i THEN j ELSE j - 1
<1>1. /\ i \in 1 .. Len(v) + 1
      /\ \A j \in 1 .. Len(v) : j < i => Order[v[j].rule][r] = -1
      /\ \A j \in 1 .. Len(v) : i <= j => Order[r][v[j].rule] = -1
  BY GapSplits
<1>2. e \in Entry /\ e.rule = r
  BY EmptySeq DEF Entry
<1>3. /\ w \in Seq(Entry) /\ Len(w) = Len(v) + 1
      /\ \A j \in 1 .. Len(v) + 1 : w[j] = IF j = i THEN e ELSE v[k(j)]
  BY <1>1, <1>2, InsertAtIs
<1> HIDE DEF w
<1>4. /\ Len(v) \in Nat /\ \A j \in 1 .. Len(v) + 1 : j # i => k(j) \in 1 .. Len(v)
      /\ \A j, l \in 1 .. Len(v) + 1 : j < l /\ j # i /\ l # i => k(j) < k(l)
      /\ \A j \in 1 .. Len(v) + 1 : j # i => (j < i <=> k(j) < i)
  BY <1>1
<1> HIDE DEF k
<1>5. InOrder(w)
  <2>1. SUFFICES ASSUME NEW j \in 1 .. Len(w), NEW l \in 1 .. Len(w), j < l
                 PROVE  Order[w[j].rule][w[l].rule] = -1
    BY DEF InOrder
  <2>2. j \in 1 .. Len(v) + 1 /\ l \in 1 .. Len(v) + 1
    BY <1>3
  <2>3. CASE j = i
    <3>1. l # i /\ w[j].rule = r /\ w[l] = v[k(l)] /\ k(l) \in 1 .. Len(v)
      BY <1>2, <1>3, <1>4, <2>1, <2>2, <2>3
    <3>2. i <= k(l)
      BY <1>1, <1>4, <2>1, <2>2, <2>3, <3>1
    <3> QED BY <1>1, <3>1, <3>2
  <2>4. CASE l = i
    <3>1. j # i /\ w[l].rule = r /\ w[j] = v[k(j)] /\ k(j) \in 1 .. Len(v)
      BY <1>2, <1>3, <1>4, <2>1, <2>2, <2>4
    <3>2. k(j) < i
      BY <1>4, <2>1, <2>2, <2>4, <3>1
    <3> QED BY <1>1, <3>1, <3>2
  <2>5. CASE j # i /\ l # i
    <3>1. /\ w[j] = v[k(j)] /\ k(j) \in 1 .. Len(v) /\ w[l] = v[k(l)] /\ k(l) \in 1 .. Len(v)
          /\ k(j) < k(l)
      BY <1>3, <1>4, <2>1, <2>2, <2>5
    <3> QED BY <3>1 DEF InOrder
  <2> QED BY <2>3, <2>4, <2>5
<1>6. ASSUME NEW q PROVE HasRule(w, q) <=> HasRule(v, q) \/ q = r
  <2>1. ASSUME HasRule(w, q) PROVE HasRule(v, q) \/ q = r
    <3>1. PICK j \in 1 .. Len(w) : w[j].rule = q
      BY <2>1 DEF HasRule
    <3>2. j \in 1 .. Len(v) + 1
      BY <1>3
    <3>3. CASE j = i
      BY <1>2, <1>3, <3>1, <3>2, <3>3
    <3>4. CASE j # i
      <4>1. w[j] = v[k(j)] /\ k(j) \in 1 .. Len(v)
        BY <1>3, <1>4, <3>2, <3>4
      <4> QED BY <3>1, <4>1 DEF HasRule
    <3> QED BY <3>3, <3>4
  <2>2. ASSUME HasRule(v, q) PROVE HasRule(w, q)
    <3>1. PICK j \in 1 .. Len(v) : v[j].rule = q
      BY <2>2 DEF HasRule
    <3> DEFINE l == IF j < i THEN j ELSE j + 1
    <3>2. l \in 1 .. Len(v) + 1 /\ l # i /\ k(l) = j
      BY <1>1, <1>4 DEF k
    <3>3. w[l] = v[j] /\ l \in 1 .. Len(w)
      BY <1>3, <3>2
    <3> HIDE DEF l
    <3> QED BY <3>1, <3>3 DEF HasRule
  <2>3. HasRule(w, r)
    <3>1. w[i] = e /\ i \in 1 .. Len(w)
      BY <1>1, <1>3
    <3> QED BY <1>2, <3>1 DEF HasRule
  <2> QED BY <2>1, <2>2, <2>3
<1> QED BY <1>3, <1>5, <1>6 DEF w

\* queue_sig stops at the first rule of the vector that matches the signal.
LEMMA FirstMatchIs ==
  ASSUME NEW v \in Seq(Entry), NEW s
  PROVE  \/ FirstMatch(v, s) = 0 /\ \A j \in 1 .. Len(v) : ~Matches(v[j].rule, s)
         \/ /\ FirstMatch(v, s) \in 1 .. Len(v) /\ Matches(v[FirstMatch(v, s)].rule, s)
            /\ \A j \in 1 .. Len(v) : j < FirstMatch(v, s) => ~Matches(v[j].rule, s)
<1> DEFINE I == {j \in 1 .. Len(v) : Matches(v[j].rule, s)}
<1>1. FirstMatch(v, s) = IF I = {} THEN 0 ELSE Min(I)
  BY DEF FirstMatch, SelectInSeq
<1>2. CASE I = {}
  BY <1>1, <1>2
<1>3. CASE I # {}
  <2>1. I \subseteq Nat
    OBVIOUS
  <2>2. Min(I) \in I /\ \A y \in I : Min(I) <= y
    <3> HIDE DEF I
    <3> QED BY <1>3, <2>1, LeastExists
  <2> DEFINE m == Min(I)
  <2>3. FirstMatch(v, s) = m /\ m \in I /\ \A y \in I : m <= y
    BY <1>1, <1>3, <2>2
  <2> HIDE DEF m
  <2>4. m \in 1 .. Len(v) /\ Matches(v[m].rule, s)
    BY <2>3
  <2>5. \A j \in 1 .. Len(v) : j < m => j \notin I
    BY <2>3, <2>4
  <2>6. \A j \in 1 .. Len(v) : j < m => ~Matches(v[j].rule, s)
    BY <2>5
  <2> QED BY <2>3, <2>4, <2>6
<1> QED BY <1>2, <1>3

\* the vector with another queue at its i-th rule
Requeued(v, i, q) == [v EXCEPT ![i].queue = q]

\* Replacing a rule's queue leaves the rules where they are.
LEMMA QueueChange ==
  ASSUME NEW v \in Seq(Entry), NEW i \in 1 .. Len(v), NEW q \in Seq(Signals)
  PROVE  /\ Requeued(v, i, q) \in Seq(Entry) /\ Len(Requeued(v, i, q)) = Len(v)
         /\ \A j \in 1 .. Len(v) : Requeued(v, i, q)[j].rule = v[j].rule
<1> DEFINE w == Requeued(v, i, q)
<1>1. v[i] \in Entry /\ v[i].rule \in Rules
  BY EntryRule
<1> DEFINE e == [v[i] EXCEPT !.queue = q]
<1>2. e \in Entry /\ e.rule = v[i].rule
  BY <1>1 DEF Entry
<1>3. w = [v EXCEPT ![i] = e]
  BY DEF Requeued
<1> HIDE DEF e, w
<1>4. w \in Seq(Entry) /\ Len(w) = Len(v)
  BY <1>2, <1>3
<1>5. \A j \in 1 .. Len(v) : w[j] = IF j = i THEN e ELSE v[j]
  BY <1>3
<1> QED BY <1>2, <1>4, <1>5 DEF w

-----------------------------------------------------------------------------
(* The invariant                                                           *)

Stages == {"idle", "adding", "added", "refused", "removing", "removed"}

\* What SigInv says of one rule
RuleOk(r) ==
  r \notin muddled =>
    /\ \A u \in Users : r \in req[u] =>
         /\ \A v \in Users : r \in req[v] => v = u
         /\ r \in Present <=> pc[u] \in {"adding", "added", "refused"}
         /\ daemon[r] = IF pc[u] \in {"added", "removing"} THEN 1 ELSE 0
    /\ (\A u \in Users : r \notin req[u]) => daemon[r] = IF r \in Present THEN 1 ELSE 0

\* Present is the rules of sig_matches.
LEMMA PresentIs ==
  /\ \A r : r \in Present <=> HasRule(matches, r)
  /\ \A r : r \in Present' <=> HasRule(matches', r)
BY DEF Present, HasRule

\* The invariant, rule by rule.
LEMMA InvParts ==
  SigInv <=> SigTypes /\ InOrder(matches) /\ \A r \in Rules : RuleOk(r)
<1>1. Sorted <=> InOrder(matches)
  BY DEF Sorted, InOrder
<1>2. ASSUME SigTypes PROVE InStep /\ SubscribedAtRest <=> \A r \in Rules : RuleOk(r)
  <2>1. \A u \in Users : req[u] \subseteq Rules
    BY <1>2 DEF SigTypes
  <2>2. ASSUME InStep, SubscribedAtRest, NEW r \in Rules PROVE RuleOk(r)
    BY <2>2 DEF InStep, SubscribedAtRest, RuleOk
  <2>3. ASSUME \A r \in Rules : RuleOk(r) PROVE SubscribedAtRest
    BY <2>3 DEF SubscribedAtRest, RuleOk
  <2>4. ASSUME \A r \in Rules : RuleOk(r) PROVE InStep
    BY <2>1, <2>4 DEF InStep, RuleOk
  <2> QED BY <2>2, <2>3, <2>4
<1> QED BY <1>1, <1>2 DEF SigInv

\* The invariant of the next state, rule by rule.
LEMMA InvPartsNext ==
  SigInv' <=> SigTypes' /\ InOrder(matches') /\ (\A r \in Rules : RuleOk(r)')
<1>1. Sorted' <=> InOrder(matches')
  BY DEF Sorted, InOrder
<1>2. ASSUME SigTypes' PROVE InStep' /\ SubscribedAtRest' <=> \A r \in Rules : RuleOk(r)'
  <2>1. \A u \in Users : req'[u] \subseteq Rules
    BY <1>2 DEF SigTypes
  <2>2. ASSUME InStep', SubscribedAtRest', NEW r \in Rules PROVE RuleOk(r)'
    BY <2>2 DEF InStep, SubscribedAtRest, RuleOk
  <2>3. ASSUME \A r \in Rules : RuleOk(r)' PROVE SubscribedAtRest'
    BY <2>3 DEF SubscribedAtRest, RuleOk
  <2>4. ASSUME \A r \in Rules : RuleOk(r)' PROVE InStep'
    BY <2>1, <2>4 DEF InStep, RuleOk
  <2> QED BY <2>2, <2>3, <2>4
<1> QED BY <1>1, <1>2 DEF SigInv

\* A step that leaves the operations under way, the daemon and the rules of
\* the list alone keeps what holds of each rule.
LEMMA QuietRules ==
  ASSUME \A r \in Rules : RuleOk(r), UNCHANGED <<pc, req, daemon, muddled>>,
         \A r : HasRule(matches', r) <=> HasRule(matches, r)
  PROVE  \A r \in Rules : RuleOk(r)'
<1>1. \A r : r \in Present' <=> r \in Present
  BY PresentIs
<1> QED BY <1>1 DEF RuleOk

\* A step of u's operation on r keeps what holds of the other rules.
LEMMA OtherRules ==
  ASSUME \A q \in Rules : RuleOk(q), NEW u \in Users, NEW r \in Rules, NEW q \in Rules, q # r,
         q \in Present' <=> q \in Present, daemon'[q] = daemon[q],
         \A v \in Users : q \in req'[v] <=> q \in req[v],
         \A v \in Users : v # u => pc'[v] = pc[v],
         q \notin req[u], muddled \subseteq muddled'
  PROVE  RuleOk(q)'
<1>1. SUFFICES ASSUME q \notin muddled'
               PROVE  /\ \A w \in Users : q \in req'[w] =>
                           /\ \A v \in Users : q \in req'[v] => v = w
                           /\ q \in Present' <=> pc'[w] \in {"adding", "added", "refused"}
                           /\ daemon'[q] = IF pc'[w] \in {"added", "removing"} THEN 1 ELSE 0
                      /\ (\A w \in Users : q \notin req'[w]) =>
                           daemon'[q] = IF q \in Present' THEN 1 ELSE 0
  BY DEF RuleOk
<1>2. RuleOk(q) /\ q \notin muddled
  BY <1>1
<1>3. ASSUME NEW w \in Users, q \in req'[w]
      PROVE  /\ \A v \in Users : q \in req'[v] => v = w
             /\ q \in Present' <=> pc'[w] \in {"adding", "added", "refused"}
             /\ daemon'[q] = IF pc'[w] \in {"added", "removing"} THEN 1 ELSE 0
  <2>1. q \in req[w] /\ w # u
    BY <1>3
  <2>2. pc'[w] = pc[w]
    BY <2>1
  <2> QED BY <1>2, <2>1, <2>2 DEF RuleOk
<1>4. ASSUME \A w \in Users : q \notin req'[w]
      PROVE  daemon'[q] = IF q \in Present' THEN 1 ELSE 0
  <2>1. \A w \in Users : q \notin req[w]
    BY <1>4
  <2> QED BY <1>2, <2>1 DEF RuleOk
<1> QED BY <1>3, <1>4

\* An operation that ends: u has no rule any more.
LEMMA EndTypes ==
  ASSUME SigTypes, NEW u \in Users, pc' = [pc EXCEPT ![u] = "idle"],
         req' = [req EXCEPT ![u] = {}]
  PROVE  /\ pc' \in [Users -> Stages] /\ req' \in [Users -> SUBSET Rules]
         /\ \A v \in Users : /\ pc'[v] = "idle" <=> req'[v] = {}
                             /\ \A r, q \in req'[v] : r = q
         /\ \A v \in Users : v # u => pc'[v] = pc[v] /\ req'[v] = req[v]
         /\ req'[u] = {}
<1>1. /\ \A v \in Users : v # u => pc'[v] = pc[v] /\ req'[v] = req[v]
      /\ req'[u] = {} /\ pc'[u] = "idle"
  BY DEF SigTypes
<1>2. pc' \in [Users -> Stages] /\ req' \in [Users -> SUBSET Rules]
  BY DEF SigTypes, Stages
<1>3. ASSUME NEW v \in Users
      PROVE  (pc'[v] = "idle" <=> req'[v] = {}) /\ \A r, q \in req'[v] : r = q
  BY <1>1 DEF SigTypes
<1> QED BY <1>1, <1>2, <1>3

\* An operation that begins: u has the one rule r, and r is muddled when
\* another user has it too.
LEMMA BeginTypes ==
  ASSUME SigTypes, NEW u \in Users, NEW r \in Rules, NEW op \in Stages \ {"idle"},
         Begin(u, r, op), pc[u] = "idle"
  PROVE  /\ pc' \in [Users -> Stages] /\ req' \in [Users -> SUBSET Rules]
         /\ \A v \in Users : /\ pc'[v] = "idle" <=> req'[v] = {}
                             /\ \A x, y \in req'[v] : x = y
         /\ \A v \in Users : v # u => pc'[v] = pc[v] /\ req'[v] = req[v]
         /\ req'[u] = {r} /\ req[u] = {} /\ pc'[u] = op
         /\ muddled \subseteq muddled' /\ muddled' \subseteq Rules
         /\ r \notin muddled' => r \notin muddled /\ \A v \in Users : r \notin req[v]
<1>1. /\ \A v \in Users : v # u => pc'[v] = pc[v] /\ req'[v] = req[v]
      /\ req'[u] = {r} /\ pc'[u] = op
  BY DEF SigTypes, Begin
<1>2. pc' \in [Users -> Stages] /\ req' \in [Users -> SUBSET Rules]
  BY DEF SigTypes, Stages, Begin
<1>3. ASSUME NEW v \in Users
      PROVE  (pc'[v] = "idle" <=> req'[v] = {}) /\ \A x, y \in req'[v] : x = y
  <2>1. CASE v = u
    BY <1>1, <2>1
  <2>2. CASE v # u
    BY <1>1, <2>2 DEF SigTypes
  <2> QED BY <2>1, <2>2
<1>4. req[u] = {}
  BY DEF SigTypes
<1>5. /\ muddled \subseteq muddled' /\ muddled' \subseteq Rules
      /\ r \notin muddled' => r \notin muddled /\ \A v \in Users : r \notin req[v]
  BY DEF SigTypes, Begin
<1> QED BY <1>1, <1>2, <1>3, <1>4, <1>5

\* sig_matches.remove(i) takes the rule away and leaves the others in order.
LEMMA RemoveAtIdxIs ==
  ASSUME SigTypes, InOrder(matches), NEW r \in Rules, NEW i \in Found(matches, r),
         RemoveAtIdx(i)
  PROVE  /\ matches' \in Seq(Entry) /\ InOrder(matches')
         /\ \A q : HasRule(matches', q) <=> HasRule(matches, q) /\ q # r
         /\ HasRule(matches, r)
         /\ fate' \in [Signals -> {"unsent", "dropped", "queued", "taken", "discarded"}]
<1>1. matches \in Seq(Entry)
  BY DEF SigTypes, Entry
<1>2. i \in 1 .. Len(matches) /\ matches[i].rule = r
  BY <1>1, FoundIs
<1>3. HasRule(matches, r)
  BY <1>2 DEF HasRule
<1>4. matches' = RemoveAt(matches, i)
  BY DEF RemoveAtIdx
<1>5. fate' \in [Signals -> {"unsent", "dropped", "queued", "taken", "discarded"}]
  BY DEF RemoveAtIdx, SigTypes
<1> QED BY <1>1, <1>2, <1>3, <1>4, <1>5, RemoveKeeps

Fates == {"unsent", "dropped", "queued", "taken", "discarded"}

\* A step that moves signals only: the rules stay where they are.
LEMMA SignalStep ==
  ASSUME SigInv, UNCHANGED <<pc, req, daemon, muddled>>,
         matches' \in Seq(Entry), Len(matches') = Len(matches),
         \A i \in 1 .. Len(matches) : matches'[i].rule = matches[i].rule,
         fate' \in [Signals -> Fates], to' \in [Signals -> SUBSET Rules]
  PROVE  SigInv'
<1>1. SigTypes /\ InOrder(matches) /\ \A r \in Rules : RuleOk(r)
  BY InvParts
<1>2. matches \in Seq(Entry)
  BY <1>1 DEF SigTypes, Entry
<1>3. InOrder(matches') /\ \A r : HasRule(matches', r) <=> HasRule(matches, r)
  BY <1>1, <1>2, SameRules
<1>4. \A r \in Rules : RuleOk(r)'
  BY <1>1, <1>3, QuietRules
<1>5. SigTypes'
  BY <1>1 DEF SigTypes, Entry, Fates
<1> QED BY <1>3, <1>4, <1>5, InvPartsNext

\* A step of u's operation on r: it is enough to look at r.
LEMMA OperationStep ==
  ASSUME SigInv, NEW u \in Users, NEW r \in Rules,
         SigTypes', InOrder(matches'), RuleOk(r)',
         \A q \in Rules : q # r => (HasRule(matches', q) <=> HasRule(matches, q)),
         \A q \in Rules : q # r => daemon'[q] = daemon[q],
         \A v \in Users : v # u => pc'[v] = pc[v] /\ req'[v] = req[v],
         req[u] \subseteq {r}, req'[u] \subseteq {r}, muddled \subseteq muddled'
  PROVE  SigInv'
<1>1. \A q \in Rules : RuleOk(q)
  BY InvParts
<1>2. ASSUME NEW q \in Rules, q # r PROVE RuleOk(q)'
  <2>1. q \in Present' <=> q \in Present
    BY <1>2, PresentIs
  <2>2. q \notin req[u] /\ q \notin req'[u]
    BY <1>2
  <2>3. \A v \in Users : q \in req'[v] <=> q \in req[v]
    BY <2>2
  <2>4. \A v \in Users : v # u => pc'[v] = pc[v]
    OBVIOUS
  <2> QED BY <1>1, <1>2, <2>1, <2>2, <2>3, <2>4, OtherRules
<1>3. \A q \in Rules : RuleOk(q)'
  BY <1>2
<1> QED BY <1>3, InvPartsNext

\* queue_sig appends to one rule's queue.
LEMMA ReadOtherKeeps ==
  ASSUME SigInv, NEW s \in Signals, ReadOther(s)
  PROVE  SigInv'
<1>1. SigTypes /\ matches \in Seq(Entry)
  BY DEF SigInv, SigTypes, Entry
<1>2. UNCHANGED <<pc, req, daemon, muddled>>
  BY DEF ReadOther
<1> DEFINE i == FirstMatch(matches, s)
<1>3. CASE i = 0
  <2>1. matches' = matches /\ to' = to /\ fate' = [fate EXCEPT ![s] = "dropped"]
    BY <1>3 DEF ReadOther
  <2>2. fate' \in [Signals -> Fates] /\ to' \in [Signals -> SUBSET Rules]
    BY <1>1, <2>1 DEF SigTypes, Fates
  <2> QED BY <1>1, <1>2, <2>1, <2>2, SignalStep
<1>4. CASE i # 0
  <2>1. i \in 1 .. Len(matches)
    BY <1>1, <1>4, FirstMatchIs
  <2> HIDE DEF i
  <2>2. /\ matches' = [matches EXCEPT ![i].queue = Append(@, s)]
        /\ fate' = [fate EXCEPT ![s] = "queued"]
        /\ to' = [to EXCEPT ![s] = {matches[i].rule}]
    BY <1>4 DEF ReadOther, i
  <2>3. matches[i] \in Entry /\ matches[i].rule \in Rules /\ matches[i].queue \in Seq(Signals)
    BY <1>1, <2>1, EntryRule
  <2>4. fate' \in [Signals -> Fates] /\ to' \in [Signals -> SUBSET Rules]
    BY <1>1, <2>2, <2>3 DEF SigTypes, Fates
  <2>5. Append(matches[i].queue, s) \in Seq(Signals)
    BY <2>3
  <2>6. /\ matches' \in Seq(Entry) /\ Len(matches') = Len(matches)
        /\ \A j \in 1 .. Len(matches) : matches'[j].rule = matches[j].rule
    <3>1. matches' = Requeued(matches, i, Append(matches[i].queue, s))
      BY <2>2 DEF Requeued
    <3> QED BY <1>1, <2>1, <2>5, <3>1, QueueChange
  <2> QED BY <1>2, <2>4, <2>6, SignalStep
<1> QED BY <1>3, <1>4

\* get_signal takes the oldest signal of its queue.
LEMMA TakeQueuedKeeps ==
  ASSUME SigInv, NEW r \in Rules, TakeQueued(r)
  PROVE  SigInv'
<1>1. SigTypes /\ matches \in Seq(Entry)
  BY DEF SigInv, SigTypes, Entry
<1>2. PICK i \in Found(matches, r) :
        /\ matches[i].queue # <<>>
        /\ fate' = [fate EXCEPT ![Head(matches[i].queue)] = "taken"]
        /\ matches' = [matches EXCEPT ![i].queue = Tail(@)]
  BY DEF TakeQueued
<1>3. i \in 1 .. Len(matches)
  BY <1>1, FoundIs
<1>4. matches[i].queue \in Seq(Signals)
  BY <1>1, <1>3, EntryRule
<1>5. Tail(matches[i].queue) \in Seq(Signals)
  BY <1>2, <1>4
<1>6. /\ matches' \in Seq(Entry) /\ Len(matches') = Len(matches)
      /\ \A j \in 1 .. Len(matches) : matches'[j].rule = matches[j].rule
  <2>1. matches' = Requeued(matches, i, Tail(matches[i].queue))
    BY <1>2 DEF Requeued
  <2> QED BY <1>1, <1>3, <1>5, <2>1, QueueChange
<1>7. fate' \in [Signals -> Fates] /\ to' \in [Signals -> SUBSET Rules]
  BY <1>1, <1>2 DEF SigTypes, Fates, TakeQueued
<1>8. UNCHANGED <<pc, req, daemon, muddled>>
  BY DEF TakeQueued
<1> QED BY <1>6, <1>7, <1>8, SignalStep

\* get_signal reads its signal from the socket.
LEMMA ReadMineKeeps ==
  ASSUME SigInv, NEW r \in Rules, NEW s \in Signals, ReadMine(r, s)
  PROVE  SigInv'
<1>1. SigTypes /\ matches \in Seq(Entry)
  BY DEF SigInv, SigTypes, Entry
<1>2. matches' = matches /\ UNCHANGED <<pc, req, daemon, muddled>>
  BY DEF ReadMine
<1>3. fate' \in [Signals -> Fates]
  BY <1>1 DEF ReadMine, SigTypes, Fates
<1>4. to' \in [Signals -> SUBSET Rules]
  BY <1>1 DEF ReadMine, SigTypes
<1> QED BY <1>1, <1>2, <1>3, <1>4, SignalStep

\* get_signal's bookkeeping: the futures that wait are no part of the invariant.
LEMMA WaitingKeeps ==
  ASSUME SigInv, UNCHANGED <<matches, pc, req, daemon, fate, to, muddled>>
  PROVE  SigInv'
<1>1. SigTypes /\ matches \in Seq(Entry)
  BY DEF SigInv, SigTypes, Entry
<1>2. fate' \in [Signals -> Fates] /\ to' \in [Signals -> SUBSET Rules]
  BY <1>1 DEF SigTypes, Fates
<1> QED BY <1>1, <1>2, SignalStep

\* insert_sig_match under the lock: the daemon does not have the rule yet.
LEMMA InsertLocalKeeps ==
  ASSUME Transitive, SigInv, NEW u \in Users, NEW r \in Rules, InsertLocal(u, r)
  PROVE  SigInv'
<1>1. SigTypes /\ InOrder(matches) /\ RuleOk(r) /\ matches \in Seq(Entry)
  BY InvParts DEF SigTypes, Entry
<1>2. pc[u] = "idle" /\ Begin(u, r, "adding") /\ UNCHANGED <<waiting, daemon, fate, to>>
  BY DEF InsertLocal
<1>3. PICK i \in Gaps(matches, r) :
        matches' = InsertAt(matches, i, [rule |-> r, queue |-> <<>>])
  BY DEF InsertLocal
<1>4. /\ matches' \in Seq(Entry) /\ InOrder(matches')
      /\ \A q : HasRule(matches', q) <=> HasRule(matches, q) \/ q = r
  BY <1>1, <1>3, InsertKeeps
<1>5. ~HasRule(matches, r)
  BY <1>1, <1>3, GapSplits
<1>6. "adding" \in Stages \ {"idle"}
  BY DEF Stages
<1>7. /\ pc' \in [Users -> Stages] /\ req' \in [Users -> SUBSET Rules]
      /\ \A v \in Users : /\ pc'[v] = "idle" <=> req'[v] = {}
                          /\ \A x, y \in req'[v] : x = y
      /\ \A v \in Users : v # u => pc'[v] = pc[v] /\ req'[v] = req[v]
      /\ req'[u] = {r} /\ req[u] = {} /\ pc'[u] = "adding"
      /\ muddled \subseteq muddled' /\ muddled' \subseteq Rules
      /\ r \notin muddled' => r \notin muddled /\ \A v \in Users : r \notin req[v]
  BY <1>1, <1>2, <1>6, BeginTypes
<1>8. SigTypes'
  BY <1>1, <1>2, <1>4, <1>7 DEF SigTypes, Entry, Stages
<1>9. RuleOk(r)'
  <2>1. SUFFICES ASSUME r \notin muddled'
                 PROVE  /\ \A v \in Users : r \in req'[v] => v = u
                        /\ r \in Present' /\ daemon'[r] = 0
    BY <1>7 DEF RuleOk
  <2>2. \A v \in Users : r \in req'[v] => v = u
    BY <1>7, <2>1
  <2>3. r \in Present' /\ r \notin Present
    BY <1>4, <1>5, PresentIs
  <2>4. daemon[r] = 0
    BY <1>1, <1>7, <2>1, <2>3 DEF RuleOk
  <2> QED BY <1>2, <2>2, <2>3, <2>4
<1> QED BY <1>2, <1>4, <1>7, <1>8, <1>9, OperationStep

\* remove_sig_match under the lock: the daemon still has the rule.
LEMMA RemoveLocalKeeps ==
  ASSUME SigInv, NEW u \in Users, NEW r \in Rules, RemoveLocal(u, r)
  PROVE  SigInv'
<1>1. SigTypes /\ InOrder(matches) /\ RuleOk(r)
  BY InvParts
<1>2. pc[u] = "idle" /\ Begin(u, r, "removing") /\ UNCHANGED <<daemon, to>>
  BY DEF RemoveLocal
<1>3. PICK i \in Found(matches, r) : RemoveAtIdx(i)
  BY DEF RemoveLocal
<1>4. /\ matches' \in Seq(Entry) /\ InOrder(matches')
      /\ \A q : HasRule(matches', q) <=> HasRule(matches, q) /\ q # r
      /\ HasRule(matches, r)
      /\ fate' \in [Signals -> {"unsent", "dropped", "queued", "taken", "discarded"}]
  BY <1>1, <1>3, RemoveAtIdxIs
<1>6. "removing" \in Stages \ {"idle"}
  BY DEF Stages
<1>7. /\ pc' \in [Users -> Stages] /\ req' \in [Users -> SUBSET Rules]
      /\ \A v \in Users : /\ pc'[v] = "idle" <=> req'[v] = {}
                          /\ \A x, y \in req'[v] : x = y
      /\ \A v \in Users : v # u => pc'[v] = pc[v] /\ req'[v] = req[v]
      /\ req'[u] = {r} /\ req[u] = {} /\ pc'[u] = "removing"
      /\ muddled \subseteq muddled' /\ muddled' \subseteq Rules
      /\ r \notin muddled' => r \notin muddled /\ \A v \in Users : r \notin req[v]
  BY <1>1, <1>2, <1>6, BeginTypes
<1>8. SigTypes'
  BY <1>1, <1>2, <1>4, <1>7 DEF SigTypes, Entry, Stages
<1>9. RuleOk(r)'
  <2>1. SUFFICES ASSUME r \notin muddled'
                 PROVE  /\ \A v \in Users : r \in req'[v] => v = u
                        /\ r \notin Present' /\ daemon'[r] = 1
    BY <1>7 DEF RuleOk
  <2>2. \A v \in Users : r \in req'[v] => v = u
    BY <1>7, <2>1
  <2>3. r \notin Present' /\ r \in Present
    BY <1>4, PresentIs
  <2>4. daemon[r] = 1
    BY <1>1, <1>7, <2>1, <2>3 DEF RuleOk
  <2> QED BY <1>2, <2>2, <2>3, <2>4
<1> QED BY <1>2, <1>4, <1>7, <1>8, <1>9, OperationStep

\* The daemon answers AddMatch or RemoveMatch.
LEMMA DaemonKeeps ==
  ASSUME SigInv, NEW u \in Users, Daemon(u)
  PROVE  SigInv'
<1>1. SigTypes /\ InOrder(matches) /\ \A r \in Rules : RuleOk(r)
  BY InvParts
<1>2. UNCHANGED <<matches, waiting, req, fate, to, muddled>>
  BY DEF Daemon
<1>3. PICK r \in req[u] :
        \/ /\ pc[u] = "adding"
           /\ daemon' = [daemon EXCEPT ![r] = @ + 1]
           /\ pc' = [pc EXCEPT ![u] = "added"]
        \/ /\ pc[u] = "adding" /\ CanRefuse
           /\ pc' = [pc EXCEPT ![u] = "refused"]
           /\ UNCHANGED daemon
        \/ /\ pc[u] = "removing"
           /\ daemon' = [daemon EXCEPT ![r] = IF @ = 0 THEN 0 ELSE @ - 1]
           /\ pc' = [pc EXCEPT ![u] = "removed"]
  BY DEF Daemon
<1>4. r \in Rules /\ req[u] = {r} /\ daemon[r] \in Nat
  BY <1>1, <1>3 DEF SigTypes
<1>5. /\ pc' \in [Users -> Stages] /\ pc'[u] # "idle" /\ pc[u] # "idle"
      /\ \A v \in Users : v # u => pc'[v] = pc[v]
  <2>1. PICK l \in {"added", "refused", "removed"} : pc' = [pc EXCEPT ![u] = l]
    BY <1>3
  <2>2. pc \in [Users -> Stages] /\ l \in Stages /\ l # "idle"
    BY <1>1 DEF SigTypes, Stages
  <2>3. pc[u] # "idle"
    BY <1>3
  <2> QED BY <2>1, <2>2, <2>3
<1>6. /\ daemon' \in [Rules -> Nat]
      /\ \A q \in Rules : q # r => daemon'[q] = daemon[q]
  BY <1>1, <1>3, <1>4 DEF SigTypes
<1>7. SigTypes'
  <2>1. \A v \in Users : pc'[v] = "idle" <=> req[v] = {}
    BY <1>1, <1>4, <1>5 DEF SigTypes
  <2> QED BY <1>1, <1>2, <1>5, <1>6, <2>1 DEF SigTypes, Stages
<1>8. RuleOk(r)'
  <2>1. SUFFICES ASSUME r \notin muddled
                 PROVE  /\ \A v \in Users : r \in req[v] => v = u
                        /\ r \in Present' <=> pc'[u] \in {"adding", "added", "refused"}
                        /\ daemon'[r] = IF pc'[u] \in {"added", "removing"} THEN 1 ELSE 0
    BY <1>2, <1>3 DEF RuleOk
  <2>2. Present' = Present
    BY <1>2 DEF Present
  <2>3. /\ \A v \in Users : r \in req[v] => v = u
        /\ r \in Present <=> pc[u] \in {"adding", "added", "refused"}
        /\ daemon[r] = IF pc[u] \in {"added", "removing"} THEN 1 ELSE 0
    BY <1>1, <1>3, <1>4, <2>1 DEF RuleOk
  <2> QED BY <1>1, <1>3, <1>4, <2>2, <2>3 DEF SigTypes
<1> QED BY <1>1, <1>2, <1>4, <1>5, <1>6, <1>7, <1>8, OperationStep

\* A reply ends the operation.
LEMMA DoneKeeps ==
  ASSUME SigInv, NEW u \in Users, InsertOk(u) \/ RemoveDone(u)
  PROVE  SigInv'
<1>1. SigTypes /\ InOrder(matches) /\ \A r \in Rules : RuleOk(r)
  BY InvParts
<1>2. /\ UNCHANGED <<matches, waiting, daemon, fate, to, muddled>>
      /\ pc' = [pc EXCEPT ![u] = "idle"] /\ req' = [req EXCEPT ![u] = {}]
      /\ pc[u] \in {"added", "removed"}
  BY DEF InsertOk, RemoveDone
<1>3. /\ pc' \in [Users -> Stages] /\ req' \in [Users -> SUBSET Rules]
      /\ \A v \in Users : /\ pc'[v] = "idle" <=> req'[v] = {}
                          /\ \A r, q \in req'[v] : r = q
      /\ \A v \in Users : v # u => pc'[v] = pc[v] /\ req'[v] = req[v]
      /\ req'[u] = {}
  BY <1>1, <1>2, EndTypes
<1>4. PICK r \in req[u] : TRUE
  BY <1>1, <1>2 DEF SigTypes
<1>5. r \in Rules /\ req[u] = {r}
  BY <1>1, <1>4 DEF SigTypes
<1>6. SigTypes'
  BY <1>1, <1>2, <1>3 DEF SigTypes, Stages
<1>7. RuleOk(r)'
  <2>1. SUFFICES ASSUME r \notin muddled
                 PROVE  /\ \A v \in Users : r \notin req'[v]
                        /\ daemon[r] = IF r \in Present THEN 1 ELSE 0
    BY <1>2 DEF RuleOk, Present
  <2>2. /\ \A v \in Users : r \in req[v] => v = u
        /\ r \in Present <=> pc[u] \in {"adding", "added", "refused"}
        /\ daemon[r] = IF pc[u] \in {"added", "removing"} THEN 1 ELSE 0
    BY <1>1, <1>4, <1>5, <2>1 DEF RuleOk
  <2> QED BY <1>2, <1>3, <2>2
<1> QED BY <1>1, <1>2, <1>3, <1>5, <1>6, <1>7, OperationStep

\* The daemon refused: the rule that was put in the list is taken out again.
LEMMA InsertRefusedKeeps ==
  ASSUME Transitive, SigInv, NEW u \in Users, InsertRefused(u)
  PROVE  SigInv'
<1>1. SigTypes /\ InOrder(matches) /\ (\A r \in Rules : RuleOk(r)) /\ matches \in Seq(Entry)
  BY InvParts DEF SigTypes, Entry
<1>2. /\ UNCHANGED <<daemon, to, muddled>> /\ pc[u] = "refused"
      /\ pc' = [pc EXCEPT ![u] = "idle"] /\ req' = [req EXCEPT ![u] = {}]
  BY DEF InsertRefused
<1>3. /\ pc' \in [Users -> Stages] /\ req' \in [Users -> SUBSET Rules]
      /\ \A v \in Users : /\ pc'[v] = "idle" <=> req'[v] = {}
                          /\ \A r, q \in req'[v] : r = q
      /\ \A v \in Users : v # u => pc'[v] = pc[v] /\ req'[v] = req[v]
      /\ req'[u] = {}
  BY <1>1, <1>2, EndTypes
<1>4. PICK r \in req[u] :
        \/ \E i \in Found(matches, r) : RemoveAtIdx(i)
        \/ Gaps(matches, r) # {} /\ UNCHANGED <<matches, waiting, fate>>
  BY DEF InsertRefused
<1>5. r \in Rules /\ req[u] = {r}
  BY <1>1, <1>4 DEF SigTypes
<1>6. \/ /\ matches' \in Seq(Entry) /\ InOrder(matches')
         /\ \A q : HasRule(matches', q) <=> HasRule(matches, q) /\ q # r
         /\ fate' \in [Signals -> {"unsent", "dropped", "queued", "taken", "discarded"}]
      \/ /\ ~HasRule(matches, r) /\ UNCHANGED <<matches, fate>>
  <2>1. CASE \E i \in Found(matches, r) : RemoveAtIdx(i)
    BY <1>1, <1>5, <2>1, RemoveAtIdxIs
  <2>2. CASE Gaps(matches, r) # {} /\ UNCHANGED <<matches, waiting, fate>>
    BY <1>1, <1>5, <2>2, GapSplits
  <2> QED BY <1>4, <2>1, <2>2
<1>7. /\ InOrder(matches') /\ ~HasRule(matches', r)
      /\ \A q : q # r => (HasRule(matches', q) <=> HasRule(matches, q))
  BY <1>1, <1>6
<1>8. SigTypes'
  <2>1. /\ matches' \in Seq([rule : Rules, queue : Seq(Signals)])
        /\ fate' \in [Signals -> {"unsent", "dropped", "queued", "taken", "discarded"}]
    BY <1>1, <1>6 DEF SigTypes, Entry
  <2> QED BY <1>1, <1>2, <1>3, <2>1 DEF SigTypes, Stages
<1>9. RuleOk(r)'
  <2>1. SUFFICES ASSUME r \notin muddled
                 PROVE  /\ \A v \in Users : r \notin req'[v]
                        /\ daemon[r] = 0 /\ r \notin Present'
    BY <1>2 DEF RuleOk
  <2>2. /\ \A v \in Users : r \in req[v] => v = u
        /\ daemon[r] = IF pc[u] \in {"added", "removing"} THEN 1 ELSE 0
    BY <1>1, <1>4, <1>5, <2>1 DEF RuleOk
  <2> QED BY <1>2, <1>3, <1>7, <2>2, PresentIs
<1> QED BY <1>2, <1>3, <1>5, <1>7, <1>8, <1>9, OperationStep

\* An operation that is cut short leaves its rule muddled.
LEMMA CutShortKeeps ==
  ASSUME SigInv, NEW u \in Users, CutShort(u)
  PROVE  SigInv'
<1>1. SigTypes /\ InOrder(matches) /\ \A r \in Rules : RuleOk(r)
  BY InvParts
<1>2. /\ UNCHANGED <<matches, waiting, fate, to>> /\ muddled' = muddled \cup req[u]
      /\ pc' = [pc EXCEPT ![u] = "idle"] /\ req' = [req EXCEPT ![u] = {}]
  BY DEF CutShort
<1>3. /\ pc' \in [Users -> Stages] /\ req' \in [Users -> SUBSET Rules]
      /\ \A v \in Users : /\ pc'[v] = "idle" <=> req'[v] = {}
                          /\ \A r, q \in req'[v] : r = q
      /\ \A v \in Users : v # u => pc'[v] = pc[v] /\ req'[v] = req[v]
      /\ req'[u] = {}
  BY <1>1, <1>2, EndTypes
<1>4. PICK r \in req[u] :
        daemon' \in {daemon, [daemon EXCEPT ![r] = CASE pc[u] = "adding" -> @ + 1
                                                    [] pc[u] = "removing" /\ @ > 0 -> @ - 1
                                                    [] OTHER -> @]}
  BY DEF CutShort
<1>5. r \in Rules /\ req[u] = {r} /\ daemon[r] \in Nat
  BY <1>1, <1>4 DEF SigTypes
<1>6. daemon' \in [Rules -> Nat] /\ \A q \in Rules : q # r => daemon'[q] = daemon[q]
  BY <1>1, <1>4, <1>5 DEF SigTypes
<1>7. SigTypes'
  BY <1>1, <1>2, <1>3, <1>5, <1>6 DEF SigTypes, Stages
<1>8. RuleOk(r)'
  BY <1>2, <1>5 DEF RuleOk
<1> QED BY <1>1, <1>2, <1>3, <1>5, <1>6, <1>7, <1>8, OperationStep

-----------------------------------------------------------------------------
(* Theorems                                                                *)

\* A new connection has no rules, here or at the daemon.
LEMMA InitHolds == Init => SigInv
<1> SUFFICES ASSUME Init PROVE SigInv
  OBVIOUS
<1>1. matches = <<>> /\ Len(matches) = 0 /\ matches \in Seq(Entry)
  BY EmptySeq DEF Init
<1>2. SigTypes
  <2>1. /\ pc = [u \in Users |-> "idle"] /\ req = [u \in Users |-> {}]
        /\ daemon = [r \in Rules |-> 0] /\ muddled = {}
        /\ fate = [s \in Signals |-> "unsent"] /\ to = [s \in Signals |-> {}]
    BY DEF Init
  <2> QED BY <1>1, <2>1 DEF SigTypes, Entry
<1>3. InOrder(matches)
  BY <1>1 DEF InOrder
<1>4. ASSUME NEW r \in Rules PROVE RuleOk(r)
  <2>1. r \notin Present
    BY <1>1, PresentIs DEF HasRule
  <2>2. daemon[r] = 0 /\ \A u \in Users : r \notin req[u]
    BY DEF Init
  <2> QED BY <2>1, <2>2 DEF RuleOk
<1> QED BY <1>2, <1>3, <1>4, InvParts

\* Every step keeps the invariant.
LEMMA NextKeeps ==
  ASSUME Transitive, SigInv, [Next]_vars
  PROVE  SigInv'
<1>1. CASE UNCHANGED vars
  BY <1>1, WaitingKeeps DEF vars
<1>2. ASSUME NEW s \in Signals, ReadOther(s) PROVE SigInv'
  BY <1>2, ReadOtherKeeps
<1>3. ASSUME NEW s \in Signals, NEW r \in Rules, ReadMine(r, s) PROVE SigInv'
  BY <1>3, ReadMineKeeps
<1>4. ASSUME NEW r \in Rules, GetSignal(r) \/ Interrupted(r) PROVE SigInv'
  <2>1. CASE GetSignal(r)
    BY <2>1, WaitingKeeps DEF GetSignal
  <2>2. CASE Interrupted(r)
    <3>1. SigTypes /\ matches \in Seq(Entry)
      BY DEF SigInv, SigTypes, Entry
    <3>2. UNCHANGED <<matches, pc, req, daemon, to, muddled>>
      BY <2>2 DEF Interrupted
    <3>3. fate' \in [Signals -> Fates]
      BY <2>2, <3>1 DEF Interrupted, SigTypes, Fates
    <3>4. to' \in [Signals -> SUBSET Rules]
      BY <3>1, <3>2 DEF SigTypes
    <3> QED BY <3>1, <3>2, <3>3, <3>4, SignalStep
  <2> QED BY <1>4, <2>1, <2>2
<1>5. ASSUME NEW r \in Rules, TakeQueued(r) PROVE SigInv'
  BY <1>5, TakeQueuedKeeps
<1>6. ASSUME NEW u \in Users, Daemon(u) PROVE SigInv'
  BY <1>6, DaemonKeeps
<1>7. ASSUME NEW u \in Users, InsertOk(u) \/ RemoveDone(u) PROVE SigInv'
  BY <1>7, DoneKeeps
<1>8. ASSUME NEW u \in Users, InsertRefused(u) PROVE SigInv'
  BY <1>8, InsertRefusedKeeps
<1>9. ASSUME NEW u \in Users, CutShort(u) PROVE SigInv'
  BY <1>9, CutShortKeeps
<1>10. ASSUME NEW u \in Users, NEW r \in Rules, InsertLocal(u, r) PROVE SigInv'
  BY <1>10, InsertLocalKeeps
<1>11. ASSUME NEW u \in Users, NEW r \in Rules, RemoveLocal(u, r) PROVE SigInv'
  BY <1>11, RemoveLocalKeeps
<1> QED BY <1>1, <1>2, <1>3, <1>4, <1>5, <1>6, <1>7, <1>8, <1>9, <1>10, <1>11 DEF Next

\* While the rules in use are ordered by MatchRule's Ord, sig_matches stays
\* sorted, one task at a time works on each rule that is not muddled, and what
\* is here and at the daemon is what insert_sig_match and remove_sig_match have
\* done so far: the inductive invariant, for any rules, signals and tasks.
THEOREM Invariant ==
  ASSUME Transitive PROVE Spec => []SigInv
<1>1. Init => SigInv
  BY InitHolds
<1>2. SigInv /\ [Next]_vars => SigInv'
  BY NextKeeps
<1> QED BY <1>1, <1>2, PTL DEF Spec

\* A rule on which insert_sig_match and remove_sig_match are not at work is in
\* sig_matches exactly if the daemon has it, once.
THEOREM AlwaysSubscribedAtRest ==
  ASSUME Transitive PROVE Spec => []SubscribedAtRest
<1>1. SigInv => SubscribedAtRest
  BY DEF SigInv
<1> QED BY <1>1, Invariant, PTL

\* sig_matches is in order, every pair of it, and no rule comes before a
\* narrower one, whatever insert_sig_match and remove_sig_match did.
THEOREM AlwaysMostSpecificFirst ==
  ASSUME Transitive PROVE Spec => []MostSpecificFirst
<1>1. ASSUME SigInv PROVE MostSpecificFirst
  <2>1. SUFFICES ASSUME NEW i \in 1 .. Len(matches), NEW j \in 1 .. Len(matches), i < j
                 PROVE  /\ Order[matches[i].rule][matches[j].rule] = -1
                        /\ <<matches[j].rule, matches[i].rule>> \notin Narrowings
    BY DEF MostSpecificFirst
  <2>2. Order[matches[i].rule][matches[j].rule] = -1
    BY <1>1, <2>1 DEF SigInv, Sorted
  <2>3. matches \in Seq(Entry)
    BY <1>1 DEF SigInv, SigTypes, Entry
  <2>4. matches[i].rule \in Rules /\ matches[j].rule \in Rules
    BY <2>3, EntryRule
  <2>5. ~Narrower(matches[j].rule, matches[i].rule)
    BY <2>2, <2>4, NarrowerFirst
  <2> QED BY <2>2, <2>5 DEF Narrowings
<1> QED BY <1>1, Invariant, PTL

\* queue_sig puts a signal at the first, in MatchRule's Ord, of the rules that
\* it matches, and drops it only when it matches none.
THEOREM AlwaysQueuedAtMostSpecific ==
  ASSUME Transitive PROVE Spec => QueuedAtMostSpecific
<1> DEFINE A == \A s \in Signals : fate[s] = "unsent" =>
                  /\ fate'[s] = "queued" =>
                       \A r \in Present : Matches(r, s) => \A q \in to'[s] : Order[q][r] <= 0
                  /\ fate'[s] = "dropped" => \A r \in Present : ~Matches(r, s)
<1>1. ASSUME SigInv, [Next]_vars, NEW s \in Signals, fate[s] = "unsent",
             fate'[s] \in {"queued", "dropped"}
      PROVE  ReadOther(s)
  <2>1. fate \in [Signals -> Fates]
    BY <1>1 DEF SigInv, SigTypes, Fates
  <2>2. fate' # fate
    BY <1>1
  <2>3. CASE \E z \in Signals : ReadOther(z)
    <3>1. PICK z \in Signals : ReadOther(z)
      BY <2>3
    <3>2. z # s => fate'[s] = fate[s]
      BY <2>1, <3>1 DEF ReadOther
    <3> QED BY <1>1, <3>1, <3>2
  <2>4. CASE \E z \in Signals, r \in Rules : ReadMine(r, z)
    BY <1>1, <2>1, <2>4 DEF ReadMine
  <2>5. CASE \E r \in Rules : TakeQueued(r)
    BY <1>1, <2>1, <2>5 DEF TakeQueued
  <2>6. CASE \E i : RemoveAtIdx(i)
    BY <1>1, <2>1, <2>6 DEF RemoveAtIdx
  <2>8. CASE \E r \in Rules : Interrupted(r)
    BY <1>1, <2>1, <2>8 DEF Interrupted
  <2>7. \/ \E z \in Signals : ReadOther(z)
        \/ \E z \in Signals, r \in Rules : ReadMine(r, z)
        \/ \E r \in Rules : TakeQueued(r)
        \/ \E i : RemoveAtIdx(i)
        \/ \E r \in Rules : Interrupted(r)
    BY <1>1, <2>2 DEF Next, vars, GetSignal, Daemon, InsertOk, RemoveDone,
                      InsertRefused, CutShort, InsertLocal, RemoveLocal
  <2> QED BY <2>3, <2>4, <2>5, <2>6, <2>7, <2>8
<1>2. ASSUME SigInv, [Next]_vars, NEW s \in Signals, fate[s] = "unsent", fate'[s] = "queued",
             NEW r \in Present, Matches(r, s), NEW q \in to'[s]
      PROVE  Order[q][r] <= 0
  <2>1. ReadOther(s)
    BY <1>1, <1>2
  <2>2. SigTypes /\ matches \in Seq(Entry) /\ InOrder(matches)
    BY <1>2, InvParts DEF SigTypes, Entry
  <2> DEFINE i == FirstMatch(matches, s)
  <2>3. PICK j \in 1 .. Len(matches) : matches[j].rule = r
    BY DEF Present
  <2>4. i # 0
    BY <1>2, <2>2, <2>3, FirstMatchIs
  <2>5. i \in 1 .. Len(matches) /\ i <= j
    BY <1>2, <2>2, <2>3, <2>4, FirstMatchIs
  <2>6. to'[s] = {matches[i].rule}
    BY <2>1, <2>2, <2>4 DEF ReadOther, SigTypes
  <2> HIDE DEF i
  <2>7. matches[i].rule \in Rules /\ r \in Rules
    BY <2>2, <2>3, <2>5, EntryRule
  <2>8. CASE i < j
    BY <1>2, <2>2, <2>3, <2>5, <2>6, <2>8 DEF InOrder
  <2>9. CASE i = j
    BY <1>2, <2>3, <2>6, <2>7, <2>9, OrderIs
  <2> QED BY <2>5, <2>8, <2>9
<1>3. ASSUME SigInv, [Next]_vars, NEW s \in Signals, fate[s] = "unsent", fate'[s] = "dropped",
             NEW r \in Present
      PROVE  ~Matches(r, s)
  <2>1. ReadOther(s)
    BY <1>1, <1>3
  <2>2. SigTypes /\ matches \in Seq(Entry)
    BY <1>3 DEF SigInv, SigTypes, Entry
  <2>3. FirstMatch(matches, s) = 0
    BY <1>3, <2>1, <2>2 DEF ReadOther, SigTypes
  <2>4. PICK j \in 1 .. Len(matches) : matches[j].rule = r
    BY DEF Present
  <2>5. ~Matches(matches[j].rule, s)
    BY <2>2, <2>3, FirstMatchIs
  <2> QED BY <2>4, <2>5
<1>4. SigInv /\ [Next]_vars => A
  BY <1>2, <1>3
<1>5. SigInv /\ [Next]_vars => [A]_vars
  BY <1>4
<1> HIDE DEF A
<1>6. [][A]_vars => QueuedAtMostSpecific
  BY DEF QueuedAtMostSpecific, A
<1> QED BY <1>5, <1>6, Invariant, PTL DEF Spec

=============================================================================
