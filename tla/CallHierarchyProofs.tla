------------------------ MODULE CallHierarchyProofs ------------------------
(***************************************************************************)
(* Proofs about CallHierarchy: for every set of object paths closed under  *)
(* prefixes and every set of calls, the tree keeps HierarchyInv, hence     *)
(* Trimmed, OneTaker and Discoverable, and implements the flat table of    *)
(* CallRoutes as long as Nothing is inserted only where there is a node    *)
(* and a future at an Exact path meets no call of a child.                 *)
(* The empty map that stands for the children of a missing node is written *)
(* before it is used, by any number of threads.                            *)
(***************************************************************************)
EXTENDS CallHierarchy, EmptyMap, SequenceTheorems, Induction, TLAPS

-----------------------------------------------------------------------------
(* The recursion of insert_inner                                           *)

\* The body of insert_inner, f standing for the recursive call.
KeptAt(f, t, p, a, i) ==
  IF i = Len(p) THEN a # "nothing" \/ Children(Reach(t, p, a), p) # {}
  ELSE \/ f[i + 1]
       \/ Reach(t, p, a)[Up(p, i)].action # "nothing"
       \/ Up(p, i + 1) \in DOMAIN t /\ Children(t, Up(p, i)) # {Up(p, i + 1)}

\* insert_inner returns what its body says: the recursive definition of Kept
\* has a solution, and Kept is one.
LEMMA KeptRec ==
  ASSUME NEW t, NEW p, NEW a, Len(p) \in Nat
  PROVE  Kept(t, p, a) = [i \in 0 .. Len(p) |-> KeptAt(Kept(t, p, a), t, p, a, i)]
<1> DEFINE S == {k \in 0 .. Len(p) : \E g : g = [i \in k .. Len(p) |-> KeptAt(g, t, p, a, i)]}
<1>1. Len(p) \in S
  <2> DEFINE g == [i \in Len(p) .. Len(p) |-> KeptAt([j \in {} |-> 0], t, p, a, i)]
  <2>1. \A i \in Len(p) .. Len(p) : g[i] = KeptAt(g, t, p, a, i)
    BY DEF KeptAt
  <2>2. g = [i \in Len(p) .. Len(p) |-> KeptAt(g, t, p, a, i)]
    BY <2>1
  <2> HIDE DEF g
  <2> QED BY <2>2
<1>2. \A k \in 0 .. Len(p) - 1 : k + 1 \in S => k \in S
  <2>1. SUFFICES ASSUME NEW k \in 0 .. Len(p) - 1, k + 1 \in S PROVE k \in S
    OBVIOUS
  <2>2. PICK g : g = [i \in k + 1 .. Len(p) |-> KeptAt(g, t, p, a, i)]
    BY <2>1
  <2> DEFINE h == [i \in k .. Len(p) |-> IF i = k THEN KeptAt(g, t, p, a, k) ELSE g[i]]
  <2>3. h = [i \in k .. Len(p) |-> KeptAt(h, t, p, a, i)]
    <3>1. ASSUME NEW i \in k .. Len(p) PROVE h[i] = KeptAt(h, t, p, a, i)
      <4>1. CASE i = k
        <5>1. h[k + 1] = g[k + 1]
          OBVIOUS
        <5> QED BY <4>1, <5>1 DEF KeptAt
      <4>2. CASE i # k
        <5>1. i \in k + 1 .. Len(p) /\ (i # Len(p) => h[i + 1] = g[i + 1])
          BY <4>2
        <5>2. h[i] = KeptAt(g, t, p, a, i)
          BY <2>2, <4>2, <5>1
        <5> QED BY <5>1, <5>2 DEF KeptAt
      <4> QED BY <4>1, <4>2
    <3> QED BY <3>1
  <2> HIDE DEF h
  <2> QED BY <2>3
<1>3. 0 \in S
  <2> HIDE DEF S
  <2> QED BY <1>1, <1>2, DownInduction
<1>4. PICK g : g = [i \in 0 .. Len(p) |-> KeptAt(g, t, p, a, i)]
  BY <1>3
<1>5. Kept(t, p, a) = CHOOSE f : f = [i \in 0 .. Len(p) |-> KeptAt(f, t, p, a, i)]
  BY DEF Kept, KeptAt
<1> QED BY <1>4, <1>5

-----------------------------------------------------------------------------
(* Paths                                                                   *)

\* The components of the paths
Names == UNION {ToSet(p) : p \in Paths}

\* Paths are sequences of names, and every prefix of one is a path.
LEMMA PathSeq ==
  /\ \A p \in Paths : p \in Seq(Names) /\ Len(p) \in Nat
  /\ \A p \in Paths : \A i \in 0 .. Len(p) : Up(p, i) \in Paths /\ Len(Up(p, i)) = i
  /\ <<>> \in Paths /\ Len(<<>>) = 0
<1>1. Paths \subseteq Seq(Names)
  BY HierarchyAssumption DEF Names
<1>2. \A p \in Paths : p \in Seq(Names) /\ Len(p) \in Nat
  BY <1>1
<1>3. ASSUME NEW p \in Paths, NEW i \in 0 .. Len(p)
      PROVE  Up(p, i) \in Paths /\ Len(Up(p, i)) = i
  BY <1>2, HierarchyAssumption DEF Up
<1> QED BY <1>2, <1>3, HierarchyAssumption

\* A prefix of a prefix is a prefix.
LEMMA UpUp ==
  ASSUME NEW p \in Paths, NEW i \in 0 .. Len(p), NEW j \in 0 .. i
  PROVE  Up(Up(p, i), j) = Up(p, j)
<1>1. p \in Seq(Names) /\ Len(p) \in Nat
  BY PathSeq
<1>2. Up(p, i) \in Seq(Names) /\ Len(Up(p, i)) = i /\ \A k \in 1 .. i : Up(p, i)[k] = p[k]
  BY <1>1 DEF Up
<1>3. Up(p, j) \in Seq(Names) /\ Len(Up(p, j)) = j /\ \A k \in 1 .. j : Up(p, j)[k] = p[k]
  BY <1>1 DEF Up
<1>4. Up(Up(p, i), j) \in Seq(Names) /\ Len(Up(Up(p, i), j)) = j
      /\ \A k \in 1 .. j : Up(Up(p, i), j)[k] = Up(p, i)[k]
  BY <1>2 DEF Up
<1> HIDE DEF Up
<1>5. \A k \in 1 .. j : Up(Up(p, i), j)[k] = Up(p, j)[k]
  BY <1>2, <1>3, <1>4
<1> QED BY <1>3, <1>4, <1>5, SeqEqual

\* The longest and the shortest prefix of a path.
LEMMA UpEnds ==
  ASSUME NEW p \in Paths
  PROVE  Up(p, Len(p)) = p /\ Up(p, 0) = <<>> /\ (Len(p) = 0 => p = <<>>)
BY PathSeq DEF Up

\* A prefix is what is left of a path when it is cut to that length.
LEMMA PrefixUp ==
  ASSUME NEW p \in Paths, NEW q \in Paths
  PROVE  IsPrefix(p, q) <=> Len(p) <= Len(q) /\ Up(q, Len(p)) = p
<1>1. SubSeq(p, 1, Len(p)) = p
  BY UpEnds DEF Up
<1> QED BY <1>1 DEF IsPrefix, Up

\* The length and the place of a prefix.
LEMMA PrefixLength ==
  ASSUME NEW p \in Paths, NEW q \in Paths, IsPrefix(p, q)
  PROVE  Len(p) \in 0 .. Len(q) /\ Up(q, Len(p)) = p
BY PrefixUp, PathSeq

\* Two cuts of one path are prefixes of one another.
LEMMA UpPrefix ==
  ASSUME NEW p \in Paths, NEW i \in 0 .. Len(p), NEW j \in 0 .. i
  PROVE  IsPrefix(Up(p, j), Up(p, i)) /\ IsPrefix(Up(p, i), p)
<1>1. /\ Len(p) \in Nat /\ Up(p, i) \in Paths /\ Len(Up(p, i)) = i
      /\ Up(p, j) \in Paths /\ Len(Up(p, j)) = j
  BY PathSeq
<1>2. Up(Up(p, i), j) = Up(p, j)
  BY UpUp
<1> QED BY <1>1, <1>2, PrefixUp

\* Every path is a prefix of itself.
LEMMA PrefixSelf ==
  ASSUME NEW p \in Paths
  PROVE  IsPrefix(p, p)
BY PrefixUp, UpEnds, PathSeq

\* A path below a path below p is below p.
LEMMA PrefixTrans ==
  ASSUME NEW p \in Paths, NEW q \in Paths, NEW s \in Paths,
         IsPrefix(p, q), IsPrefix(q, s)
  PROVE  IsPrefix(p, s)
<1>1. /\ Len(p) \in 0 .. Len(q) /\ Up(q, Len(p)) = p
      /\ Len(q) \in 0 .. Len(s) /\ Up(s, Len(q)) = q
  BY PrefixLength
<1>2. Up(s, Len(p)) = p
  BY <1>1, UpUp
<1>3. Len(p) \in 0 .. Len(s)
  BY <1>1, PathSeq
<1> QED BY <1>2, <1>3, PrefixUp

\* Of two prefixes of a path, the shorter one is a prefix of the longer one.
LEMMA PrefixLinear ==
  ASSUME NEW p \in Paths, NEW q \in Paths, NEW s \in Paths,
         IsPrefix(p, s), IsPrefix(q, s), Len(p) <= Len(q)
  PROVE  IsPrefix(p, q)
<1>1. /\ Len(p) \in 0 .. Len(s) /\ Up(s, Len(p)) = p
      /\ Len(q) \in 0 .. Len(s) /\ Up(s, Len(q)) = q
  BY PrefixLength
<1>2. Len(p) \in 0 .. Len(q)
  BY <1>1
<1>3. Up(q, Len(p)) = p
  BY <1>1, <1>2, UpUp
<1> QED BY <1>2, <1>3, PrefixUp

-----------------------------------------------------------------------------
(* insert_inner                                                            *)

\* The nodes for which insert_inner returns false
Gone(t, p, a) == {Up(p, i) : i \in {j \in 1 .. Len(p) : ~Kept(t, p, a)[j]}}

\* The walk down of insert_inner, entry(..).or_insert: it makes a tree of which
\* p is a node, and changes no other node.
LEMMA ReachTree ==
  ASSUME NEW t, IsTree(t), NEW p \in Paths, NEW a \in Action
  PROVE  /\ IsTree(Reach(t, p, a))
         /\ \A n : n \in DOMAIN Reach(t, p, a)
                  <=> n \in DOMAIN t \/ \E i \in 0 .. Len(p) : n = Up(p, i)
         /\ p \in DOMAIN Reach(t, p, a) /\ Reach(t, p, a)[p] = Handler(a)
         /\ \A n \in DOMAIN t : n # p => Reach(t, p, a)[n] = t[n]
         /\ \A n \in DOMAIN Reach(t, p, a) \ DOMAIN t : n # p => Reach(t, p, a)[n] = Handler("nothing")
<1> DEFINE r == Reach(t, p, a)
<1>1. \A n : n \in DOMAIN r <=> n \in DOMAIN t \/ \E i \in 0 .. Len(p) : n = Up(p, i)
  BY DEF Reach
<1>2. p \in DOMAIN r
  <2>1. Len(p) \in 0 .. Len(p) /\ Up(p, Len(p)) = p
    BY PathSeq, UpEnds
  <2> QED BY <1>1, <2>1
<1>3. /\ r[p] = Handler(a)
      /\ \A n \in DOMAIN t : n # p => r[n] = t[n]
      /\ \A n \in DOMAIN r \ DOMAIN t : n # p => r[n] = Handler("nothing")
  BY <1>2 DEF Reach
<1>4. IsTree(r)
  <2>1. <<>> \in DOMAIN r /\ DOMAIN r \subseteq Paths
    BY <1>1, PathSeq DEF IsTree
  <2>2. ASSUME NEW n \in DOMAIN r, NEW i \in 0 .. Len(n)
        PROVE  Up(n, i) \in DOMAIN r
    <3>1. CASE n \in DOMAIN t
      BY <1>1, <3>1 DEF IsTree
    <3>2. CASE n \notin DOMAIN t
      <4>1. PICK k \in 0 .. Len(p) : n = Up(p, k)
        BY <1>1, <3>2
      <4>2. i \in 0 .. k /\ i \in 0 .. Len(p)
        BY <4>1, PathSeq
      <4>3. Up(n, i) = Up(p, i)
        BY <4>1, <4>2, UpUp
      <4> QED BY <1>1, <4>2, <4>3
    <3> QED BY <3>1, <3>2
  <2>3. \A b \in Action : Handler(b) \in Handlers
    BY EmptySeq DEF Handler, Handlers
  <2>4. \A n \in DOMAIN r : r[n] \in Handlers
    <3>1. "nothing" \in Action
      BY DEF Action
    <3>2. \A n \in DOMAIN t : t[n] \in Handlers
      BY DEF IsTree
    <3> QED BY <1>3, <2>3, <3>1, <3>2
  <2>5. r = [n \in DOMAIN r |-> r[n]]
    BY DEF Reach
  <2> HIDE DEF r
  <2> QED BY <2>1, <2>2, <2>4, <2>5 DEF IsTree
<1> HIDE DEF r
<1>5. /\ IsTree(r)
      /\ \A n : n \in DOMAIN r <=> n \in DOMAIN t \/ \E i \in 0 .. Len(p) : n = Up(p, i)
      /\ p \in DOMAIN r /\ r[p] = Handler(a)
      /\ \A n \in DOMAIN t : n # p => r[n] = t[n]
      /\ \A n \in DOMAIN r \ DOMAIN t : n # p => r[n] = Handler("nothing")
  BY <1>1, <1>2, <1>3, <1>4
<1> QED BY <1>5 DEF r

\* HashMap::remove of nodes other than the root leaves a tree.
LEMMA PruneTree ==
  ASSUME NEW r, IsTree(r), NEW gone, gone \subseteq Paths, <<>> \notin gone
  PROVE  /\ IsTree(Prune(r, gone))
         /\ DOMAIN Prune(r, gone) = {q \in DOMAIN r : \A g \in gone : ~IsPrefix(g, q)}
         /\ \A n \in DOMAIN Prune(r, gone) : Prune(r, gone)[n] = r[n]
<1> DEFINE u == Prune(r, gone)
<1>1. /\ DOMAIN u = {q \in DOMAIN r : \A g \in gone : ~IsPrefix(g, q)}
      /\ \A n \in DOMAIN u : u[n] = r[n]
      /\ u = [n \in DOMAIN u |-> u[n]]
  BY DEF Prune
<1> HIDE DEF u
<1>2. <<>> \in DOMAIN u
  <2>1. ASSUME NEW g \in gone PROVE ~IsPrefix(g, <<>>)
    <3>1. g \in Paths /\ g # <<>> /\ Len(g) \in Nat /\ Len(g) # 0
      BY PathSeq, UpEnds
    <3> QED BY <3>1, PathSeq, PrefixUp
  <2> QED BY <1>1, <2>1 DEF IsTree
<1>3. ASSUME NEW n \in DOMAIN u, NEW i \in 0 .. Len(n)
      PROVE  Up(n, i) \in DOMAIN u
  <2>1. n \in DOMAIN r /\ n \in Paths /\ Up(n, i) \in DOMAIN r
    BY <1>1 DEF IsTree
  <2>2. ASSUME NEW g \in gone, IsPrefix(g, Up(n, i)) PROVE FALSE
    <3>1. g \in Paths /\ Up(n, i) \in Paths /\ Len(Up(n, i)) = i /\ Len(n) \in Nat /\ Len(g) \in Nat
      BY <2>1, PathSeq
    <3>2. Len(g) <= i /\ Up(Up(n, i), Len(g)) = g
      BY <2>2, <3>1, PrefixUp
    <3>3. Up(n, Len(g)) = g
      BY <2>1, <3>1, <3>2, UpUp
    <3>4. IsPrefix(g, n)
      BY <2>1, <3>1, <3>2, <3>3, PrefixUp
    <3> QED BY <1>1, <3>4
  <2> QED BY <1>1, <2>1, <2>2
<1>4. IsTree(u)
  BY <1>1, <1>2, <1>3 DEF IsTree
<1>5. /\ IsTree(u)
      /\ DOMAIN u = {q \in DOMAIN r : \A g \in gone : ~IsPrefix(g, q)}
      /\ \A n \in DOMAIN u : u[n] = r[n]
  BY <1>1, <1>4
<1> QED BY <1>5 DEF u

\* What insert_inner returns for the target and for a node above it.
LEMMA KeptFacts ==
  ASSUME NEW t, NEW p \in Paths, NEW a
  PROVE  /\ Kept(t, p, a)[Len(p)] <=> a # "nothing" \/ Children(Reach(t, p, a), p) # {}
         /\ \A i \in 0 .. Len(p) - 1 :
              Kept(t, p, a)[i] <=> \/ Kept(t, p, a)[i + 1]
                          \/ Reach(t, p, a)[Up(p, i)].action # "nothing"
                          \/ /\ Up(p, i + 1) \in DOMAIN t
                             /\ Children(t, Up(p, i)) # {Up(p, i + 1)}
<1> DEFINE kept == Kept(t, p, a)
<1>1. Len(p) \in Nat
  BY PathSeq
<1>2. \A i \in 0 .. Len(p) : kept[i] = KeptAt(kept, t, p, a, i)
  BY <1>1, KeptRec
<1> HIDE DEF kept
<1>3. kept[Len(p)] <=> a # "nothing" \/ Children(Reach(t, p, a), p) # {}
  <2>1. Len(p) \in 0 .. Len(p)
    BY <1>1
  <2>2. KeptAt(kept, t, p, a, Len(p)) <=> a # "nothing" \/ Children(Reach(t, p, a), p) # {}
    BY DEF KeptAt
  <2>3. kept[Len(p)] = KeptAt(kept, t, p, a, Len(p))
    BY <1>2, <2>1
  <2> QED BY <2>2, <2>3, Zenon
<1>4. ASSUME NEW i \in 0 .. Len(p) - 1
      PROVE  kept[i] <=> \/ kept[i + 1]
                         \/ Reach(t, p, a)[Up(p, i)].action # "nothing"
                         \/ /\ Up(p, i + 1) \in DOMAIN t
                            /\ Children(t, Up(p, i)) # {Up(p, i + 1)}
  <2>1. i \in 0 .. Len(p) /\ i # Len(p)
    BY <1>1
  <2>2. KeptAt(kept, t, p, a, i) <=> \/ kept[i + 1]
                         \/ Reach(t, p, a)[Up(p, i)].action # "nothing"
                         \/ /\ Up(p, i + 1) \in DOMAIN t
                            /\ Children(t, Up(p, i)) # {Up(p, i + 1)}
    BY <2>1, Zenon DEF KeptAt
  <2>3. kept[i] = KeptAt(kept, t, p, a, i)
    BY <1>2, <2>1
  <2> QED BY <2>2, <2>3, Zenon
<1> QED BY <1>3, <1>4 DEF kept

\* insert_inner yields a tree: what was reached, less the nodes below one for
\* which it returned false.
LEMMA InsertTree ==
  ASSUME NEW t, IsTree(t), NEW p \in Paths, NEW a \in Action
  PROVE  /\ IsTree(InsertInner(t, p, a))
         /\ \A q : q \in DOMAIN InsertInner(t, p, a)
                  <=> /\ q \in DOMAIN Reach(t, p, a)
                      /\ \A i \in 1 .. Len(p) : IsPrefix(Up(p, i), q) => Kept(t, p, a)[i]
         /\ \A n \in DOMAIN InsertInner(t, p, a) : InsertInner(t, p, a)[n] = Reach(t, p, a)[n]
<1> DEFINE u == InsertInner(t, p, a)
           r == Reach(t, p, a)
           kept == Kept(t, p, a)
           gone == Gone(t, p, a)
<1>1. u = Prune(r, gone)
  BY DEF InsertInner, Gone
<1>2. IsTree(r)
  BY ReachTree
<1>3. gone \subseteq Paths /\ <<>> \notin gone
  <2>1. ASSUME NEW g \in gone PROVE g \in Paths /\ g # <<>>
    <3>1. PICK i \in 1 .. Len(p) : g = Up(p, i)
      BY DEF Gone
    <3>2. i \in 0 .. Len(p) /\ i # 0
      BY <3>1, PathSeq
    <3> QED BY <3>1, <3>2, PathSeq
  <2> QED BY <2>1
<1>4. /\ IsTree(u)
      /\ DOMAIN u = {q \in DOMAIN r : \A g \in gone : ~IsPrefix(g, q)}
      /\ \A n \in DOMAIN u : u[n] = r[n]
  <2> HIDE DEF u, r, gone
  <2> QED BY <1>1, <1>2, <1>3, PruneTree
<1>5. ASSUME NEW q
      PROVE  (\A g \in gone : ~IsPrefix(g, q))
               <=> \A i \in 1 .. Len(p) : IsPrefix(Up(p, i), q) => kept[i]
  BY Zenon DEF Gone
<1>6. \A q : q \in DOMAIN u <=> q \in DOMAIN r /\ \A i \in 1 .. Len(p) : IsPrefix(Up(p, i), q) => kept[i]
  <2> HIDE DEF u, r, gone, kept
  <2> QED BY <1>4, <1>5
<1> HIDE DEF u, r, gone, kept
<1>7. /\ IsTree(u)
      /\ \A q : q \in DOMAIN u <=> q \in DOMAIN r /\ \A i \in 1 .. Len(p) : IsPrefix(Up(p, i), q) => kept[i]
      /\ \A n \in DOMAIN u : u[n] = r[n]
  BY <1>4, <1>6
<1> QED BY <1>7 DEF u, r, kept

\* A node stays when a node below it does.
LEMMA KeptMonotone ==
  ASSUME NEW t, NEW p \in Paths, NEW a, NEW j \in 0 .. Len(p), NEW i \in 0 .. j,
         Kept(t, p, a)[j]
  PROVE  Kept(t, p, a)[i]
<1> DEFINE kept == Kept(t, p, a)
           S == {k \in 0 .. j : kept[k]}
<1>1. Len(p) \in Nat
  BY PathSeq
<1>2. \A k \in 0 .. Len(p) - 1 : kept[k + 1] => kept[k]
  BY KeptFacts
<1> HIDE DEF kept
<1>3. j \in Nat /\ j \in S
  BY <1>1 DEF kept
<1>4. \A k \in 0 .. j - 1 : k + 1 \in S => k \in S
  <2>1. SUFFICES ASSUME NEW k \in 0 .. j - 1, k + 1 \in S PROVE k \in S
    OBVIOUS
  <2>2. k \in 0 .. Len(p) - 1 /\ k \in 0 .. j
    BY <1>1
  <2>3. kept[k + 1]
    BY <2>1
  <2>4. kept[k]
    BY <1>2, <2>2, <2>3
  <2> QED BY <2>2, <2>4
<1>5. 0 .. j \subseteq S
  <2> HIDE DEF S
  <2> QED BY <1>3, <1>4, DownInduction
<1> QED BY <1>5 DEF kept

\* Below a node that is kept, only the next node on the way is in question.
LEMMA Stays ==
  ASSUME NEW t, IsTree(t), NEW p \in Paths, NEW a \in Action,
         NEW i \in 0 .. Len(p), Kept(t, p, a)[i],
         NEW q \in DOMAIN Reach(t, p, a),
         i < Len(p) => ~IsPrefix(Up(p, i + 1), q)
  PROVE  q \in DOMAIN InsertInner(t, p, a)
<1>1. q \in Paths /\ Len(p) \in Nat
  BY ReachTree, PathSeq DEF IsTree
<1>2. ASSUME NEW j \in 1 .. Len(p), IsPrefix(Up(p, j), q)
      PROVE  Kept(t, p, a)[j]
  <2>1. CASE j <= i
    <3>1. j \in 0 .. i
      BY <2>1
    <3> QED BY <3>1, KeptMonotone
  <2>2. CASE ~(j <= i)
    <3>1. i < Len(p) /\ j \in 0 .. Len(p) /\ i + 1 \in 0 .. j /\ i + 1 \in 0 .. Len(p)
      BY <1>1, <2>2
    <3>2. Up(p, j) \in Paths /\ Up(p, i + 1) \in Paths
      BY <3>1, PathSeq
    <3>3. IsPrefix(Up(p, i + 1), Up(p, j))
      BY <3>1, UpPrefix
    <3>4. IsPrefix(Up(p, i + 1), q)
      BY <1>1, <1>2, <3>2, <3>3, PrefixTrans
    <3> QED BY <3>1, <3>4
  <2> QED BY <2>1, <2>2
<1> QED BY <1>2, InsertTree, Zenon

\* insert_inner returns true only for nodes from which an action can be reached
\* afterwards.
LEMMA KeptLeads ==
  ASSUME NEW t, IsTree(t), LeadsToAction(t), NEW p \in Paths, NEW a \in Action,
         NEW i \in 0 .. Len(p), Kept(t, p, a)[i]
  PROVE  \E q \in DOMAIN InsertInner(t, p, a) :
           IsPrefix(Up(p, i), q) /\ InsertInner(t, p, a)[q].action # "nothing"
<1> DEFINE r == Reach(t, p, a)
           u == InsertInner(t, p, a)
           kept == Kept(t, p, a)
           Leads(k) == \E q \in DOMAIN u : IsPrefix(Up(p, k), q) /\ u[q].action # "nothing"
           S == {k \in 0 .. Len(p) : kept[k] => Leads(k)}
<1>1. Len(p) \in Nat /\ Up(p, Len(p)) = p
  BY PathSeq, UpEnds
<1>2. /\ \A n : n \in DOMAIN r <=> n \in DOMAIN t \/ \E k \in 0 .. Len(p) : n = Up(p, k)
      /\ p \in DOMAIN r /\ r[p].action = a /\ DOMAIN r \subseteq Paths
      /\ \A n \in DOMAIN t : n # p => r[n] = t[n]
  <2>1. r[p] = Handler(a) /\ IsTree(r)
    BY ReachTree
  <2>2. /\ \A n : n \in DOMAIN r <=> n \in DOMAIN t \/ \E k \in 0 .. Len(p) : n = Up(p, k)
        /\ p \in DOMAIN r
        /\ \A n \in DOMAIN t : n # p => r[n] = t[n]
    BY ReachTree
  <2> HIDE DEF r
  <2> QED BY <2>1, <2>2 DEF Handler, IsTree
<1>3. \A n \in DOMAIN u : u[n] = r[n]
  BY InsertTree
<1>4. ASSUME NEW k \in 0 .. Len(p), kept[k], NEW q \in DOMAIN r,
             k < Len(p) => ~IsPrefix(Up(p, k + 1), q)
      PROVE  q \in DOMAIN u
  BY <1>4, Stays
<1>5. \A k \in 0 .. Len(p) : Up(p, k) \in Paths /\ Len(Up(p, k)) = k
  BY PathSeq
<1>6. ASSUME NEW k \in 0 .. Len(p), kept[k]
      PROVE  Up(p, k) \in DOMAIN u
  <2>1. Up(p, k) \in DOMAIN r
    BY <1>2
  <2>2. ASSUME k < Len(p), IsPrefix(Up(p, k + 1), Up(p, k)) PROVE FALSE
    <3>1. k + 1 \in 0 .. Len(p)
      BY <1>1, <2>2
    <3> QED BY <1>5, <2>2, <3>1, PrefixLength
  <2> QED BY <1>4, <1>6, <2>1, <2>2
\* a child on no way to p leads to an action that is still there
<1>7. ASSUME NEW k \in 0 .. Len(p), kept[k], NEW c \in DOMAIN t,
             Len(c) = k + 1, IsPrefix(Up(p, k), c), k < Len(p) => c # Up(p, k + 1)
      PROVE  Leads(k)
  <2>1. c \in Paths /\ c # <<>>
    BY <1>7, PathSeq DEF IsTree
  <2>2. PICK q \in DOMAIN t : IsPrefix(c, q) /\ t[q].action # "nothing"
    BY <2>1 DEF LeadsToAction
  <2>3. q \in Paths /\ q \in DOMAIN r
    BY <1>2 DEF IsTree
  <2>4. Up(q, k + 1) = c /\ k + 1 \in 0 .. Len(q)
    BY <1>7, <2>1, <2>2, <2>3, PrefixLength
  <2>5. ASSUME k < Len(p), IsPrefix(Up(p, k + 1), q) PROVE FALSE
    <3>1. k + 1 \in 0 .. Len(p)
      BY <1>1, <2>5
    <3>2. Up(q, k + 1) = Up(p, k + 1)
      BY <1>5, <2>3, <2>5, <3>1, PrefixLength
    <3> QED BY <1>7, <2>4, <2>5, <3>2
  <2>6. q # p
    <3>1. SUFFICES ASSUME q = p PROVE FALSE
      OBVIOUS
    <3>2. k < Len(p) /\ Up(p, k + 1) = c
      BY <1>1, <2>4, <3>1
    <3> QED BY <1>7, <3>2
  <2>7. q \in DOMAIN u
    BY <1>4, <1>7, <2>3, <2>5
  <2>8. u[q].action # "nothing"
    BY <1>2, <1>3, <2>2, <2>6, <2>7
  <2>9. IsPrefix(Up(p, k), q)
    BY <1>5, <1>7, <2>1, <2>2, <2>3, PrefixTrans
  <2> QED BY <2>7, <2>8, <2>9
<1>8. Len(p) \in S
  <2>1. SUFFICES ASSUME kept[Len(p)] PROVE Leads(Len(p))
    BY <1>1
  <2>2. Len(p) \in 0 .. Len(p)
    BY <1>1
  <2>3. CASE a # "nothing"
    <3>1. p \in DOMAIN u
      BY <1>1, <1>6, <2>1, <2>2
    <3>2. u[p].action # "nothing"
      BY <1>2, <1>3, <2>3, <3>1
    <3> QED BY <1>1, <3>1, <3>2, PrefixSelf
  <2>4. CASE a = "nothing"
    <3>1. PICK c \in Children(r, p) : TRUE
      BY <2>1, <2>4, KeptFacts, Zenon
    <3>2. c \in DOMAIN r /\ Len(c) = Len(p) + 1 /\ IsPrefix(p, c)
      BY <3>1 DEF Children
    <3>3. c \in DOMAIN t
      BY <1>1, <1>2, <1>5, <3>2
    <3> HIDE DEF Leads, r, u, kept
    <3> QED BY <1>1, <1>7, <2>1, <2>2, <3>2, <3>3
  <2> QED BY <2>3, <2>4
<1>9. \A k \in 0 .. Len(p) - 1 : k + 1 \in S => k \in S
  <2>1. SUFFICES ASSUME NEW k \in 0 .. Len(p) - 1, k + 1 \in S, kept[k] PROVE Leads(k)
    BY <1>1
  <2>2. k \in 0 .. Len(p) /\ k + 1 \in 0 .. Len(p) /\ k < Len(p)
    BY <1>1
  <2>3. CASE kept[k + 1]
    <3>1. PICK q \in DOMAIN u : IsPrefix(Up(p, k + 1), q) /\ u[q].action # "nothing"
      BY <2>1, <2>3
    <3>2. IsPrefix(Up(p, k), Up(p, k + 1))
      BY <2>2, UpPrefix
    <3>3. q \in Paths
      BY InsertTree DEF IsTree
    <3>4. IsPrefix(Up(p, k), q)
      BY <1>5, <2>2, <3>1, <3>2, <3>3, PrefixTrans
    <3> QED BY <3>1, <3>4
  <2>4. CASE r[Up(p, k)].action # "nothing"
    <3>1. Up(p, k) \in DOMAIN u
      BY <1>6, <2>1, <2>2
    <3> QED BY <1>3, <1>5, <2>2, <2>4, <3>1, PrefixSelf
  <2>5. CASE Up(p, k + 1) \in DOMAIN t /\ Children(t, Up(p, k)) # {Up(p, k + 1)}
    <3>1. Up(p, k + 1) \in Children(t, Up(p, k))
      <4>1. IsPrefix(Up(p, k), Up(p, k + 1))
        BY <2>2, UpPrefix
      <4> QED BY <1>5, <2>2, <2>5, <4>1 DEF Children
    <3>2. PICK c \in Children(t, Up(p, k)) : c # Up(p, k + 1)
      BY <2>5, <3>1
    <3>3. c \in DOMAIN t /\ Len(c) = k + 1 /\ IsPrefix(Up(p, k), c)
      BY <1>5, <2>2, <3>2 DEF Children
    <3> HIDE DEF Leads, r, u, kept
    <3> QED BY <1>7, <2>1, <2>2, <3>2, <3>3
  <2>6. \/ kept[k + 1] \/ r[Up(p, k)].action # "nothing"
        \/ Up(p, k + 1) \in DOMAIN t /\ Children(t, Up(p, k)) # {Up(p, k + 1)}
    BY <2>1, KeptFacts, Zenon
  <2> HIDE DEF Leads, r, u, kept
  <2> QED BY <2>3, <2>4, <2>5, <2>6
<1>10. i \in S
  <2> HIDE DEF S
  <2> QED BY <1>1, <1>8, <1>9, DownInduction
<1> QED BY <1>10

\* insert_inner leaves no node behind that leads to no action.
LEMMA InsertLeads ==
  ASSUME NEW t, IsTree(t), LeadsToAction(t), NEW p \in Paths, NEW a \in Action
  PROVE  LeadsToAction(InsertInner(t, p, a))
<1> DEFINE r == Reach(t, p, a)
           u == InsertInner(t, p, a)
           kept == Kept(t, p, a)
<1>1. /\ \A q : q \in DOMAIN u <=> q \in DOMAIN r /\ \A k \in 1 .. Len(p) : IsPrefix(Up(p, k), q) => kept[k]
      /\ \A m \in DOMAIN u : u[m] = r[m]
  BY InsertTree
<1>2. /\ \A n : n \in DOMAIN r <=> n \in DOMAIN t \/ \E k \in 0 .. Len(p) : n = Up(p, k)
      /\ DOMAIN r \subseteq Paths
      /\ \A n \in DOMAIN t : n # p => r[n] = t[n]
  <2>1. IsTree(r)
    BY ReachTree
  <2>2. /\ \A n : n \in DOMAIN r <=> n \in DOMAIN t \/ \E k \in 0 .. Len(p) : n = Up(p, k)
        /\ \A n \in DOMAIN t : n # p => r[n] = t[n]
    BY ReachTree
  <2> HIDE DEF r
  <2> QED BY <2>1, <2>2 DEF IsTree
<1>3. SUFFICES ASSUME NEW n \in DOMAIN u \ {<<>>}
               PROVE  \E q \in DOMAIN u : IsPrefix(n, q) /\ u[q].action # "nothing"
  BY DEF LeadsToAction
<1>4. n \in Paths /\ n # <<>> /\ n \in DOMAIN r
  BY <1>1, <1>2
<1>5. CASE IsPrefix(n, p)
  <2>1. Len(n) \in 0 .. Len(p) /\ Up(p, Len(n)) = n
    BY <1>4, <1>5, PrefixLength
  <2>2. Len(n) \in 1 .. Len(p)
    BY <1>4, <2>1, UpEnds
  <2>3. IsPrefix(Up(p, Len(n)), n)
    BY <1>4, <2>1, PrefixSelf
  <2>4. kept[Len(n)]
    BY <1>1, <2>2, <2>3, Zenon
  <2>5. \E q \in DOMAIN u : IsPrefix(Up(p, Len(n)), q) /\ u[q].action # "nothing"
    BY <2>1, <2>4, KeptLeads
  <2> QED BY <2>1, <2>5
<1>6. CASE ~IsPrefix(n, p)
  <2>1. n \in DOMAIN t
    <3>1. ASSUME NEW k \in 0 .. Len(p) PROVE n # Up(p, k)
      <4>1. 0 \in 0 .. k
        OBVIOUS
      <4> QED BY <1>6, <4>1, UpPrefix
    <3> QED BY <1>2, <1>4, <3>1
  <2>2. PICK q \in DOMAIN t : IsPrefix(n, q) /\ t[q].action # "nothing"
    BY <1>4, <2>1 DEF LeadsToAction
  <2>3. q \in Paths /\ q \in DOMAIN r
    BY <1>2
  <2>4. ASSUME NEW k \in 1 .. Len(p), IsPrefix(Up(p, k), q) PROVE kept[k]
    <3>1. k \in 0 .. Len(p) /\ 0 \in 0 .. k
      BY PathSeq
    <3>2. Up(p, k) \in Paths /\ IsPrefix(Up(p, k), p) /\ Len(Up(p, k)) \in Nat /\ Len(n) \in Nat
      BY <1>4, <3>1, PathSeq, UpPrefix
    <3>3. CASE Len(n) <= Len(Up(p, k))
      <4>1. IsPrefix(n, Up(p, k))
        BY <1>4, <2>2, <2>3, <2>4, <3>2, <3>3, PrefixLinear
      <4>2. IsPrefix(n, p)
        BY <1>4, <3>2, <4>1, PrefixTrans
      <4> QED BY <1>6, <4>2
    <3>4. CASE Len(Up(p, k)) <= Len(n)
      <4>1. IsPrefix(Up(p, k), n)
        BY <1>4, <2>2, <2>3, <2>4, <3>2, <3>4, PrefixLinear
      <4> QED BY <1>1, <4>1, Zenon
    <3> QED BY <3>2, <3>3, <3>4
  <2>5. q \in DOMAIN u
    BY <1>1, <2>3, <2>4, Zenon
  <2>6. q # p
    BY <1>6, <2>2
  <2> QED BY <1>1, <1>2, <2>2, <2>5, <2>6
<1> QED BY <1>5, <1>6

-----------------------------------------------------------------------------
(* send_inner and is_match                                                 *)

\* The body of send_inner, f standing for the recursive call.
SendAt(f, t, m, i) ==
  IF i = Len(m) THEN AtTarget(t[Up(m, i)], Up(m, i))
  ELSE IF Up(m, i + 1) \notin DOMAIN t THEN Childless(t[Up(m, i)], Up(m, i))
  ELSE IF f[i + 1].status = "unhandled" THEN PassedUp(t[Up(m, i)], Up(m, i), f[i + 1].at)
  ELSE f[i + 1]

\* send_inner returns what its body says: the recursive definition of SendInner
\* has a solution, and SendInner is one.
LEMMA SendInnerRec ==
  ASSUME NEW t, NEW m, Len(m) \in Nat
  PROVE  SendInner(t, m) = [i \in 0 .. Len(m) |-> SendAt(SendInner(t, m), t, m, i)]
<1> DEFINE S == {k \in 0 .. Len(m) : \E g : g = [i \in k .. Len(m) |-> SendAt(g, t, m, i)]}
<1>1. Len(m) \in S
  <2> DEFINE g == [i \in Len(m) .. Len(m) |-> SendAt([j \in {} |-> 0], t, m, i)]
  <2>1. \A i \in Len(m) .. Len(m) : g[i] = SendAt(g, t, m, i)
    BY DEF SendAt
  <2>2. g = [i \in Len(m) .. Len(m) |-> SendAt(g, t, m, i)]
    BY <2>1
  <2> HIDE DEF g
  <2> QED BY <2>2
<1>2. \A k \in 0 .. Len(m) - 1 : k + 1 \in S => k \in S
  <2>1. SUFFICES ASSUME NEW k \in 0 .. Len(m) - 1, k + 1 \in S PROVE k \in S
    OBVIOUS
  <2>2. PICK g : g = [i \in k + 1 .. Len(m) |-> SendAt(g, t, m, i)]
    BY <2>1
  <2> DEFINE h == [i \in k .. Len(m) |-> IF i = k THEN SendAt(g, t, m, k) ELSE g[i]]
  <2>3. h = [i \in k .. Len(m) |-> SendAt(h, t, m, i)]
    <3>1. ASSUME NEW i \in k .. Len(m) PROVE h[i] = SendAt(h, t, m, i)
      <4>1. CASE i = k
        <5>1. h[k + 1] = g[k + 1]
          OBVIOUS
        <5> QED BY <4>1, <5>1 DEF SendAt
      <4>2. CASE i # k
        <5>1. i \in k + 1 .. Len(m) /\ (i # Len(m) => h[i + 1] = g[i + 1])
          BY <4>2
        <5>2. h[i] = SendAt(g, t, m, i)
          BY <2>2, <4>2, <5>1
        <5> QED BY <5>1, <5>2 DEF SendAt
      <4> QED BY <4>1, <4>2
    <3> QED BY <3>1
  <2> HIDE DEF h
  <2> QED BY <2>3
<1>3. 0 \in S
  <2> HIDE DEF S
  <2> QED BY <1>1, <1>2, DownInduction
<1>4. PICK g : g = [i \in 0 .. Len(m) |-> SendAt(g, t, m, i)]
  BY <1>3
<1>5. SendInner(t, m) = CHOOSE f : f = [i \in 0 .. Len(m) |-> SendAt(f, t, m, i)]
  BY DEF SendInner, SendAt
<1> QED BY <1>4, <1>5

\* The node on the way to m at depth i has an action and decides about m.
Acting(t, m, i) == Up(m, i) \in DOMAIN t /\ t[Up(m, i)].action # "nothing"

\* The node whose children an introspection of m lists
EndNode(t, m) == IF m \in DOMAIN t THEN m ELSE None

\* What the handler at depth j does with a call to m.
Decide(t, m, j) ==
  IF t[Up(m, j)].action = "queue" \/ (t[Up(m, j)].action = "exact" /\ j = Len(m))
  THEN ToQueue(Up(m, j))
  ELSE IF t[Up(m, j)].action = "intro" /\ (j = Len(m) \/ Up(m, j + 1) \in DOMAIN t)
  THEN Introspect(EndNode(t, m))
  ELSE Dropped

\* j is the deepest one that acts, from depth i on
Deepest(t, m, i, j) ==
  /\ j \in i .. Len(m) /\ Acting(t, m, j)
  /\ \A k \in j + 1 .. Len(m) : ~Acting(t, m, k)

\* From each node on, the deepest handler below it decides, or nobody does.
LEMMA Routed ==
  ASSUME NEW t, IsTree(t), NEW m \in Paths, NEW i \in 0 .. Len(m), Up(m, i) \in DOMAIN t
  PROVE  \/ /\ \A j \in i .. Len(m) : ~Acting(t, m, j)
            /\ SendInner(t, m)[i] = Unhandled(EndNode(t, m))
         \/ \E j \in i .. Len(m) : Deepest(t, m, i, j) /\ SendInner(t, m)[i] = Decide(t, m, j)
<1> DEFINE s == SendInner(t, m)
           R(k) == \/ /\ \A j \in k .. Len(m) : ~Acting(t, m, j)
                      /\ s[k] = Unhandled(EndNode(t, m))
                   \/ \E j \in k .. Len(m) : Deepest(t, m, k, j) /\ s[k] = Decide(t, m, j)
           S == {k \in 0 .. Len(m) : Up(m, k) \in DOMAIN t => R(k)}
<1>1. Len(m) \in Nat /\ Up(m, Len(m)) = m /\ None \notin Paths
  BY PathSeq, UpEnds, HierarchyAssumption
<1>2. \A k \in 0 .. Len(m) : s[k] = SendAt(s, t, m, k)
  BY <1>1, SendInnerRec
<1>3. \A n \in DOMAIN t : n \in Paths /\ t[n].action \in Action
  BY DEF IsTree, Handlers
<1> HIDE DEF s
<1>4. Len(m) \in S
  <2>1. SUFFICES ASSUME m \in DOMAIN t PROVE R(Len(m))
    BY <1>1
  <2>2. s[Len(m)] = AtTarget(t[m], m)
    BY <1>1, <1>2 DEF SendAt
  <2>3. t[m].action \in Action
    BY <1>3, <2>1
  <2>4. CASE t[m].action = "nothing"
    <3>1. s[Len(m)] = Unhandled(m)
      BY <2>2, <2>4 DEF AtTarget, HasQueue
    <3>2. \A j \in Len(m) .. Len(m) : ~Acting(t, m, j)
      BY <1>1, <2>4 DEF Acting
    <3> QED BY <2>1, <3>1, <3>2 DEF EndNode
  <2>5. CASE t[m].action # "nothing"
    <3>1. Deepest(t, m, Len(m), Len(m))
      BY <1>1, <2>1, <2>5 DEF Deepest, Acting
    <3>2. s[Len(m)] = Decide(t, m, Len(m))
      BY <1>1, <2>1, <2>2, <2>3, <2>5 DEF AtTarget, Decide, HasQueue, EndNode, Action
    <3> QED BY <1>1, <3>1, <3>2
  <2> QED BY <2>4, <2>5
<1>5. \A k \in 0 .. Len(m) - 1 : k + 1 \in S => k \in S
  <2>1. SUFFICES ASSUME NEW k \in 0 .. Len(m) - 1, k + 1 \in S, Up(m, k) \in DOMAIN t
                 PROVE  R(k)
    BY <1>1
  <2>2. k \in 0 .. Len(m) /\ k + 1 \in 0 .. Len(m) /\ k # Len(m)
        /\ k .. Len(m) = {k} \cup (k + 1 .. Len(m))
    BY <1>1
  <2> DEFINE h == t[Up(m, k)]
             n == Up(m, k)
  <2>3. h.action \in Action
    BY <1>3, <2>1
  <2>4. CASE Up(m, k + 1) \notin DOMAIN t
    <3>1. s[k] = Childless(h, n)
      BY <1>2, <2>2, <2>4 DEF SendAt
    <3>2. ASSUME NEW j \in k + 1 .. Len(m) PROVE Up(m, j) \notin DOMAIN t
      <4>1. SUFFICES ASSUME Up(m, j) \in DOMAIN t PROVE FALSE
        OBVIOUS
      <4>2. j \in 0 .. Len(m) /\ k + 1 \in 0 .. j
        BY <1>1
      <4>3. Len(Up(m, j)) = j /\ Up(Up(m, j), k + 1) = Up(m, k + 1)
        BY <4>2, PathSeq, UpUp
      <4> QED BY <2>4, <4>1, <4>2, <4>3 DEF IsTree
    <3>3. m \notin DOMAIN t
      BY <1>1, <2>2, <3>2
    <3>4. CASE h.action = "nothing"
      <4>1. s[k] = Unhandled(EndNode(t, m))
        BY <3>1, <3>3, <3>4 DEF Childless, EndNode
      <4>2. \A j \in k .. Len(m) : ~Acting(t, m, j)
        BY <2>2, <3>2, <3>4 DEF Acting
      <4> QED BY <4>1, <4>2
    <3>5. CASE h.action # "nothing"
      <4>1. Deepest(t, m, k, k)
        BY <2>1, <2>2, <3>2, <3>5 DEF Deepest, Acting
      <4>2. s[k] = Decide(t, m, k)
        BY <2>2, <2>3, <2>4, <3>1, <3>5 DEF Childless, Decide, Action
      <4> QED BY <2>2, <4>1, <4>2
    <3> QED BY <3>4, <3>5
  <2>5. CASE Up(m, k + 1) \in DOMAIN t
    <3>1. s[k] = IF s[k + 1].status = "unhandled" THEN PassedUp(h, n, s[k + 1].at)
                 ELSE s[k + 1]
      BY <1>2, <2>2, <2>5 DEF SendAt
    <3>2. CASE /\ \A j \in k + 1 .. Len(m) : ~Acting(t, m, j)
               /\ s[k + 1] = Unhandled(EndNode(t, m))
      <4>1. s[k] = PassedUp(h, n, EndNode(t, m))
        BY <3>1, <3>2 DEF Unhandled
      <4>2. CASE h.action = "nothing"
        <5>1. s[k] = Unhandled(EndNode(t, m))
          BY <4>1, <4>2 DEF PassedUp
        <5>2. \A j \in k .. Len(m) : ~Acting(t, m, j)
          BY <2>2, <3>2, <4>2 DEF Acting
        <5> QED BY <5>1, <5>2
      <4>3. CASE h.action # "nothing"
        <5>1. Deepest(t, m, k, k)
          BY <2>1, <2>2, <3>2, <4>3 DEF Deepest, Acting
        <5>2. s[k] = Decide(t, m, k)
          BY <2>2, <2>3, <2>5, <4>1, <4>3 DEF PassedUp, Decide, Action
        <5> QED BY <2>2, <5>1, <5>2
      <4> QED BY <4>2, <4>3
    <3>3. CASE \E j \in k + 1 .. Len(m) :
                  Deepest(t, m, k + 1, j) /\ s[k + 1] = Decide(t, m, j)
      <4>1. PICK j \in k + 1 .. Len(m) :
                  Deepest(t, m, k + 1, j) /\ s[k + 1] = Decide(t, m, j)
        BY <3>3
      <4>2. s[k + 1].status # "unhandled"
        BY <4>1 DEF Decide, ToQueue, Introspect, Dropped
      <4>3. s[k] = Decide(t, m, j)
        BY <3>1, <4>1, <4>2
      <4>4. Deepest(t, m, k, j)
        BY <2>2, <4>1 DEF Deepest
      <4> QED BY <2>2, <4>1, <4>3, <4>4
    <3> QED BY <2>1, <2>2, <2>5, <3>2, <3>3
  <2> QED BY <2>4, <2>5
<1>6. i \in S
  <2> HIDE DEF S
  <2> QED BY <1>1, <1>4, <1>5, DownInduction
<1> QED BY <1>6 DEF s

\* A call is queued at the deepest handler on the way to its object.
LEMMA QueuedAtDeepest ==
  ASSUME NEW t, IsTree(t), NEW m \in Paths, SendInner(t, m)[0].status = "queue"
  PROVE  \E j \in 0 .. Len(m) :
           /\ Deepest(t, m, 0, j) /\ SendInner(t, m)[0].at = Up(m, j)
           /\ t[Up(m, j)].action = "queue" \/ (t[Up(m, j)].action = "exact" /\ j = Len(m))
<1>1. 0 \in 0 .. Len(m) /\ Up(m, 0) \in DOMAIN t
  BY PathSeq, UpEnds DEF IsTree
<1>2. SendInner(t, m)[0] # Unhandled(EndNode(t, m))
  BY DEF Unhandled
<1>3. PICK j \in 0 .. Len(m) : Deepest(t, m, 0, j) /\ SendInner(t, m)[0] = Decide(t, m, j)
  BY <1>1, <1>2, Routed
<1>4. /\ t[Up(m, j)].action = "queue" \/ (t[Up(m, j)].action = "exact" /\ j = Len(m))
      /\ SendInner(t, m)[0] = ToQueue(Up(m, j))
  BY <1>3 DEF Decide, Introspect, Dropped
<1> QED BY <1>3, <1>4 DEF ToQueue

\* is_match says yes only at the deepest handler on the way, if it has a queue.
LEMMA MatchIsDeepest ==
  ASSUME NEW t, IsTree(t), NEW m \in Paths, NEW p \in DOMAIN t, IsMatch(t, p, m)
  PROVE  /\ Len(p) \in 0 .. Len(m) /\ Up(m, Len(p)) = p
         /\ Deepest(t, m, 0, Len(p)) /\ HasQueue(t[p])
         /\ t[p].action = "queue" \/ m = p \/ Up(m, Len(p) + 1) \in DOMAIN t
<1>1. p \in Paths /\ Len(m) \in Nat /\ Up(m, Len(m)) = m
  BY PathSeq, UpEnds DEF IsTree
<1>2. Len(p) \in 0 .. Len(m) /\ Up(m, Len(p)) = p
  BY <1>1, PrefixLength DEF IsMatch
<1>3. HasQueue(t[p])
  BY DEF IsMatch, HasQueue
<1>4. Acting(t, m, Len(p))
  BY <1>2, <1>3 DEF Acting, HasQueue
<1>5. t[p].action = "queue" \/ m = p \/ Up(m, Len(p) + 1) \in DOMAIN t
  BY DEF IsMatch
<1>6. \A k \in Len(p) + 1 .. Len(m) : ~Acting(t, m, k)
  <2>1. CASE m = p
    BY <1>1, <2>1
  <2>2. CASE m # p
    <3>1. Len(p) + 1 \in 0 .. Len(m)
      BY <1>1, <1>2, <2>2
    <3>2. CASE Up(m, Len(p) + 1) \in DOMAIN t
      <4>1. SendInner(t, m)[Len(p) + 1].status = "unhandled"
        BY <2>2, <3>2 DEF IsMatch
      <4>2. \A j : SendInner(t, m)[Len(p) + 1] # Decide(t, m, j)
        BY <4>1 DEF Decide, ToQueue, Introspect, Dropped
      <4> QED BY <3>1, <3>2, <4>2, Routed
    <3>3. CASE Up(m, Len(p) + 1) \notin DOMAIN t
      <4>1. ASSUME NEW k \in Len(p) + 1 .. Len(m), Up(m, k) \in DOMAIN t PROVE FALSE
        <5>1. k \in 0 .. Len(m) /\ Len(p) + 1 \in 0 .. k
          BY <1>1, <1>2
        <5>2. Len(Up(m, k)) = k /\ Up(Up(m, k), Len(p) + 1) = Up(m, Len(p) + 1)
          BY <5>1, PathSeq, UpUp
        <5> QED BY <3>3, <4>1, <5>1, <5>2 DEF IsTree
      <4> QED BY <4>1 DEF Acting
    <3> QED BY <3>2, <3>3
  <2> QED BY <2>1, <2>2
<1> QED BY <1>2, <1>3, <1>4, <1>5, <1>6 DEF Deepest

\* At most one handler on the way to an object is the deepest one.
LEMMA DeepestUnique ==
  ASSUME NEW t, NEW m \in Paths, NEW i, NEW j,
         Deepest(t, m, 0, i), Deepest(t, m, 0, j)
  PROVE  i = j
<1>1. Len(m) \in Nat /\ i \in 0 .. Len(m) /\ j \in 0 .. Len(m)
  BY PathSeq DEF Deepest
<1> QED BY <1>1 DEF Deepest

\* The handler that send queues the call at is the one is_match accepts.
LEMMA SendMatches ==
  ASSUME NEW t, IsTree(t), NEW m \in Paths, SendInner(t, m)[0].status = "queue"
  PROVE  /\ SendInner(t, m)[0].at \in DOMAIN t /\ HasQueue(t[SendInner(t, m)[0].at])
         /\ IsMatch(t, SendInner(t, m)[0].at, m)
<1> DEFINE n == SendInner(t, m)[0].at
<1>1. PICK j \in 0 .. Len(m) :
        /\ Deepest(t, m, 0, j) /\ n = Up(m, j)
        /\ t[Up(m, j)].action = "queue" \/ (t[Up(m, j)].action = "exact" /\ j = Len(m))
  BY QueuedAtDeepest
<1>2. n \in Paths /\ Len(n) = j /\ IsPrefix(n, m) /\ Len(m) \in Nat /\ Up(m, Len(m)) = m
  <2>1. 0 \in 0 .. j
    OBVIOUS
  <2> QED BY <1>1, <2>1, PathSeq, UpPrefix, UpEnds
<1>3. n \in DOMAIN t
  BY <1>1 DEF Deepest, Acting
<1>4. HasQueue(t[n])
  BY <1>1 DEF HasQueue
<1>5. m # n => j < Len(m) /\ t[n].action = "queue" /\ j + 1 \in 0 .. Len(m)
  BY <1>1, <1>2
<1>6. ASSUME m # n, Up(m, j + 1) \in DOMAIN t
      PROVE  SendInner(t, m)[j + 1].status = "unhandled"
  <2>1. ASSUME NEW k \in j + 1 .. Len(m), Deepest(t, m, j + 1, k) PROVE FALSE
    BY <1>1, <2>1 DEF Deepest
  <2>2. SendInner(t, m)[j + 1] = Unhandled(EndNode(t, m))
    BY <1>5, <1>6, <2>1, Routed
  <2> QED BY <2>2 DEF Unhandled
<1> HIDE DEF n
<1>7. IsMatch(t, n, m)
  <2>1. CASE m = n
    BY <1>2, <1>3, <1>4, <2>1 DEF IsMatch
  <2>2. CASE m # n /\ Up(m, Len(n) + 1) \in DOMAIN t
    <3>1. SendInner(t, m)[Len(n) + 1].status = "unhandled"
      BY <1>2, <1>6, <2>2
    <3> QED BY <1>2, <1>3, <1>4, <2>2, <3>1 DEF IsMatch
  <2>3. CASE m # n /\ Up(m, Len(n) + 1) \notin DOMAIN t
    BY <1>2, <1>3, <1>5, <2>3 DEF IsMatch
  <2> QED BY <2>1, <2>2, <2>3
<1> QED BY <1>3, <1>4, <1>7 DEF n

\* In every tree send and is_match agree on who takes a call.
LEMMA TreeOneTaker ==
  IsTree(tree) => OneTaker
<1>1. SUFFICES ASSUME IsTree(tree), NEW m \in Paths
               PROVE  /\ SendInner(tree, m)[0].status = "queue"
                           => IsMatch(tree, SendInner(tree, m)[0].at, m)
                      /\ \A p, q \in DOMAIN tree :
                           IsMatch(tree, p, m) /\ IsMatch(tree, q, m) => p = q
  BY DEF OneTaker
<1>2. SendInner(tree, m)[0].status = "queue" => IsMatch(tree, SendInner(tree, m)[0].at, m)
  BY <1>1, SendMatches
<1>3. ASSUME NEW p \in DOMAIN tree, NEW q \in DOMAIN tree,
             IsMatch(tree, p, m), IsMatch(tree, q, m)
      PROVE  p = q
  <2>1. /\ Up(m, Len(p)) = p /\ Deepest(tree, m, 0, Len(p))
        /\ Up(m, Len(q)) = q /\ Deepest(tree, m, 0, Len(q))
    BY <1>1, <1>3, MatchIsDeepest
  <2>2. Len(p) = Len(q)
    BY <2>1, DeepestUnique
  <2> QED BY <2>1, <2>2
<1> QED BY <1>2, <1>3

\* In a tree whose nodes all lead to an action, a leaf has one.
LEMMA TreeTrimmed ==
  IsTree(tree) /\ LeadsToAction(tree) => Trimmed
<1>1. SUFFICES ASSUME IsTree(tree), LeadsToAction(tree), NEW n \in DOMAIN tree \ {<<>>},
                      Children(tree, n) = {}
               PROVE  tree[n].action # "nothing"
  BY DEF Trimmed
<1>2. PICK q \in DOMAIN tree : IsPrefix(n, q) /\ tree[q].action # "nothing"
  BY <1>1 DEF LeadsToAction
<1>3. n \in Paths /\ q \in Paths /\ Len(n) \in Nat /\ Len(q) \in Nat
  BY <1>1, PathSeq DEF IsTree
<1>4. Len(n) \in 0 .. Len(q) /\ Up(q, Len(n)) = n
  BY <1>2, <1>3, PrefixLength
<1>5. CASE Len(n) = Len(q)
  BY <1>2, <1>3, <1>4, <1>5, UpEnds
<1>6. CASE Len(n) < Len(q)
  <2>1. Len(n) + 1 \in 0 .. Len(q) /\ Len(n) \in 0 .. Len(n) + 1
    BY <1>3, <1>6
  <2>2. Up(q, Len(n) + 1) \in DOMAIN tree /\ Len(Up(q, Len(n) + 1)) = Len(n) + 1
    BY <1>1, <1>3, <2>1, PathSeq DEF IsTree
  <2>3. IsPrefix(n, Up(q, Len(n) + 1))
    BY <1>3, <1>4, <2>1, UpPrefix
  <2>4. Up(q, Len(n) + 1) \in Children(tree, n)
    BY <2>2, <2>3 DEF Children
  <2> QED BY <1>1, <2>4
<1> QED BY <1>3, <1>4, <1>5, <1>6

\* In every tree the answers to introspections lead down to the queues.
LEMMA TreeDiscoverable ==
  IsTree(tree) => Discoverable
<1>1. SUFFICES ASSUME IsTree(tree), NEW p \in DOMAIN tree, NEW n \in DOMAIN tree,
                 tree[p].action = "intro", HasQueue(tree[n]), IsStrictPrefix(p, n),
                 \A k \in Len(p) + 1 .. Len(n) - 1 :
                   tree[Up(n, k)].action \in {"nothing", "intro"},
                 NEW i \in Len(p) .. Len(n) - 1
               PROVE  /\ SendInner(tree, Up(n, i))[0].status = "intro"
                      /\ Up(n, i + 1) \in Listed(tree, SendInner(tree, Up(n, i))[0].at)
  BY DEF Discoverable
<1> DEFINE m == Up(n, i)
<1>2. p \in Paths /\ n \in Paths /\ Len(p) \in Nat /\ Len(n) \in Nat
  BY <1>1, PathSeq DEF IsTree
<1>3. Len(p) \in 0 .. Len(n) /\ Up(n, Len(p)) = p
  BY <1>1, <1>2, PrefixLength DEF IsStrictPrefix
<1>4. i \in 0 .. Len(n) /\ i + 1 \in 0 .. Len(n) /\ i \in 0 .. i + 1 /\ Len(p) \in 0 .. i
  BY <1>1, <1>2, <1>3
<1>5. m \in Paths /\ Len(m) = i /\ m \in DOMAIN tree /\ m # None
  BY <1>1, <1>2, <1>4, PathSeq, HierarchyAssumption DEF IsTree
<1>6. \A k \in 0 .. i : Up(m, k) = Up(n, k) /\ Up(n, k) \in DOMAIN tree
  BY <1>1, <1>2, <1>4, UpUp DEF IsTree
<1> HIDE DEF m
<1>7. PICK j \in 0 .. Len(m) :
             Deepest(tree, m, 0, j) /\ SendInner(tree, m)[0] = Decide(tree, m, j)
  <2>1. Acting(tree, m, Len(p))
    BY <1>1, <1>3, <1>4, <1>6 DEF Acting
  <2>2. 0 \in 0 .. Len(m) /\ Up(m, 0) \in DOMAIN tree /\ Len(p) \in 0 .. Len(m)
    BY <1>4, <1>5, <1>6
  <2> QED BY <1>1, <1>5, <2>1, <2>2, Routed
<1>8. Len(p) <= j /\ tree[Up(n, j)].action = "intro"
  <2>1. Len(p) <= j
    <3>1. SUFFICES ASSUME j < Len(p) PROVE FALSE
      BY <1>2, <1>5, <1>7
    <3>2. Len(p) \in j + 1 .. Len(m)
      BY <1>2, <1>4, <1>5, <1>7, <3>1
    <3>3. Acting(tree, m, Len(p))
      BY <1>1, <1>3, <1>4, <1>6 DEF Acting
    <3> QED BY <1>7, <3>2, <3>3 DEF Deepest
  <2>2. tree[Up(n, j)].action # "nothing"
    BY <1>4, <1>5, <1>6, <1>7 DEF Deepest, Acting
  <2>3. CASE j = Len(p)
    BY <1>1, <1>3, <2>3
  <2>4. CASE j # Len(p)
    <3>1. j \in Len(p) + 1 .. Len(n) - 1
      BY <1>1, <1>2, <1>5, <1>7, <2>1, <2>4
    <3> QED BY <1>1, <2>1, <2>2, <3>1
  <2> QED BY <2>1, <2>3, <2>4
<1>9. SendInner(tree, m)[0] = Introspect(m)
  <2>1. Up(m, j) = Up(n, j)
    BY <1>5, <1>6, <1>7
  <2>2. j = Len(m) \/ Up(m, j + 1) \in DOMAIN tree
    <3>1. j # Len(m) => j + 1 \in 0 .. i
      BY <1>4, <1>5, <1>7
    <3> QED BY <1>6, <3>1
  <2>3. Decide(tree, m, j) = Introspect(EndNode(tree, m))
    BY <1>8, <2>1, <2>2 DEF Decide
  <2> QED BY <1>5, <1>7, <2>3 DEF EndNode
<1>10. Up(n, i + 1) \in Children(tree, m)
  <2>1. IsPrefix(m, Up(n, i + 1))
    BY <1>2, <1>4, UpPrefix DEF m
  <2>2. Up(n, i + 1) \in DOMAIN tree /\ Len(Up(n, i + 1)) = i + 1
    BY <1>1, <1>2, <1>4, PathSeq DEF IsTree
  <2> QED BY <1>5, <2>1, <2>2 DEF Children
<1>11. tree[Up(n, i + 1)].action # "drop"
  <2>1. CASE i + 1 = Len(n)
    <3>1. Up(n, i + 1) = n
      BY <1>2, <2>1, UpEnds
    <3> QED BY <1>1, <3>1 DEF HasQueue
  <2>2. CASE i + 1 # Len(n)
    <3>1. i + 1 \in Len(p) + 1 .. Len(n) - 1
      BY <1>1, <1>2, <2>2
    <3> QED BY <1>1, <3>1
  <2> QED BY <2>1, <2>2
<1>12. Up(n, i + 1) \in Listed(tree, m)
  BY <1>5, <1>10, <1>11 DEF Listed
<1> QED BY <1>9, <1>12 DEF Introspect, m

-----------------------------------------------------------------------------
(* The invariant                                                           *)

\* Changing queues leaves the shape of the tree.
LEMMA SameShape ==
  ASSUME NEW t, NEW u, IsTree(t), LeadsToAction(t), DOMAIN u = DOMAIN t,
         u \in [DOMAIN t -> Handlers], \A n \in DOMAIN t : u[n].action = t[n].action
  PROVE  IsTree(u) /\ LeadsToAction(u)
<1>1. IsTree(u)
  BY DEF IsTree
<1>2. LeadsToAction(u)
  BY DEF LeadsToAction
<1> QED BY <1>1, <1>2

\* CallHierarchy::new: the root, which drops calls.
LEMMA InitInv ==
  Init => HierarchyInv
<1>1. SUFFICES ASSUME Init PROVE HierarchyInv
  OBVIOUS
<1>2. DOMAIN tree = {<<>>} /\ tree[<<>>] = Handler("drop") /\ tree = [n \in {<<>>} |-> Handler("drop")]
  BY <1>1 DEF Init
<1>3. Handler("drop") \in Handlers /\ Handler("drop").queue = <<>>
  BY EmptySeq DEF Handler, Handlers, Action
<1>4. IsTree(tree)
  <2>1. \A i \in 0 .. Len(<<>>) : Up(<<>>, i) = <<>>
    BY PathSeq, UpEnds
  <2> QED BY <1>2, <1>3, <2>1, PathSeq DEF IsTree
<1>5. LeadsToAction(tree)
  BY <1>2 DEF LeadsToAction
<1>6. QueuedOnce(tree, fate)
  BY <1>2, <1>3, PathSeq DEF QueuedOnce
<1>7. fate \in [Calls -> Routes!Fate] /\ object \in [Calls -> Paths]
  BY <1>1 DEF Init, Routes!Fate
<1> QED BY <1>4, <1>5, <1>6, <1>7 DEF HierarchyInv

\* insert_call_path: the queue of another path stays as it is or goes away.
LEMMA InsertQueues ==
  ASSUME NEW t, IsTree(t), NEW p \in Paths, NEW a \in Action
  PROVE  \A n \in DOMAIN InsertInner(t, p, a) :
           \/ InsertInner(t, p, a)[n].queue = <<>>
           \/ n \in DOMAIN t /\ n # p /\ InsertInner(t, p, a)[n] = t[n]
<1>1. SUFFICES ASSUME NEW n \in DOMAIN InsertInner(t, p, a)
               PROVE  \/ InsertInner(t, p, a)[n].queue = <<>>
                      \/ n \in DOMAIN t /\ n # p /\ InsertInner(t, p, a)[n] = t[n]
  OBVIOUS
<1>2. n \in DOMAIN Reach(t, p, a) /\ InsertInner(t, p, a)[n] = Reach(t, p, a)[n]
  BY InsertTree, ZenonT(60)
<1>3. \/ Reach(t, p, a)[n] = Handler(a) \/ Reach(t, p, a)[n] = Handler("nothing")
      \/ n \in DOMAIN t /\ n # p /\ Reach(t, p, a)[n] = t[n]
  BY <1>2, ReachTree
<1> QED BY <1>2, <1>3 DEF Handler

\* insert_call_path keeps the invariant.
LEMMA InsertInv ==
  ASSUME HierarchyInv, NEW p \in Paths, NEW a \in Action, NEW held, InsertPath(p, a, held)
  PROVE  HierarchyInv'
<1>1. IsTree(tree') /\ LeadsToAction(tree')
  BY InsertTree, InsertLeads DEF InsertPath, HierarchyInv
<1>2. \A n \in DOMAIN tree' : \/ tree'[n].queue = <<>>
                              \/ n \in DOMAIN tree /\ n # p /\ tree'[n] = tree[n]
  BY InsertQueues DEF InsertPath, HierarchyInv
<1>3. QueuedOnce(tree', fate')
  <2>1. ASSUME NEW n \in DOMAIN tree', NEW i \in 1 .. Len(tree'[n].queue)
        PROVE  n \in DOMAIN tree /\ tree'[n] = tree[n]
    <3>1. tree'[n].queue # <<>>
      BY <2>1
    <3> QED BY <1>2, <3>1
  <2>2. \A n \in DOMAIN tree' : ~HasQueue(tree'[n]) => tree'[n].queue = <<>>
    BY <1>2 DEF HierarchyInv, QueuedOnce
  <2>3. ASSUME NEW n \in DOMAIN tree', NEW i \in 1 .. Len(tree'[n].queue)
        PROVE  fate'[tree'[n].queue[i]] = "queued"
    <3> DEFINE c == tree'[n].queue[i]
    <3>1. n \in DOMAIN tree /\ tree'[n] = tree[n] /\ fate[c] = "queued"
      BY <2>1 DEF HierarchyInv, QueuedOnce
    <3>2. tree[n].queue \in Seq(Calls)
      BY <3>1 DEF HierarchyInv, IsTree, Handlers
    <3>3. c \in Calls /\ i \in DOMAIN tree'[n].queue
      BY <3>1, <3>2
    <3>4. c \in Queued(tree')
      BY <3>3 DEF Queued, ToSet
    <3> QED BY <3>1, <3>3, <3>4 DEF InsertPath
  <2>4. ASSUME NEW n \in DOMAIN tree', NEW q \in DOMAIN tree',
               NEW i \in 1 .. Len(tree'[n].queue), NEW j \in 1 .. Len(tree'[q].queue),
               tree'[n].queue[i] = tree'[q].queue[j]
        PROVE  n = q /\ i = j
    <3>1. n \in DOMAIN tree /\ tree'[n] = tree[n] /\ q \in DOMAIN tree /\ tree'[q] = tree[q]
      BY <2>1
    <3> QED BY <2>4, <3>1 DEF HierarchyInv, QueuedOnce
  <2> QED BY <2>2, <2>3, <2>4 DEF QueuedOnce
<1>4. fate' \in [Calls -> Routes!Fate] /\ object' \in [Calls -> Paths]
  BY DEF InsertPath, HierarchyInv, Routes!Fate
<1> QED BY <1>1, <1>3, <1>4 DEF HierarchyInv

\* Two entries of the queues are the same call only if they are one entry.
LEMMA DistinctEntries ==
  ASSUME HierarchyInv, NEW n \in DOMAIN tree, NEW q \in DOMAIN tree,
         NEW i \in 1 .. Len(tree[n].queue), NEW j \in 1 .. Len(tree[q].queue),
         tree[n].queue[i] = tree[q].queue[j]
  PROVE  n = q /\ i = j
BY DEF HierarchyInv, QueuedOnce

\* queue_msg of a call keeps the invariant: it is queued where there is a queue.
LEMMA ReceiveInv ==
  ASSUME HierarchyInv, NEW c \in Calls, NEW iface \in Ifaces, Receive(c, iface)
  PROVE  HierarchyInv'
<1> DEFINE s == SendInner(tree, object[c])[0]
<1>1. object[c] \in Paths /\ IsTree(tree) /\ fate[c] = "unsent"
  BY DEF HierarchyInv, Receive
<1>2. object' = object /\ object' \in [Calls -> Paths]
  BY DEF HierarchyInv, Receive
<1>3. CASE s.status = "queue"
  <2> DEFINE n == s.at
  <2>1. n \in DOMAIN tree /\ HasQueue(tree[n])
    BY <1>1, <1>3, SendMatches
  <2>2. tree' = [tree EXCEPT ![n].queue = Append(@, c)] /\ fate' = [fate EXCEPT ![c] = "queued"]
    BY <1>3 DEF Receive
  <2> HIDE DEF n
  <2>3. tree \in [DOMAIN tree -> Handlers] /\ fate \in [Calls -> Routes!Fate]
    BY DEF HierarchyInv, IsTree
  <2>4. tree[n].queue \in Seq(Calls) /\ tree[n].action \in Action
    BY <2>1, <2>3 DEF Handlers
  <2>5. /\ DOMAIN tree' = DOMAIN tree
        /\ \A q \in DOMAIN tree \ {n} : tree'[q] = tree[q]
        /\ tree'[n] = [tree[n] EXCEPT !.queue = Append(tree[n].queue, c)]
        /\ tree' = [q \in DOMAIN tree |-> tree'[q]]
    BY <2>1, <2>2, <2>3
  <2>6. /\ tree'[n].queue = Append(tree[n].queue, c) /\ tree'[n].action = tree[n].action
        /\ tree'[n] \in Handlers
    <3>1. Append(tree[n].queue, c) \in Seq(Calls)
      BY <2>4
    <3> QED BY <2>1, <2>3, <2>4, <2>5, <3>1, ZenonT(60) DEF Handlers
  <2>7. tree' \in [DOMAIN tree -> Handlers] /\ \A q \in DOMAIN tree : tree'[q].action = tree[q].action
    BY <2>1, <2>3, <2>5, <2>6
  <2>8. IsTree(tree') /\ LeadsToAction(tree')
    BY <2>5, <2>7, SameShape DEF HierarchyInv
  <2>9. fate' \in [Calls -> Routes!Fate] /\ fate'[c] = "queued" /\ \A d \in Calls : d # c => fate'[d] = fate[d]
    BY <2>2, <2>3 DEF Routes!Fate
  \* an entry of a queue is the new one or was there before
  <2>10. ASSUME NEW q \in DOMAIN tree', NEW i \in 1 .. Len(tree'[q].queue)
         PROVE  \/ q = n /\ i = Len(tree[n].queue) + 1 /\ tree'[q].queue[i] = c
                \/ /\ q \in DOMAIN tree /\ i \in 1 .. Len(tree[q].queue)
                   /\ tree'[q].queue[i] = tree[q].queue[i]
                   /\ tree[q].queue[i] \in Calls /\ fate[tree[q].queue[i]] = "queued"
    <3>1. \A k \in 1 .. Len(tree[q].queue) :
             tree[q].queue[k] \in Calls /\ fate[tree[q].queue[k]] = "queued"
      <4>1. tree[q].queue \in Seq(Calls)
        BY <2>3, <2>5, <2>10 DEF Handlers
      <4> QED BY <2>5, <4>1 DEF HierarchyInv, QueuedOnce
    <3>2. CASE q # n
      BY <2>5, <2>10, <3>1, <3>2
    <3>3. CASE q = n
      <4>1. i \in 1 .. Len(tree[n].queue) + 1
        BY <2>4, <2>6, <2>10, <3>3
      <4>2. tree'[n].queue[i] = IF i = Len(tree[n].queue) + 1 THEN c ELSE tree[n].queue[i]
        BY <2>4, <2>6, <4>1
      <4>3. i # Len(tree[n].queue) + 1 => i \in 1 .. Len(tree[n].queue)
        BY <2>4, <4>1
      <4> QED BY <2>5, <3>1, <3>3, <4>1, <4>2, <4>3
    <3> QED BY <3>2, <3>3
  <2>11. QueuedOnce(tree', fate')
    <3>1. \A q \in DOMAIN tree' : ~HasQueue(tree'[q]) => tree'[q].queue = <<>>
      <4>1. HasQueue(tree'[n])
        BY <2>1, <2>6 DEF HasQueue
      <4> QED BY <2>5, <4>1 DEF HierarchyInv, QueuedOnce
    <3>2. ASSUME NEW q \in DOMAIN tree', NEW i \in 1 .. Len(tree'[q].queue)
          PROVE  fate'[tree'[q].queue[i]] = "queued"
      BY <1>1, <2>9, <2>10
    <3>3. ASSUME NEW x \in DOMAIN tree', NEW q \in DOMAIN tree',
                 NEW i \in 1 .. Len(tree'[x].queue), NEW j \in 1 .. Len(tree'[q].queue),
                 tree'[x].queue[i] = tree'[q].queue[j]
          PROVE  x = q /\ i = j
      <4>1. CASE tree'[x].queue[i] = c
        <5>1. x = n /\ i = Len(tree[n].queue) + 1
          BY <1>1, <2>10, <4>1
        <5>2. q = n /\ j = Len(tree[n].queue) + 1
          BY <1>1, <2>10, <3>3, <4>1, ZenonT(60)
        <5> QED BY <5>1, <5>2
      <4>2. CASE tree'[x].queue[i] # c
        <5>1. x \in DOMAIN tree /\ i \in 1 .. Len(tree[x].queue) /\ tree'[x].queue[i] = tree[x].queue[i]
          BY <2>10, <4>2
        <5>2. q \in DOMAIN tree /\ j \in 1 .. Len(tree[q].queue) /\ tree'[q].queue[j] = tree[q].queue[j]
          BY <2>10, <3>3, <4>2
        <5>3. tree[x].queue[i] = tree[q].queue[j]
          BY <3>3, <5>1, <5>2
        <5> QED BY <5>1, <5>2, <5>3, DistinctEntries
      <4> QED BY <4>1, <4>2
    <3> QED BY <3>1, <3>2, <3>3 DEF QueuedOnce
  <2> QED BY <1>2, <2>8, <2>9, <2>11 DEF HierarchyInv
<1>4. CASE s.status # "queue"
  <2>1. tree' = tree /\ \E v \in {IntroFate(iface), "not_found"} : fate' = [fate EXCEPT ![c] = v]
    BY <1>4 DEF Receive
  <2>2. IntroFate(iface) \in {"introspected", "unknown_iface", "panic"}
    BY HierarchyAssumption DEF IntroFate
  <2>3. PICK v \in {"introspected", "unknown_iface", "panic", "not_found"} : fate' = [fate EXCEPT ![c] = v]
    BY <2>1, <2>2
  <2>4. fate' \in [Calls -> Routes!Fate]
    BY <2>3 DEF HierarchyInv, Routes!Fate
  <2>5. QueuedOnce(tree, fate')
    <3>1. ASSUME NEW n \in DOMAIN tree, NEW i \in 1 .. Len(tree[n].queue)
          PROVE  fate'[tree[n].queue[i]] = "queued"
      <4>1. fate[tree[n].queue[i]] = "queued" /\ tree[n].queue \in Seq(Calls)
        BY DEF HierarchyInv, QueuedOnce, IsTree, Handlers
      <4>2. tree[n].queue[i] \in Calls /\ tree[n].queue[i] # c
        BY <1>1, <4>1
      <4> QED BY <2>3, <4>1, <4>2 DEF HierarchyInv
    <3> QED BY <3>1 DEF HierarchyInv, QueuedOnce
  <2> QED BY <1>2, <2>1, <2>4, <2>5 DEF HierarchyInv
<1> QED BY <1>3, <1>4

\* A get_call future that reads its call keeps the invariant.
LEMMA ReceiveAtInv ==
  ASSUME HierarchyInv, NEW p \in Paths, NEW c \in Calls, ReceiveAt(p, c)
  PROVE  HierarchyInv'
<1>1. fate[c] = "unsent" /\ fate' = [fate EXCEPT ![c] = "taken"] /\ UNCHANGED <<tree, object>>
  BY DEF ReceiveAt
<1>2. fate' \in [Calls -> Routes!Fate]
  BY <1>1 DEF HierarchyInv, Routes!Fate
<1>3. QueuedOnce(tree, fate')
  <2>1. ASSUME NEW n \in DOMAIN tree, NEW i \in 1 .. Len(tree[n].queue)
        PROVE  fate'[tree[n].queue[i]] = "queued"
    <3>1. fate[tree[n].queue[i]] = "queued" /\ tree[n].queue \in Seq(Calls)
      BY DEF HierarchyInv, QueuedOnce, IsTree, Handlers
    <3>2. tree[n].queue[i] \in Calls /\ tree[n].queue[i] # c
      BY <1>1, <3>1
    <3> QED BY <1>1, <3>1, <3>2 DEF HierarchyInv
  <2> QED BY <2>1 DEF HierarchyInv, QueuedOnce
<1> QED BY <1>1, <1>2, <1>3 DEF HierarchyInv

\* What the receiver of a queue that is gone does keeps the invariant.
LEMMA ReleaseInv ==
  ASSUME HierarchyInv, NEW c \in Calls, NEW end, Release(c, end)
  PROVE  HierarchyInv'
<1>1. /\ fate[c] = "held" /\ fate' = [fate EXCEPT ![c] = end] /\ UNCHANGED <<tree, object>>
      /\ end \in {"taken", "discarded"}
  BY DEF Release
<1>2. fate' \in [Calls -> Routes!Fate]
  BY <1>1 DEF HierarchyInv, Routes!Fate
<1>3. QueuedOnce(tree, fate')
  <2>1. ASSUME NEW n \in DOMAIN tree, NEW i \in 1 .. Len(tree[n].queue)
        PROVE  fate'[tree[n].queue[i]] = "queued"
    <3>1. fate[tree[n].queue[i]] = "queued" /\ tree[n].queue \in Seq(Calls)
      BY DEF HierarchyInv, QueuedOnce, IsTree, Handlers
    <3>2. tree[n].queue[i] \in Calls /\ tree[n].queue[i] # c
      BY <1>1, <3>1
    <3> QED BY <1>1, <3>1, <3>2 DEF HierarchyInv
  <2> QED BY <2>1 DEF HierarchyInv, QueuedOnce
<1> QED BY <1>1, <1>2, <1>3 DEF HierarchyInv

\* Taking the first call of a queue keeps the invariant.
LEMMA TakeInv ==
  ASSUME HierarchyInv, NEW p \in Paths, Take(p)
  PROVE  HierarchyInv'
<1> DEFINE old == tree[p].queue
<1>1. /\ p \in DOMAIN tree /\ old # <<>> /\ fate' = [fate EXCEPT ![Head(old)] = "taken"]
      /\ tree' = [tree EXCEPT ![p].queue = Tail(@)] /\ object' = object
  BY DEF Take
<1>2. tree \in [DOMAIN tree -> Handlers] /\ fate \in [Calls -> Routes!Fate] /\ object \in [Calls -> Paths]
  BY DEF HierarchyInv, IsTree
<1>3. /\ old \in Seq(Calls) /\ Len(old) \in Nat \ {0} /\ Head(old) = old[1] /\ Head(old) \in Calls
      /\ Tail(old) \in Seq(Calls) /\ Len(Tail(old)) = Len(old) - 1
      /\ \A i \in 1 .. Len(Tail(old)) : Tail(old)[i] = old[i + 1]
  <2>1. old \in Seq(Calls)
    BY <1>1, <1>2 DEF Handlers
  <2> HIDE DEF old
  <2> QED BY <1>1, <2>1
<1>4. /\ DOMAIN tree' = DOMAIN tree
      /\ \A q \in DOMAIN tree \ {p} : tree'[q] = tree[q]
      /\ tree'[p].queue = Tail(old) /\ tree'[p].action = tree[p].action
      /\ tree' \in [DOMAIN tree -> Handlers]
  BY <1>1, <1>2, <1>3 DEF Handlers
<1>5. IsTree(tree') /\ LeadsToAction(tree')
  <2>1. \A q \in DOMAIN tree : tree'[q].action = tree[q].action
    BY <1>4
  <2> QED BY <1>4, <2>1, SameShape DEF HierarchyInv
<1>6. fate' \in [Calls -> Routes!Fate] /\ \A d \in Calls : d # old[1] => fate'[d] = fate[d]
  BY <1>1, <1>2, <1>3 DEF Routes!Fate
\* an entry of a queue was there before, at p one place further back
<1>7. ASSUME NEW q \in DOMAIN tree', NEW i \in 1 .. Len(tree'[q].queue)
      PROVE  LET k == IF q = p THEN i + 1 ELSE i IN
             /\ q \in DOMAIN tree /\ k \in 1 .. Len(tree[q].queue)
             /\ tree'[q].queue[i] = tree[q].queue[k] /\ tree[q].queue[k] \in Calls
  <2>1. tree[q].queue \in Seq(Calls) /\ q \in DOMAIN tree
    BY <1>2, <1>4 DEF Handlers
  <2>2. CASE q # p
    <3>1. tree'[q] = tree[q]
      BY <1>4, <2>2
    <3> QED BY <2>1, <2>2, <3>1
  <2>3. CASE q = p
    <3> HIDE DEF old
    <3>0. tree'[q].queue = Tail(old) /\ i \in 1 .. Len(Tail(old))
      BY <1>4, <1>7, <2>3
    <3>1. i + 1 \in 1 .. Len(old) /\ tree'[q].queue[i] = old[i + 1]
      BY <1>3, <3>0
    <3> USE DEF old
    <3> QED BY <2>1, <2>3, <3>1
  <2> QED BY <2>2, <2>3
<1>8. QueuedOnce(tree', fate')
  <2>1. \A q \in DOMAIN tree' : ~HasQueue(tree'[q]) => tree'[q].queue = <<>>
    <3>1. HasQueue(tree'[p])
      BY <1>1, <1>4 DEF HasQueue, HierarchyInv, QueuedOnce
    <3> QED BY <1>4, <3>1 DEF HierarchyInv, QueuedOnce
  <2>2. ASSUME NEW q \in DOMAIN tree', NEW i \in 1 .. Len(tree'[q].queue)
        PROVE  fate'[tree'[q].queue[i]] = "queued"
    <3> DEFINE k == IF q = p THEN i + 1 ELSE i
    <3>1. /\ q \in DOMAIN tree /\ k \in 1 .. Len(tree[q].queue)
          /\ tree'[q].queue[i] = tree[q].queue[k] /\ tree[q].queue[k] \in Calls
      BY <1>7
    <3>2. q # p \/ k # 1
      OBVIOUS
    <3> HIDE DEF k
    <3>3. fate[tree[q].queue[k]] = "queued"
      BY <3>1 DEF HierarchyInv, QueuedOnce
    <3>4. 1 \in 1 .. Len(old)
      BY <1>3
    <3>5. tree[q].queue[k] # old[1]
      <4>1. SUFFICES ASSUME tree[q].queue[k] = tree[p].queue[1] PROVE FALSE
        OBVIOUS
      <4>2. q = p /\ k = 1
        BY <1>1, <3>1, <3>4, <4>1, DistinctEntries
      <4> QED BY <3>2, <4>2
    <3> QED BY <1>6, <3>1, <3>3, <3>5
  <2>3. ASSUME NEW x \in DOMAIN tree', NEW q \in DOMAIN tree',
               NEW i \in 1 .. Len(tree'[x].queue), NEW j \in 1 .. Len(tree'[q].queue),
               tree'[x].queue[i] = tree'[q].queue[j]
        PROVE  x = q /\ i = j
    <3> DEFINE k == IF x = p THEN i + 1 ELSE i
               l == IF q = p THEN j + 1 ELSE j
    <3>1. x \in DOMAIN tree /\ k \in 1 .. Len(tree[x].queue) /\ tree'[x].queue[i] = tree[x].queue[k]
      BY <1>7
    <3>2. q \in DOMAIN tree /\ l \in 1 .. Len(tree[q].queue) /\ tree'[q].queue[j] = tree[q].queue[l]
      BY <1>7
    <3>3. x = q /\ k = l
      <4> HIDE DEF k, l
      <4>1. tree[x].queue[k] = tree[q].queue[l]
        BY <2>3, <3>1, <3>2
      <4> QED BY <3>1, <3>2, <4>1, DistinctEntries
    <3> QED BY <3>3
  <2> QED BY <2>1, <2>2, <2>3 DEF QueuedOnce
<1> QED BY <1>1, <1>2, <1>5, <1>6, <1>8 DEF HierarchyInv

\* Every step of the specification keeps the invariant.
LEMMA InvStep ==
  HierarchyInv /\ [Next]_vars => HierarchyInv'
<1>1. SUFFICES ASSUME HierarchyInv, [Next]_vars PROVE HierarchyInv'
  OBVIOUS
<1>2. ASSUME NEW p \in Paths, NEW a \in Action, NEW held \in SUBSET Waiting, InsertPath(p, a, held)
      PROVE  HierarchyInv'
  BY <1>1, <1>2, InsertInv
<1>3. ASSUME NEW c \in Calls, NEW i \in Ifaces, Receive(c, i) PROVE HierarchyInv'
  BY <1>1, <1>3, ReceiveInv
<1>4. ASSUME NEW p \in Paths, NEW c \in Calls, ReceiveAt(p, c) PROVE HierarchyInv'
  BY <1>1, <1>4, ReceiveAtInv
<1>5. ASSUME NEW p \in Paths, Take(p) PROVE HierarchyInv'
  BY <1>1, <1>5, TakeInv
<1>6. ASSUME NEW c \in Calls, NEW end \in {"taken", "discarded"}, Release(c, end) PROVE HierarchyInv'
  BY <1>1, <1>6, ReleaseInv
<1>7. CASE UNCHANGED vars
  BY <1>1, <1>7 DEF vars, HierarchyInv
<1> QED BY <1>1, <1>2, <1>3, <1>4, <1>5, <1>6, <1>7 DEF Next

\* The invariant of the tree that RpcConn keeps under its mutex: it is a tree,
\* every node but the root leads to an action, and a call is queued once, at a
\* node that queues, while its fate is "queued".
THEOREM Invariant == Spec => []HierarchyInv
<1>1. HierarchyInv /\ [Next]_vars => HierarchyInv'
  BY InvStep
<1> QED BY <1>1, InitInv, PTL DEF Spec

\* insert_inner leaves no leaf without an action, whatever is inserted and
\* nullified in whatever order (the test "trimming", routing.rs:680, tries one).
THEOREM AlwaysTrimmed == Spec => []Trimmed
<1>1. HierarchyInv => Trimmed
  BY TreeTrimmed DEF HierarchyInv
<1> QED BY <1>1, Invariant, PTL

\* send and is_match agree about every call in every reachable tree: the future
\* waiting where the call would be queued takes it, and no other does.
THEOREM AlwaysOneTaker == Spec => []OneTaker
<1>1. HierarchyInv => OneTaker
  BY TreeOneTaker DEF HierarchyInv
<1> QED BY <1>1, Invariant, PTL

\* In every reachable tree, introspection from an Intro path leads to every
\* queue below it that only Nothing and Intro separate from it.
THEOREM AlwaysDiscoverable == Spec => []Discoverable
<1>1. HierarchyInv => Discoverable
  BY TreeDiscoverable DEF HierarchyInv
<1> QED BY <1>1, Invariant, PTL

-----------------------------------------------------------------------------
(* The refinement                                                          *)

\* If Nothing is inserted only where there is a node, insert_inner removes no
\* action: what goes away had none.
LEMMA PrunedIdle ==
  ASSUME NEW t, IsTree(t), NEW p \in Paths, NEW a \in Action, a = "nothing" => p \in DOMAIN t,
         NEW q \in DOMAIN Reach(t, p, a), q \notin DOMAIN InsertInner(t, p, a)
  PROVE  Reach(t, p, a)[q].action = "nothing"
<1> DEFINE r == Reach(t, p, a)
           kept == Kept(t, p, a)
           C(k) == a = "nothing" /\ \A n \in DOMAIN r :
                                       IsPrefix(Up(p, k), n) => r[n].action = "nothing"
           S == {k \in 0 .. Len(p) : ~kept[k] => C(k)}
<1>1. Len(p) \in Nat /\ Up(p, Len(p)) = p
  BY PathSeq, UpEnds
<1>2. /\ \A n : n \in DOMAIN r <=> n \in DOMAIN t \/ \E k \in 0 .. Len(p) : n = Up(p, k)
      /\ r[p] = Handler(a) /\ IsTree(r)
  BY ReachTree
<1>3. DOMAIN r \subseteq Paths /\ \A n \in DOMAIN r : \A k \in 0 .. Len(n) : Up(n, k) \in DOMAIN r
  BY <1>2 DEF IsTree
\* a node below Up(p, k) is below one of its children
<1>4. ASSUME NEW k \in 0 .. Len(p), NEW n \in DOMAIN r, IsPrefix(Up(p, k), n), n # Up(p, k)
      PROVE  /\ Len(n) \in Nat /\ k + 1 \in 0 .. Len(n)
             /\ Up(n, k + 1) \in Children(r, Up(p, k)) /\ IsPrefix(Up(n, k + 1), n)
  <2>1. n \in Paths /\ Up(p, k) \in Paths /\ Len(Up(p, k)) = k /\ Len(n) \in Nat
    BY <1>3, PathSeq
  <2>2. k \in 0 .. Len(n) /\ Up(n, k) = Up(p, k)
    BY <1>4, <2>1, PrefixLength
  <2>3. k # Len(n)
    BY <1>4, <2>1, <2>2, UpEnds
  <2>4. k + 1 \in 0 .. Len(n) /\ k \in 0 .. k + 1
    BY <2>1, <2>2, <2>3
  <2>5. Up(n, k + 1) \in DOMAIN r /\ Len(Up(n, k + 1)) = k + 1
    BY <1>3, <2>1, <2>4, PathSeq
  <2>6. IsPrefix(Up(n, k), Up(n, k + 1)) /\ IsPrefix(Up(n, k + 1), n)
    BY <2>1, <2>4, UpPrefix
  <2> QED BY <2>1, <2>2, <2>4, <2>5, <2>6 DEF Children
<1>5. Len(p) \in S
  <2>1. SUFFICES ASSUME ~kept[Len(p)] PROVE C(Len(p))
    BY <1>1
  <2>2. a = "nothing" /\ Children(r, p) = {}
    BY <2>1, KeptFacts, Zenon
  <2>3. ASSUME NEW n \in DOMAIN r, IsPrefix(p, n) PROVE r[n].action = "nothing"
    <3>1. n = p
      <4>1. Len(p) \in 0 .. Len(p)
        BY <1>1
      <4> QED BY <1>1, <1>4, <2>2, <2>3, <4>1
    <3> QED BY <1>2, <2>2, <3>1 DEF Handler
  <2> QED BY <1>1, <2>2, <2>3
<1>6. \A k \in 0 .. Len(p) - 1 : k + 1 \in S => k \in S
  <2>1. SUFFICES ASSUME NEW k \in 0 .. Len(p) - 1, k + 1 \in S, ~kept[k] PROVE C(k)
    BY <1>1
  <2>2. k \in 0 .. Len(p) /\ k + 1 \in 0 .. Len(p)
    BY <1>1
  <2>3. /\ ~kept[k + 1] /\ r[Up(p, k)].action = "nothing"
        /\ ~(Up(p, k + 1) \in DOMAIN t /\ Children(t, Up(p, k)) # {Up(p, k + 1)})
    BY <2>1, KeptFacts, Zenon
  <2>4. C(k + 1)
    BY <2>1, <2>3, Zenon
  <2>5. \A j \in 0 .. Len(p) : Up(p, j) \in DOMAIN t
    BY <2>4 DEF IsTree
  <2>6. DOMAIN r = DOMAIN t
    BY <1>2, <2>5
  <2>7. Children(r, Up(p, k)) = {Up(p, k + 1)}
    BY <2>2, <2>3, <2>5, <2>6 DEF Children
  <2>8. ASSUME NEW n \in DOMAIN r, IsPrefix(Up(p, k), n) PROVE r[n].action = "nothing"
    <3>1. CASE n = Up(p, k)
      BY <2>3, <3>1
    <3>2. CASE n # Up(p, k)
      <4>1. Up(n, k + 1) = Up(p, k + 1) /\ IsPrefix(Up(n, k + 1), n)
        BY <1>4, <2>2, <2>7, <2>8, <3>2
      <4> QED BY <2>4, <4>1
    <3> QED BY <3>1, <3>2
  <2> QED BY <2>4, <2>8
<1>7. 0 .. Len(p) \subseteq S
  <2> HIDE DEF S
  <2> QED BY <1>1, <1>5, <1>6, DownInduction
<1>8. PICK k \in 1 .. Len(p) : IsPrefix(Up(p, k), q) /\ ~kept[k]
  BY InsertTree, Zenon
<1>9. k \in 0 .. Len(p)
  BY <1>1
<1>10. C(k)
  BY <1>7, <1>8, <1>9
<1> QED BY <1>8, <1>10

\* The refinement mapping, path by path.
LEMMA TableIs ==
  \A x \in Paths :
    /\ Acts[x] = IF x \in DOMAIN tree THEN tree[x].action ELSE "nothing"
    /\ QueueAt[x] = IF x \in DOMAIN tree THEN tree[x].queue ELSE <<>>
BY DEF Acts, QueueAt

\* insert_call_path changes one entry of the flat table.
LEMMA InsertIsInsert ==
  ASSUME NullifyOnly, HierarchyInv, NEW p \in Paths, NEW a \in Action,
         NEW held \in SUBSET Waiting, InsertPath(p, a, held)
  PROVE  Routes!Insert(p, a, p \in held)
<1> DEFINE r == Reach(tree, p, a)
<1>1. a = "nothing" => p \in DOMAIN tree
  BY DEF InsertPath
<1>2. IsTree(tree) /\ tree' = InsertInner(tree, p, a) /\ DOMAIN tree \subseteq Paths
  BY DEF InsertPath, HierarchyInv, IsTree
<1>3. /\ \A n : n \in DOMAIN r <=> n \in DOMAIN tree \/ \E k \in 0 .. Len(p) : n = Up(p, k)
      /\ p \in DOMAIN r /\ r[p].action = a /\ r[p].queue = <<>>
      /\ \A n \in DOMAIN tree : n # p => r[n] = tree[n]
      /\ \A n \in DOMAIN r \ DOMAIN tree : n # p => r[n].action = "nothing" /\ r[n].queue = <<>>
  <2>1. /\ \A n : n \in DOMAIN r <=> n \in DOMAIN tree \/ \E k \in 0 .. Len(p) : n = Up(p, k)
        /\ p \in DOMAIN r /\ r[p] = Handler(a)
        /\ \A n \in DOMAIN tree : n # p => r[n] = tree[n]
        /\ \A n \in DOMAIN r \ DOMAIN tree : n # p => r[n] = Handler("nothing")
    BY <1>2, ReachTree
  <2> HIDE DEF r
  <2> QED BY <2>1 DEF Handler
<1>4. \A n \in DOMAIN tree' : n \in DOMAIN r /\ tree'[n] = r[n]
  BY <1>2, InsertTree, ZenonT(60)
<1>5. \A n \in DOMAIN r : n \notin DOMAIN tree' => r[n].action = "nothing"
  BY <1>1, <1>2, PrunedIdle
<1>6. \A n \in DOMAIN tree : tree[n].action = "nothing" => tree[n].queue = <<>>
  BY DEF HierarchyInv, QueuedOnce, HasQueue
<1> HIDE DEF r
<1>7. ASSUME NEW x \in Paths
      PROVE  /\ Acts'[x] = IF x = p THEN a ELSE Acts[x]
             /\ QueueAt'[x] = IF x = p THEN <<>> ELSE QueueAt[x]
  <2>1. /\ Acts'[x] = IF x \in DOMAIN tree' THEN tree'[x].action ELSE "nothing"
        /\ QueueAt'[x] = IF x \in DOMAIN tree' THEN tree'[x].queue ELSE <<>>
    BY DEF Acts, QueueAt
  <2>2. /\ Acts[x] = IF x \in DOMAIN tree THEN tree[x].action ELSE "nothing"
        /\ QueueAt[x] = IF x \in DOMAIN tree THEN tree[x].queue ELSE <<>>
    BY TableIs
  <2>3. CASE x = p
    BY <1>3, <1>4, <1>5, <2>1, <2>3
  <2>4. CASE x # p /\ x \in DOMAIN tree'
    BY <1>3, <1>4, <2>1, <2>2, <2>4
  <2>5. CASE x # p /\ x \notin DOMAIN tree'
    <3>1. CASE x \in DOMAIN tree
      <4>1. tree[x].action = "nothing"
        BY <1>3, <1>5, <2>5, <3>1
      <4> QED BY <1>6, <2>1, <2>2, <2>5, <3>1, <4>1
    <3>2. CASE x \notin DOMAIN tree
      BY <2>1, <2>2, <2>5, <3>2
    <3> QED BY <3>1, <3>2
  <2> QED BY <2>3, <2>4, <2>5
<1>8. Acts' = [Acts EXCEPT ![p] = a] /\ QueueAt' = [QueueAt EXCEPT ![p] = <<>>]
  <2>1. /\ Acts = [x \in Paths |-> Acts[x]] /\ Acts' = [x \in Paths |-> Acts'[x]]
        /\ QueueAt = [x \in Paths |-> QueueAt[x]] /\ QueueAt' = [x \in Paths |-> QueueAt'[x]]
    BY DEF Acts, QueueAt
  <2> HIDE DEF Acts, QueueAt
  <2> QED BY <1>7, <2>1
<1>9. ASSUME NEW c
      PROVE  c \in Queued(tree) \ Queued(tree') <=> c \in ToSet(QueueAt[p])
  <2>1. ASSUME c \in ToSet(QueueAt[p]) PROVE c \in Queued(tree) /\ c \notin Queued(tree')
    <3>1. p \in DOMAIN tree /\ QueueAt[p] = tree[p].queue
      BY <2>1, TableIs DEF ToSet
    <3>2. tree[p].queue \in Seq(Calls)
      BY <1>2, <3>1 DEF IsTree, Handlers
    <3>3. PICK i \in 1 .. Len(tree[p].queue) : c = tree[p].queue[i]
      BY <2>1, <3>1, <3>2 DEF ToSet
    <3>4. c \in Queued(tree)
      BY <2>1, <3>1 DEF Queued
    <3>5. ASSUME c \in Queued(tree') PROVE FALSE
      <4>1. PICK n \in DOMAIN tree' : c \in ToSet(tree'[n].queue)
        BY <3>5 DEF Queued
      <4>2. tree'[n].queue # <<>>
        BY <4>1 DEF ToSet
      <4>3. n \in DOMAIN tree /\ n # p /\ tree'[n] = tree[n]
        BY <1>2, <4>2, InsertQueues
      <4>4. tree[n].queue \in Seq(Calls)
        BY <1>2, <4>3 DEF IsTree, Handlers
      <4>5. PICK j \in 1 .. Len(tree[n].queue) : c = tree[n].queue[j]
        BY <4>1, <4>3, <4>4 DEF ToSet
      <4> QED BY <3>1, <3>3, <4>3, <4>5, DistinctEntries
    <3> QED BY <3>4, <3>5
  <2>2. ASSUME c \in Queued(tree), c \notin Queued(tree') PROVE c \in ToSet(QueueAt[p])
    <3>1. PICK n \in DOMAIN tree : c \in ToSet(tree[n].queue)
      BY <2>2 DEF Queued
    <3>2. n \in Paths /\ QueueAt[n] = tree[n].queue
      BY <1>2, <3>1, TableIs
    <3>3. CASE n = p
      BY <3>1, <3>2, <3>3
    <3>4. CASE n # p
      <4>1. QueueAt'[n] = tree[n].queue /\ tree[n].queue # <<>>
        BY <1>7, <3>1, <3>2, <3>4 DEF ToSet
      <4>2. n \in DOMAIN tree' /\ tree'[n].queue = tree[n].queue
        BY <3>2, <4>1 DEF QueueAt
      <4> QED BY <2>2, <3>1, <4>2 DEF Queued
    <3> QED BY <3>3, <3>4
  <2> QED BY <2>1, <2>2
<1>10. ASSUME NEW c \in ToSet(QueueAt[p])
       PROVE  (\E n \in held : c \in ToSet(tree[n].queue)) <=> p \in held
  <2>1. p \in DOMAIN tree /\ QueueAt[p] = tree[p].queue
    BY TableIs DEF ToSet
  <2>2. ASSUME NEW n \in held, c \in ToSet(tree[n].queue) PROVE n = p
    <3>1. n \in DOMAIN tree
      BY DEF Waiting
    <3>2. tree[p].queue \in Seq(Calls) /\ tree[n].queue \in Seq(Calls)
      BY <1>2, <2>1, <3>1 DEF IsTree, Handlers
    <3>3. PICK i \in 1 .. Len(tree[p].queue) : c = tree[p].queue[i]
      BY <2>1, <3>2 DEF ToSet
    <3>4. PICK j \in 1 .. Len(tree[n].queue) : c = tree[n].queue[j]
      BY <2>2, <3>2 DEF ToSet
    <3> QED BY <2>1, <3>1, <3>3, <3>4, DistinctEntries
  <2> QED BY <2>1, <2>2
<1>11. fate' = [c \in Calls |-> IF c \in ToSet(QueueAt[p])
                               THEN IF p \in held THEN "held" ELSE "discarded" ELSE fate[c]]
  <2>1. fate' = [c \in Calls |->
          IF c \notin Queued(tree) \ Queued(tree') THEN fate[c]
          ELSE IF \E n \in held : c \in ToSet(tree[n].queue) THEN "held" ELSE "discarded"]
    BY DEF InsertPath
  <2> QED BY <1>9, <1>10, <2>1
<1>12. object' = object
  BY DEF InsertPath
<1>13. ToSet(QueueAt[p]) = Routes!ToSet(QueueAt[p])
  BY DEF ToSet, Routes!ToSet
<1> HIDE DEF Acts, QueueAt
<1> QED BY <1>8, <1>11, <1>12, <1>13 DEF Routes!Insert

\* The path whose action decides is the deepest one on the way that acts.
LEMMA RouteIsDeepest ==
  ASSUME IsTree(tree), NEW m \in Paths, NEW j, Deepest(tree, m, 0, j)
  PROVE  Routes!Route(m) = Up(m, j) /\ Up(m, j) \in Paths /\ Up(m, j) # None
<1>1. j \in 0 .. Len(m) /\ Len(m) \in Nat /\ 0 \in 0 .. j
  BY PathSeq DEF Deepest
<1>2. Up(m, j) \in Paths /\ Len(Up(m, j)) = j /\ IsPrefix(Up(m, j), m)
  BY <1>1, PathSeq, UpPrefix
<1>3. \A x, y : Routes!IsPrefix(x, y) <=> IsPrefix(x, y)
  BY DEF Routes!IsPrefix, IsPrefix
<1>4. Acts[Up(m, j)] # "nothing"
  BY <1>2, TableIs DEF Deepest, Acting
<1> DEFINE Reg == Routes!Registered(m)
<1>5. Up(m, j) \in Reg
  BY <1>2, <1>3, <1>4 DEF Routes!Registered
<1>6. ASSUME NEW q \in Reg PROVE Len(q) \in 0 .. j /\ Up(m, Len(q)) = q
  <2>1. q \in Paths /\ IsPrefix(q, m) /\ Acts[q] # "nothing"
    BY <1>3 DEF Routes!Registered
  <2>2. Len(q) \in 0 .. Len(m) /\ Up(m, Len(q)) = q
    BY <2>1, PrefixLength
  <2>3. Acting(tree, m, Len(q))
    BY <2>1, <2>2, TableIs DEF Acting
  <2>4. ~(Len(q) \in j + 1 .. Len(m))
    BY <2>3 DEF Deepest
  <2> QED BY <1>1, <2>2, <2>4
<1> HIDE DEF Reg
<1>7. \A q \in Reg : Len(q) <= Len(Up(m, j))
  BY <1>1, <1>2, <1>6
<1>8. ASSUME NEW x \in Reg, \A q \in Reg : Len(q) <= Len(x) PROVE x = Up(m, j)
  <2>1. Len(x) \in 0 .. j /\ j <= Len(x) /\ Up(m, Len(x)) = x
    BY <1>2, <1>5, <1>6, <1>8
  <2>2. Len(x) = j
    BY <1>1, <2>1
  <2> QED BY <2>1, <2>2
<1>9. (CHOOSE x \in Reg : \A q \in Reg : Len(q) <= Len(x)) = Up(m, j)
  BY <1>5, <1>7, <1>8
<1>10. Reg # {} /\ Routes!Route(m) = CHOOSE x \in Reg : \A q \in Reg : Len(q) <= Len(x)
  BY <1>5 DEF Routes!Route, Reg
<1> QED BY <1>2, <1>9, <1>10, HierarchyAssumption

\* Without an action on the way there is no route.
LEMMA NoRoute ==
  ASSUME IsTree(tree), NEW m \in Paths, \A j \in 0 .. Len(m) : ~Acting(tree, m, j)
  PROVE  Routes!Route(m) = None
<1>1. ASSUME NEW q \in Routes!Registered(m) PROVE FALSE
  <2>1. q \in Paths /\ IsPrefix(q, m) /\ Acts[q] # "nothing"
    BY DEF Routes!Registered, Routes!IsPrefix, IsPrefix
  <2>2. Len(q) \in 0 .. Len(m) /\ Up(m, Len(q)) = q
    BY <2>1, PrefixLength
  <2> QED BY <2>1, <2>2, TableIs DEF Acting
<1> QED BY <1>1 DEF Routes!Route

\* The next node on the way exists if it leads to an action.
LEMMA BelowIsNode ==
  ASSUME IsTree(tree), LeadsToAction(tree), NEW m \in Paths, NEW j \in 0 .. Len(m)
  PROVE  /\ m = Up(m, j) <=> j = Len(m)
         /\ Routes!Below(Up(m, j), m) <=> j = Len(m) \/ Up(m, j + 1) \in DOMAIN tree
<1>1. Len(m) \in Nat /\ Up(m, Len(m)) = m /\ Up(m, j) \in Paths /\ Len(Up(m, j)) = j
  BY PathSeq, UpEnds
<1>2. m = Up(m, j) <=> j = Len(m)
  BY <1>1
<1>3. CASE j = Len(m)
  BY <1>2, <1>3 DEF Routes!Below
<1>4. CASE j # Len(m)
  <2>1. j + 1 \in 0 .. Len(m) /\ j + 1 # 0
    BY <1>1, <1>4
  <2>2. Routes!Below(Up(m, j), m) <=> Routes!Known(Up(m, j + 1))
    BY <1>1, <1>2, <1>4 DEF Routes!Below, Up
  <2>3. \A x, y : Routes!IsPrefix(x, y) <=> IsPrefix(x, y)
    BY DEF Routes!IsPrefix, IsPrefix
  <2>4. Up(m, j + 1) \in Paths /\ Up(m, j + 1) # <<>> /\ Len(Up(m, j + 1)) = j + 1
    BY <2>1, PathSeq
  <2>5. ASSUME Routes!Known(Up(m, j + 1)) PROVE Up(m, j + 1) \in DOMAIN tree
    <3>1. PICK q \in Paths : IsPrefix(Up(m, j + 1), q) /\ Acts[q] # "nothing"
      BY <2>3, <2>5 DEF Routes!Known
    <3>2. q \in DOMAIN tree
      BY <3>1, TableIs
    <3>3. j + 1 \in 0 .. Len(q) /\ Up(q, j + 1) = Up(m, j + 1)
      BY <2>4, <3>1, PrefixLength
    <3> QED BY <3>2, <3>3 DEF IsTree
  <2>6. ASSUME Up(m, j + 1) \in DOMAIN tree PROVE Routes!Known(Up(m, j + 1))
    <3>1. PICK q \in DOMAIN tree : IsPrefix(Up(m, j + 1), q) /\ tree[q].action # "nothing"
      BY <2>4, <2>6 DEF LeadsToAction
    <3>2. q \in Paths /\ Acts[q] # "nothing"
      BY <3>1, TableIs DEF IsTree
    <3> QED BY <2>3, <3>1, <3>2 DEF Routes!Known
  <2> QED BY <1>2, <1>4, <2>2, <2>5, <2>6
<1> QED BY <1>3, <1>4

\* queue_msg of a call is the table's Receive: queued, answered or refused as
\* the nearest enclosing action says.
LEMMA ReceiveIsReceive ==
  ASSUME HierarchyInv, NEW c \in Calls, NEW iface \in Ifaces, Receive(c, iface)
  PROVE  Routes!Receive(c, iface)
<1> DEFINE m == object[c]
           s == SendInner(tree, m)[0]
           r == Routes!Route(m)
<1>1. m \in Paths /\ IsTree(tree) /\ LeadsToAction(tree) /\ fate[c] = "unsent" /\ object' = object
  BY DEF HierarchyInv, Receive
<1>2. 0 \in 0 .. Len(m) /\ Up(m, 0) \in DOMAIN tree /\ Len(m) \in Nat
  BY <1>1, PathSeq, UpEnds DEF IsTree
<1>3. CASE (\A j \in 0 .. Len(m) : ~Acting(tree, m, j)) /\ s = Unhandled(EndNode(tree, m))
  <2>1. r = None
    BY <1>1, <1>3, NoRoute
  <2>2. s.status = "unhandled"
    BY <1>3 DEF Unhandled
  <2>3. fate' = [fate EXCEPT ![c] = "not_found"] /\ tree' = tree
    BY <2>2 DEF Receive
  <2>4. Acts' = Acts /\ QueueAt' = QueueAt
    BY <2>3 DEF Acts, QueueAt
  <2> HIDE DEF Acts, QueueAt
  <2> QED BY <1>1, <2>1, <2>3, <2>4 DEF Routes!Receive
<1>4. CASE \E j \in 0 .. Len(m) : Deepest(tree, m, 0, j) /\ s = Decide(tree, m, j)
  <2>1. PICK j \in 0 .. Len(m) : Deepest(tree, m, 0, j) /\ s = Decide(tree, m, j)
    BY <1>4
  <2>2. r = Up(m, j) /\ r \in Paths /\ r # None
    BY <1>1, <2>1, RouteIsDeepest
  <2>3. r \in DOMAIN tree /\ Acts[r] = tree[r].action
    BY <2>1, <2>2, TableIs DEF Deepest, Acting
  <2>4. /\ m = r <=> j = Len(m)
        /\ Routes!Below(r, m) <=> j = Len(m) \/ Up(m, j + 1) \in DOMAIN tree
    BY <1>1, <2>2, BelowIsNode
  <2>5. CASE tree[r].action = "queue" \/ (tree[r].action = "exact" /\ j = Len(m))
    <3>1. s = ToQueue(r)
      BY <2>1, <2>2, <2>5 DEF Decide
    <3>2. /\ tree' = [tree EXCEPT ![r].queue = Append(@, c)]
          /\ fate' = [fate EXCEPT ![c] = "queued"]
      BY <3>1 DEF Receive, ToQueue
    <3>3. Routes!Queues(r, m)
      BY <2>3, <2>4, <2>5 DEF Routes!Queues
    <3>4. tree \in [DOMAIN tree -> Handlers]
      BY <1>1 DEF IsTree
    <3>5. /\ DOMAIN tree' = DOMAIN tree /\ \A x \in DOMAIN tree \ {r} : tree'[x] = tree[x]
          /\ tree'[r].action = tree[r].action /\ tree'[r].queue = Append(tree[r].queue, c)
      <4> HIDE DEF r, m
      <4>1. tree[r] \in Handlers
        BY <2>3, <3>4
      <4> QED BY <2>3, <3>2, <3>4, <4>1 DEF Handlers
    <3>6. Acts' = Acts /\ QueueAt' = [QueueAt EXCEPT ![r] = Append(@, c)]
      <4> HIDE DEF r, m
      <4> QED BY <2>2, <2>3, <3>5 DEF Acts, QueueAt
    <3> HIDE DEF Acts, QueueAt
    <3> QED BY <1>1, <2>2, <3>2, <3>3, <3>6 DEF Routes!Receive
  <2>6. CASE ~(tree[r].action = "queue" \/ (tree[r].action = "exact" /\ j = Len(m)))
    <3>1. ~Routes!Queues(r, m)
      BY <2>3, <2>4, <2>6 DEF Routes!Queues
    <3>2. s.status = IF tree[r].action = "intro" /\ Routes!Below(r, m) THEN "intro" ELSE "dropped"
      BY <2>1, <2>2, <2>4, <2>6 DEF Decide, Introspect, Dropped
    <3>3. /\ fate' = [fate EXCEPT ![c] = IF s.status = "intro" THEN IntroFate(iface) ELSE "not_found"]
          /\ tree' = tree
      BY <3>2 DEF Receive
    <3>4. Acts' = Acts /\ QueueAt' = QueueAt
      BY <3>3 DEF Acts, QueueAt
    <3>5. fate' = [fate EXCEPT ![c] = IF r # None /\ Acts[r] = "intro" /\ Routes!Below(r, m)
                                      THEN IntroFate(iface) ELSE "not_found"]
      BY <2>2, <2>3, <3>2, <3>3
    <3> HIDE DEF Acts, QueueAt
    <3> QED BY <1>1, <2>2, <3>1, <3>4, <3>5 DEF Routes!Receive, IntroFate
  <2> QED BY <2>5, <2>6
<1> QED BY <1>1, <1>2, <1>3, <1>4, Routed

\* A get_call future that reads its call is the table's ReceiveAt.
LEMMA ReceiveAtIsReceiveAt ==
  ASSUME OwnCallsOnly, HierarchyInv, NEW p \in Paths, NEW c \in Calls, ReceiveAt(p, c)
  PROVE  Routes!ReceiveAt(p, c)
<1> DEFINE m == object[c]
<1>1. /\ m \in Paths /\ IsTree(tree) /\ LeadsToAction(tree) /\ fate[c] = "unsent"
      /\ IsMatch(tree, p, m) /\ fate' = [fate EXCEPT ![c] = "taken"]
      /\ tree[p].action = "exact" => m = p
      /\ UNCHANGED <<tree, object>>
  BY DEF HierarchyInv, ReceiveAt
<1>2. p \in DOMAIN tree
  BY <1>1 DEF IsMatch
<1>3. /\ Len(p) \in 0 .. Len(m) /\ Up(m, Len(p)) = p
      /\ Deepest(tree, m, 0, Len(p)) /\ HasQueue(tree[p])
      /\ tree[p].action = "queue" \/ m = p \/ Up(m, Len(p) + 1) \in DOMAIN tree
  BY <1>1, <1>2, MatchIsDeepest
<1>4. Routes!Route(m) = p
  BY <1>1, <1>3, RouteIsDeepest
<1>5. Acts[p] = tree[p].action
  BY <1>2, TableIs
<1>6. Routes!Queues(p, m)
  BY <1>1, <1>3, <1>5 DEF Routes!Queues, HasQueue
<1>7. Acts' = Acts /\ QueueAt' = QueueAt
  BY <1>1 DEF Acts, QueueAt
<1> HIDE DEF Acts, QueueAt
<1> QED BY <1>1, <1>4, <1>6, <1>7 DEF Routes!ReceiveAt

\* Taking from the queue of a node is taking from the table's queue.
LEMMA TakeIsTake ==
  ASSUME HierarchyInv, NEW p \in Paths, Take(p)
  PROVE  Routes!Take(p)
<1>1. /\ p \in DOMAIN tree /\ tree[p].queue # <<>> /\ object' = object
      /\ fate' = [fate EXCEPT ![Head(tree[p].queue)] = "taken"]
      /\ tree' = [tree EXCEPT ![p].queue = Tail(@)]
  BY DEF Take
<1>2. QueueAt[p] = tree[p].queue /\ tree \in [DOMAIN tree -> Handlers]
  BY <1>1, TableIs DEF HierarchyInv, IsTree
<1>3. /\ DOMAIN tree' = DOMAIN tree /\ \A x \in DOMAIN tree \ {p} : tree'[x] = tree[x]
      /\ tree'[p].action = tree[p].action /\ tree'[p].queue = Tail(tree[p].queue)
  <2>1. tree[p] \in Handlers
    BY <1>1, <1>2
  <2> QED BY <1>1, <1>2, <2>1 DEF Handlers
<1>4. Acts' = Acts /\ QueueAt' = [QueueAt EXCEPT ![p] = Tail(@)]
  BY <1>1, <1>3 DEF Acts, QueueAt
<1> HIDE DEF Acts, QueueAt
<1> QED BY <1>1, <1>2, <1>4 DEF Routes!Take

\* The tree with nothing but the root is the empty table.
LEMMA InitIsInit ==
  Init => Routes!Init
<1>1. SUFFICES ASSUME Init PROVE Routes!Init
  OBVIOUS
<1>2. DOMAIN tree = {<<>>} /\ tree[<<>>].action = "drop" /\ tree[<<>>].queue = <<>>
  BY <1>1 DEF Init, Handler
<1>3. /\ Acts = [p \in Paths |-> IF p = <<>> THEN "drop" ELSE "nothing"]
      /\ QueueAt = [p \in Paths |-> <<>>]
  BY <1>2 DEF Acts, QueueAt
<1> HIDE DEF Acts, QueueAt
<1> QED BY <1>1, <1>3 DEF Init, Routes!Init

\* The tree of routing.rs implements the flat table of actions and queues, as
\* long as Nothing is inserted only where there is a node (without that an
\* insert of Nothing can remove other paths, see InsertIsLocal) and a get_call
\* future at an Exact path meets no call of a child that is a node (without that
\* it takes it, routing.rs:254, where send refuses it).
THEOREM Refinement ==
  ASSUME NullifyOnly, OwnCallsOnly
  PROVE  Spec => FlatTable
<1>1. HierarchyInv /\ [Next]_vars => [Routes!Next]_(Routes!vars)
  <2>1. SUFFICES ASSUME HierarchyInv, [Next]_vars PROVE [Routes!Next]_(Routes!vars)
    OBVIOUS
  <2>2. ASSUME NEW p \in Paths, NEW a \in Action, NEW held \in SUBSET Waiting, InsertPath(p, a, held)
        PROVE  Routes!Next
    <3>1. Routes!Insert(p, a, p \in held)
      BY <2>1, <2>2, InsertIsInsert
    <3>2. a \in Routes!Action /\ (p \in held) \in BOOLEAN
      BY DEF Action, Routes!Action
    <3> QED BY <3>1, <3>2 DEF Routes!Next
  <2>3. ASSUME NEW c \in Calls, NEW i \in Ifaces, Receive(c, i) PROVE Routes!Next
    <3>1. Routes!Receive(c, i)
      BY <2>1, <2>3, ReceiveIsReceive
    <3>2. i \in Routes!Iface
      BY HierarchyAssumption DEF Routes!Iface
    <3> QED BY <3>1, <3>2 DEF Routes!Next
  <2>4. ASSUME NEW p \in Paths, NEW c \in Calls, ReceiveAt(p, c) PROVE Routes!Next
    <3>1. Routes!ReceiveAt(p, c)
      BY <2>1, <2>4, ReceiveAtIsReceiveAt
    <3> QED BY <3>1 DEF Routes!Next
  <2>5. ASSUME NEW p \in Paths, Take(p) PROVE Routes!Next
    <3>1. Routes!Take(p)
      BY <2>1, <2>5, TakeIsTake
    <3> QED BY <3>1 DEF Routes!Next
  <2>6. ASSUME NEW c \in Calls, NEW end \in {"taken", "discarded"}, Release(c, end) PROVE Routes!Next
    <3>1. Acts' = Acts /\ QueueAt' = QueueAt
      BY <2>6 DEF Release, Acts, QueueAt
    <3> HIDE DEF Acts, QueueAt
    <3>2. Routes!Release(c, end)
      BY <2>6, <3>1 DEF Release, Routes!Release
    <3>3. end \in Routes!Fate
      BY DEF Routes!Fate
    <3> QED BY <3>2, <3>3 DEF Routes!Next
  <2>7. CASE UNCHANGED vars
    <3>1. UNCHANGED Routes!vars
      BY <2>7 DEF vars, Routes!vars, Acts, QueueAt
    <3> QED BY <3>1
  <2> QED BY <2>1, <2>2, <2>3, <2>4, <2>5, <2>6, <2>7 DEF Next
<1> QED BY <1>1, InitIsInit, Invariant, PTL DEF Spec, FlatTable, Routes!Spec


-----------------------------------------------------------------------------
(* The empty map (get_empty_map)                                           *)

\* The flag is 0, nothing is written and nobody is past the first load.
LEMMA MapInitInv == MapInit => MapInv
  BY DEF MapInit, MapInv, MapTypes, FlagInv, Writing

\* Every step of every thread keeps what the flag says true.
LEMMA MapNextInv == MapInv /\ [MapNext]_mapVars => MapInv'
<1> SUFFICES ASSUME MapInv, [MapNext]_mapVars PROVE MapInv'
  OBVIOUS
<1> USE DEF MapInv, MapTypes, FlagInv, Writing, Goto
<1>1. ASSUME NEW t \in Threads, Load(t) PROVE MapInv'
  BY <1>1 DEF Load
<1>2. ASSUME NEW t \in Threads, Cas(t) PROVE MapInv'
  BY <1>2 DEF Cas
<1>3. ASSUME NEW t \in Threads, Write(t) PROVE MapInv'
  <2>1. flag = 1
    BY <1>3 DEF Write
  <2> QED
    BY <1>3, <2>1 DEF Write
<1>4. ASSUME NEW t \in Threads, Store(t) PROVE MapInv'
  BY <1>4 DEF Store
<1>5. ASSUME NEW t \in Threads, Spin(t) PROVE MapInv'
  BY <1>5 DEF Spin
<1>6. ASSUME NEW t \in Threads, UseMap(t) PROVE MapInv'
  BY <1>6 DEF UseMap
<1>7. CASE UNCHANGED mapVars
  BY <1>7 DEF mapVars
<1> QED
  BY <1>1, <1>2, <1>3, <1>4, <1>5, <1>6, <1>7 DEF MapNext, MapStep

\* What the flag says implies that the map is written before it is used.
LEMMA MapInvUse == MapInv => WrittenBeforeUse
  BY DEF MapInv, MapTypes, FlagInv, Writing, WrittenBeforeUse

\* init_empty_map, for any number of threads: the map is written at most once,
\* with no other thread holding a reference to it, and before any use.
THEOREM MapWrittenBeforeUse == MapSpec => []WrittenBeforeUse
<1>1. MapSpec => []MapInv
  BY MapInitInv, MapNextInv, PTL DEF MapSpec
<1> QED
  BY <1>1, MapInvUse, PTL
=============================================================================
