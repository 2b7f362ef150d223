--------------------------- MODULE SequenceLemmas ---------------------------
(***************************************************************************)
(* What the operators of Sublists make of a sequence, for every sequence.  *)
(* Induction is over sets of numbers: the provers cannot instantiate the   *)
(* theorem for operators.                                                  *)
(***************************************************************************)
EXTENDS Sublists, SequencesExt, SequenceTheorems, WellFoundedInduction, TLAPS

\* A set with 0 and the successor of every number in it has them all.
LEMMA InductionOnSets ==
    ASSUME NEW T, 0 \in T, \A n \in Nat : n \in T => n + 1 \in T
    PROVE  Nat \subseteq T
<1> DEFINE R == {ss \in Nat \X Nat : ss[1] < ss[2]}
<1> DEFINE Missing == Nat \ T
<1>1. IsWellFoundedOn(R, Nat)
  BY NatLessThanWellFounded DEF OpToRel
<1>2. \A a, b \in Nat : a < b => <<a, b>> \in R
  OBVIOUS
<1> HIDE DEF R
<1>3. CASE Missing # {}
  <2>1. PICK n \in Missing : \A k \in Missing : ~(<<k, n>> \in R)
    BY <1>1, <1>3, WFMin
  <2>2. n \in Nat /\ n # 0 /\ n - 1 \in Nat /\ n - 1 < n
    OBVIOUS
  <2>3. n - 1 \in T
    BY <2>1, <2>2, <1>2
  <2>4. (n - 1) + 1 \in T
    BY <2>2, <2>3
  <2> QED
    BY <2>2, <2>4
<1>4. QED
  BY <1>3

\* Values of V, each made of the one before it: the provers find instances of the
\* lemma below only when these are not unfolded.
Stepping(step, n, V) == step \in [(1 .. n) \X V -> V]
Steps(f, step, b, n, V) ==
    f \in [0 .. n -> V] /\ f[0] = b /\ \A i \in 1 .. n : f[i] = step[<<i, f[i - 1]>>]

\* They exist.
LEMMA StepsExist ==
    ASSUME NEW V, NEW b \in V, NEW n \in Nat, NEW step, Stepping(step, n, V)
    PROVE  \E f : Steps(f, step, b, n, V)
<1> USE DEF Stepping
<1> DEFINE Good(f, m) == f[0] = b /\ \A i \in 1 .. m : f[i] = step[<<i, f[i - 1]>>]
<1> DEFINE T == {m \in Nat : m <= n => \E f \in [0 .. m -> V] : Good(f, m)}
<1>1. 0 \in T
  <2>1. [i \in 0 .. 0 |-> b] \in [0 .. 0 -> V] /\ Good([i \in 0 .. 0 |-> b], 0)
    OBVIOUS
  <2> QED
    BY <2>1
<1>2. ASSUME NEW m \in Nat, m \in T PROVE m + 1 \in T
  <2>1. SUFFICES ASSUME m + 1 <= n PROVE \E f \in [0 .. m + 1 -> V] : Good(f, m + 1)
    OBVIOUS
  <2>2. PICK f \in [0 .. m -> V] : Good(f, m)
    BY <1>2, <2>1
  <2> DEFINE x == step[<<m + 1, f[m]>>]
  <2> DEFINE g == [i \in 0 .. m + 1 |-> IF i = m + 1 THEN x ELSE f[i]]
  <2>3. x \in V
    <3>1. f[m] \in V /\ m + 1 \in 1 .. n
      BY <2>1
    <3> QED
      BY <3>1
  <2>4. g \in [0 .. m + 1 -> V]
    BY <2>3
  <2>5. g[0] = b
    BY <2>2
  <2>6. ASSUME NEW i \in 1 .. m + 1 PROVE g[i] = step[<<i, g[i - 1]>>]
    <3>1. CASE i = m + 1
      <4>1. g[i] = x /\ g[i - 1] = f[m]
        BY <3>1
      <4> QED
        BY <3>1, <4>1
    <3>2. CASE i # m + 1
      <4>1. g[i] = f[i] /\ g[i - 1] = f[i - 1] /\ i \in 1 .. m
        BY <3>2
      <4> QED
        BY <2>2, <4>1
    <3> QED
      BY <3>1, <3>2
  <2> QED
    BY <2>4, <2>5, <2>6
<1>3. n \in T
  <2> HIDE DEF T
  <2> QED
    BY <1>1, <1>2, InductionOnSets
<1> QED
  BY <1>3 DEF Steps

\* f holds what Kept makes of the beginnings of s.
KeptRun(f, s, K, S) ==
    /\ f \in [0 .. Len(s) -> Seq(S)]
    /\ f[0] = <<>>
    /\ \A n \in 1 .. Len(s) : f[n] = IF n \in K THEN Append(f[n - 1], s[n]) ELSE f[n - 1]
    /\ Kept(s, K) = f[Len(s)]

\* The recursion of Kept is well-defined.
LEMMA KeptSteps ==
    ASSUME NEW S, NEW s \in Seq(S), NEW K \in SUBSET DOMAIN s
    PROVE  \E f : KeptRun(f, s, K, S)
<1> DEFINE N == Len(s)
<1> DEFINE V == Seq(S)
<1> DEFINE step == [p \in (1 .. N) \X V |-> IF p[1] \in K THEN Append(p[2], s[p[1]]) ELSE p[2]]
<1> DEFINE Body(f) ==
        [n \in 0 .. Len(s) |->
            IF n = 0 THEN <<>> ELSE IF n \in K THEN Append(f[n - 1], s[n]) ELSE f[n - 1]]
<1>1. N \in Nat /\ DOMAIN s = 1 .. N /\ <<>> \in V /\ \A i \in 1 .. N : s[i] \in S
  BY LenProperties, ElementOfSeq, EmptySeq
<1>2. Stepping(step, N, V)
  <2>1. ASSUME NEW p \in (1 .. N) \X V PROVE (IF p[1] \in K THEN Append(p[2], s[p[1]]) ELSE p[2]) \in V
    <3>1. p[1] \in 1 .. N /\ p[2] \in Seq(S) /\ s[p[1]] \in S
      BY <1>1
    <3> QED
      BY <3>1, AppendProperties
  <2> QED
    BY <2>1 DEF Stepping
<1>3. PICK g : Steps(g, step, <<>>, N, V)
  <2>1. N \in Nat /\ <<>> \in V
    BY <1>1
  <2> HIDE DEF step, N, V
  <2> QED
    BY <1>2, <2>1, StepsExist
<1>4. ASSUME NEW i \in 1 .. N PROVE g[i] = IF i \in K THEN Append(g[i - 1], s[i]) ELSE g[i - 1]
  <2>1. g[i - 1] \in V /\ g[i] = step[<<i, g[i - 1]>>]
    <3> HIDE DEF step, V
    <3> QED
      BY <1>1, <1>3 DEF Steps
  <2>2. <<i, g[i - 1]>> \in (1 .. N) \X V
    BY <2>1
  <2>3. step[<<i, g[i - 1]>>] = IF i \in K THEN Append(g[i - 1], s[i]) ELSE g[i - 1]
    BY <2>2
  <2> QED
    BY <2>1, <2>3
<1>5. g = Body(g)
  <2>1. ASSUME NEW n \in 0 .. N PROVE g[n] = Body(g)[n]
    <3>1. CASE n = 0
      BY <1>3, <3>1 DEF Steps
    <3>2. CASE n # 0
      <4>1. n \in 1 .. N
        BY <1>1, <3>2
      <4> QED
        BY <1>4, <4>1, <3>2
    <3> QED
      BY <3>1, <3>2
  <2>2. DOMAIN Body(g) = 0 .. N /\ Body(g) = [n \in 0 .. N |-> Body(g)[n]]
    OBVIOUS
  <2>3. g = [n \in 0 .. N |-> g[n]]
    BY <1>3 DEF Steps
  <2> HIDE DEF Body
  <2> QED
    BY <2>1, <2>2, <2>3
<1> DEFINE h == CHOOSE f : f = Body(f)
<1>6. h = Body(h)
  <2> HIDE DEF Body
  <2> QED
    BY <1>5
<1>7. Kept(s, K) = h[Len(s)]
  BY DEF Kept
<1>8. DOMAIN h = 0 .. N /\ h[0] = <<>>
      /\ \A n \in 1 .. N : h[n] = IF n \in K THEN Append(h[n - 1], s[n]) ELSE h[n - 1]
  <2> HIDE DEF h
  <2>1. DOMAIN h = 0 .. N
    BY <1>6
  <2>2. ASSUME NEW n \in 0 .. N
        PROVE  h[n] = IF n = 0 THEN <<>> ELSE IF n \in K THEN Append(h[n - 1], s[n]) ELSE h[n - 1]
    BY <1>6
  <2>3. h[0] = <<>>
    BY <2>2, <1>1
  <2>4. ASSUME NEW n \in 1 .. N
        PROVE  h[n] = IF n \in K THEN Append(h[n - 1], s[n]) ELSE h[n - 1]
    <3>1. n \in 0 .. N /\ n # 0
      BY <1>1
    <3> QED
      BY <2>2, <3>1
  <2> QED
    BY <2>1, <2>3, <2>4
<1> HIDE DEF h
<1> DEFINE T == {m \in Nat : m <= N => h[m] \in V}
<1>10. \A m \in 0 .. N : h[m] \in V
  <2>1. 0 \in T
    BY <1>1, <1>8
  <2>2. ASSUME NEW m \in Nat, m \in T PROVE m + 1 \in T
    <3>1. SUFFICES ASSUME m + 1 <= N PROVE h[m + 1] \in V
      OBVIOUS
    <3>2. h[m] \in V /\ m + 1 \in 1 .. N /\ (m + 1) - 1 = m
      BY <2>2, <3>1, <1>1
    <3>3. s[m + 1] \in S /\ h[m + 1] = IF m + 1 \in K THEN Append(h[m], s[m + 1]) ELSE h[m]
      BY <3>2, <1>1, <1>8
    <3> QED
      BY <3>2, <3>3, AppendProperties
  <2>3. Nat \subseteq T
    <3> HIDE DEF T
    <3> QED
      BY <2>1, <2>2, InductionOnSets
  <2> QED
    BY <2>3, <1>1
<1>11. h \in [0 .. N -> V]
  <2>1. h = [m \in 0 .. N |-> h[m]]
    <3>1. Body(h) = [m \in 0 .. N |-> Body(h)[m]]
      OBVIOUS
    <3> HIDE DEF Body
    <3> QED
      BY <1>6, <3>1
  <2> QED
    BY <2>1, <1>10
<1>12. KeptRun(h, s, K, S)
  BY <1>7, <1>8, <1>11 DEF KeptRun
<1> QED
  BY <1>12

\* r has the elements of s at the places K in their order: e says which is where.
Places(e, r, s, K) ==
    /\ e \in [1 .. Len(r) -> K]
    /\ \A i, j \in 1 .. Len(r) : i < j => e[i] < e[j]
    /\ \A k \in K : \E i \in 1 .. Len(r) : e[i] = k
    /\ \A i \in 1 .. Len(r) : r[i] = s[e[i]]

KeptUpTo(r, s, K, m) == Len(r) <= m /\ \E e : Places(e, r, s, K \cap (1 .. m))

\* What Kept returns.
LEMMA KeptPlaces ==
    ASSUME NEW S, NEW s \in Seq(S), NEW K \in SUBSET DOMAIN s
    PROVE  /\ Kept(s, K) \in Seq(S) /\ Len(Kept(s, K)) <= Len(s)
           /\ \E e : Places(e, Kept(s, K), s, K)
<1> DEFINE N == Len(s)
<1>0. PICK f : KeptRun(f, s, K, S)
  BY KeptSteps
<1>1. /\ f \in [0 .. Len(s) -> Seq(S)] /\ f[0] = <<>>
      /\ \A n \in 1 .. Len(s) : f[n] = IF n \in K THEN Append(f[n - 1], s[n]) ELSE f[n - 1]
      /\ Kept(s, K) = f[Len(s)]
  BY <1>0 DEF KeptRun
<1>2. N \in Nat /\ DOMAIN s = 1 .. N /\ \A i \in 1 .. N : s[i] \in S
  BY LenProperties, ElementOfSeq
<1> DEFINE T == {m \in Nat : m <= N => KeptUpTo(f[m], s, K, m)}
<1>3. 0 \in T
  <2>1. Len(f[0]) = 0 /\ f[0] = <<>> /\ K \cap (1 .. 0) = {}
    BY <1>1
  <2> DEFINE none == [i \in {} |-> 0]
  <2>2. Places(none, f[0], s, K \cap (1 .. 0))
    <3>1. 1 .. Len(f[0]) = {} /\ K \cap (1 .. 0) = {} /\ none \in [{} -> {}]
      BY <2>1
    <3> QED
      BY <3>1 DEF Places
  <2>3. KeptUpTo(f[0], s, K, 0)
    BY <2>1, <2>2 DEF KeptUpTo
  <2> QED
    BY <2>3
<1>4. ASSUME NEW m \in Nat, m \in T PROVE m + 1 \in T
  <2>1. SUFFICES ASSUME m + 1 <= N PROVE KeptUpTo(f[m + 1], s, K, m + 1)
    OBVIOUS
  <2>0. KeptUpTo(f[m], s, K, m)
    BY <1>4, <2>1
  <2>2. /\ f[m] \in Seq(S) /\ Len(f[m]) <= m /\ m + 1 \in 1 .. N /\ (m + 1) - 1 = m
        /\ f[m + 1] = IF m + 1 \in K THEN Append(f[m], s[m + 1]) ELSE f[m]
        /\ s[m + 1] \in S /\ Len(f[m]) \in Nat
    <3>1. N \in Nat /\ m + 1 \in 1 .. N /\ m \in 0 .. N /\ (m + 1) - 1 = m
      BY <1>2, <2>1
    <3>2. f[m] \in Seq(S) /\ s[m + 1] \in S
      BY <1>1, <1>2, <3>1
    <3>3. f[m + 1] = IF m + 1 \in K THEN Append(f[m], s[m + 1]) ELSE f[m]
      BY <1>1, <3>1
    <3>4. Len(f[m]) \in Nat
      BY <3>2, LenProperties
    <3> QED
      BY <2>0, <3>1, <3>2, <3>3, <3>4 DEF KeptUpTo
  <2>3. PICK e : Places(e, f[m], s, K \cap (1 .. m))
    BY <2>0 DEF KeptUpTo
  <2>4. CASE m + 1 \notin K
    <3>1. f[m + 1] = f[m] /\ K \cap (1 .. m + 1) = K \cap (1 .. m)
      BY <2>2, <2>4
    <3>2. Places(e, f[m + 1], s, K \cap (1 .. m + 1))
      BY <2>3, <3>1
    <3>3. Len(f[m + 1]) <= m + 1
      BY <2>2, <3>1
    <3> QED
      BY <3>2, <3>3 DEF KeptUpTo
  <2>5. CASE m + 1 \in K
    <3> DEFINE r == f[m]
    <3> DEFINE q == f[m + 1]
    <3> DEFINE d == [i \in 1 .. Len(q) |-> IF i = Len(q) THEN m + 1 ELSE e[i]]
    <3>1. q = Append(r, s[m + 1]) /\ Len(q) = Len(r) + 1 /\ q[Len(q)] = s[m + 1]
          /\ \A i \in 1 .. Len(r) : q[i] = r[i]
      BY <2>2, <2>5, AppendProperties
    <3>2. /\ e \in [1 .. Len(r) -> K \cap (1 .. m)]
          /\ \A i, j \in 1 .. Len(r) : i < j => e[i] < e[j]
          /\ \A k \in K \cap (1 .. m) : \E i \in 1 .. Len(r) : e[i] = k
          /\ \A i \in 1 .. Len(r) : r[i] = s[e[i]]
      BY <2>3 DEF Places
    <3>3. K \cap (1 .. m + 1) = (K \cap (1 .. m)) \cup {m + 1}
      BY <2>5
    <3>4. /\ d[Len(q)] = m + 1 /\ Len(q) \in 1 .. Len(q) /\ Len(r) \in Nat
          /\ \A i \in 1 .. Len(q) : i # Len(q) => i \in 1 .. Len(r) /\ d[i] = e[i] /\ e[i] \in K \cap (1 .. m)
          /\ \A i \in 1 .. Len(r) : i \in 1 .. Len(q) /\ i # Len(q)
      <4>1. Len(r) \in Nat
        BY <2>2
      <4> HIDE DEF q, r
      <4>2. Len(q) = Len(r) + 1 /\ Len(q) \in 1 .. Len(q)
        BY <4>1, <3>1
      <4>3. d[Len(q)] = m + 1
        BY <4>2
      <4>4. ASSUME NEW i \in 1 .. Len(q), i # Len(q) PROVE i \in 1 .. Len(r) /\ d[i] = e[i]
        BY <4>1, <4>2, <4>4
      <4>5. \A i \in 1 .. Len(r) : i \in 1 .. Len(q) /\ i # Len(q)
        BY <4>1, <4>2
      <4> HIDE DEF d
      <4> QED
        BY <4>1, <4>2, <4>3, <4>4, <4>5, <3>2
    <3> HIDE DEF d, q, r
    <3>5. d \in [1 .. Len(q) -> K \cap (1 .. m + 1)]
      <4>1. \A i \in 1 .. Len(q) : d[i] \in K \cap (1 .. m + 1)
        BY <3>3, <3>4
      <4> QED
        BY <4>1 DEF d
    <3>6. ASSUME NEW i \in 1 .. Len(q), NEW j \in 1 .. Len(q), i < j PROVE d[i] < d[j]
      <4>1. i # Len(q)
        BY <3>6, <3>1, <3>4
      <4>2. d[i] = e[i] /\ e[i] \in 1 .. m /\ i \in 1 .. Len(r)
        BY <4>1, <3>4
      <4>3. CASE j = Len(q)
        BY <4>2, <4>3, <3>4
      <4>4. CASE j # Len(q)
        BY <4>2, <4>4, <3>2, <3>4, <3>6
      <4> QED
        BY <4>3, <4>4
    <3>7. ASSUME NEW k \in K \cap (1 .. m + 1) PROVE \E i \in 1 .. Len(q) : d[i] = k
      <4>1. CASE k = m + 1
        BY <4>1, <3>4
      <4>2. CASE k # m + 1
        <5>1. k \in K \cap (1 .. m)
          BY <4>2, <3>3
        <5>2. PICK i \in 1 .. Len(r) : e[i] = k
          BY <5>1, <3>2
        <5>3. i \in 1 .. Len(q) /\ d[i] = e[i]
          BY <3>4
        <5> QED
          BY <5>2, <5>3
      <4> QED
        BY <4>1, <4>2
    <3>8. ASSUME NEW i \in 1 .. Len(q) PROVE q[i] = s[d[i]]
      <4>1. CASE i = Len(q)
        BY <4>1, <3>1, <3>4
      <4>2. CASE i # Len(q)
        BY <4>2, <3>1, <3>2, <3>4
      <4> QED
        BY <4>1, <4>2
    <3>9. Places(d, q, s, K \cap (1 .. m + 1))
      BY <3>5, <3>6, <3>7, <3>8 DEF Places
    <3>10. Len(q) <= m + 1
      BY <2>2, <3>1 DEF r
    <3> QED
      BY <3>9, <3>10 DEF q, KeptUpTo
  <2> QED
    BY <2>4, <2>5
<1>5. N \in T
  <2> HIDE DEF T
  <2> QED
    BY <1>2, <1>3, <1>4, InductionOnSets
<1>6. K \cap (1 .. N) = K /\ Kept(s, K) = f[N] /\ f[N] \in Seq(S)
  BY <1>1, <1>2
<1>7. KeptUpTo(f[N], s, K, N)
  BY <1>5, <1>2
<1> QED
  BY <1>6, <1>7 DEF KeptUpTo

\* The elements of Kept are those at the places.
LEMMA KeptElements ==
    ASSUME NEW S, NEW s \in Seq(S), NEW K \in SUBSET DOMAIN s
    PROVE  Kept(s, K) \in Seq(S) /\ ToSet(Kept(s, K)) = {s[i] : i \in K}
<1> DEFINE r == Kept(s, K)
<1>1. r \in Seq(S) /\ \E e : Places(e, r, s, K)
  BY KeptPlaces
<1>2. PICK e : Places(e, r, s, K)
  BY <1>1
<1> HIDE DEF r
<1>3. DOMAIN r = 1 .. Len(r)
  BY <1>1, LenProperties
<1>4. /\ \A i \in DOMAIN r : e[i] \in K /\ r[i] = s[e[i]]
      /\ \A k \in K : \E i \in DOMAIN r : e[i] = k
  BY <1>2, <1>3 DEF Places
<1>5. ToSet(r) = {s[i] : i \in K}
  BY <1>4 DEF ToSet
<1> QED
  BY <1>1, <1>5 DEF r

-----------------------------------------------------------------------------
(* Flat.                                                                   *)

\* f holds what Flat makes of the beginnings of ss.
FlatRun(f, ss, S) ==
    /\ f \in [0 .. Len(ss) -> Seq(S)]
    /\ f[0] = <<>>
    /\ \A n \in 1 .. Len(ss) : f[n] = f[n - 1] \o ss[n]
    /\ Flat(ss) = f[Len(ss)]

\* The recursion of Flat is well-defined.
LEMMA FlatSteps ==
    ASSUME NEW S, NEW ss \in Seq(Seq(S))
    PROVE  \E f : FlatRun(f, ss, S)
<1> DEFINE N == Len(ss)
<1> DEFINE V == Seq(S)
<1> DEFINE step == [p \in (1 .. N) \X V |-> p[2] \o ss[p[1]]]
<1> DEFINE Body(f) == [n \in 0 .. Len(ss) |-> IF n = 0 THEN <<>> ELSE f[n - 1] \o ss[n]]
<1>1. N \in Nat /\ DOMAIN ss = 1 .. N /\ <<>> \in V /\ \A i \in 1 .. N : ss[i] \in Seq(S)
  BY LenProperties, ElementOfSeq, EmptySeq
<1>2. Stepping(step, N, V)
  <2>1. ASSUME NEW p \in (1 .. N) \X V PROVE p[2] \o ss[p[1]] \in V
    <3>1. p[2] \in Seq(S) /\ ss[p[1]] \in Seq(S)
      BY <1>1
    <3> QED
      BY <3>1, ConcatProperties
  <2> QED
    BY <2>1 DEF Stepping
<1>3. PICK g : Steps(g, step, <<>>, N, V)
  <2>1. N \in Nat /\ <<>> \in V
    BY <1>1
  <2> HIDE DEF step, N, V
  <2> QED
    BY <1>2, <2>1, StepsExist
<1>4. ASSUME NEW i \in 1 .. N PROVE g[i] = g[i - 1] \o ss[i]
  <2>1. g[i - 1] \in V /\ g[i] = step[<<i, g[i - 1]>>]
    <3>1. N \in Nat
      BY <1>1
    <3> HIDE DEF step, V, N
    <3>2. i - 1 \in 0 .. N /\ g \in [0 .. N -> V] /\ g[i] = step[<<i, g[i - 1]>>]
      BY <1>3, <3>1 DEF Steps
    <3> QED
      BY <3>2
  <2>2. <<i, g[i - 1]>> \in (1 .. N) \X V
    BY <2>1
  <2>3. step[<<i, g[i - 1]>>] = g[i - 1] \o ss[i]
    BY <2>2
  <2> QED
    BY <2>1, <2>3
<1>5. g = Body(g)
  <2>1. ASSUME NEW n \in 0 .. N PROVE g[n] = Body(g)[n]
    <3>1. CASE n = 0
      BY <1>3, <3>1 DEF Steps
    <3>2. CASE n # 0
      <4>1. n \in 1 .. N
        BY <1>1, <3>2
      <4> QED
        BY <1>4, <4>1, <3>2
    <3> QED
      BY <3>1, <3>2
  <2>2. DOMAIN Body(g) = 0 .. N /\ Body(g) = [n \in 0 .. N |-> Body(g)[n]]
    OBVIOUS
  <2>3. g = [n \in 0 .. N |-> g[n]]
    BY <1>3 DEF Steps
  <2> HIDE DEF Body
  <2> QED
    BY <2>1, <2>2, <2>3
<1> DEFINE h == CHOOSE f : f = Body(f)
<1>6. h = Body(h)
  <2> HIDE DEF Body
  <2> QED
    BY <1>5
<1>7. Flat(ss) = h[Len(ss)]
  BY DEF Flat
<1>8. DOMAIN h = 0 .. N /\ h[0] = <<>> /\ \A n \in 1 .. N : h[n] = h[n - 1] \o ss[n]
  <2> HIDE DEF h
  <2>1. DOMAIN h = 0 .. N
    BY <1>6
  <2>2. ASSUME NEW n \in 0 .. N
        PROVE  h[n] = IF n = 0 THEN <<>> ELSE h[n - 1] \o ss[n]
    BY <1>6
  <2>3. h[0] = <<>>
    BY <2>2, <1>1
  <2>4. ASSUME NEW n \in 1 .. N PROVE h[n] = h[n - 1] \o ss[n]
    <3>1. n \in 0 .. N /\ n # 0
      BY <1>1
    <3> QED
      BY <2>2, <3>1
  <2> QED
    BY <2>1, <2>3, <2>4
<1> HIDE DEF h
<1> DEFINE T == {m \in Nat : m <= N => h[m] \in V}
<1>10. \A m \in 0 .. N : h[m] \in V
  <2>1. 0 \in T
    BY <1>1, <1>8
  <2>2. ASSUME NEW m \in Nat, m \in T PROVE m + 1 \in T
    <3>1. SUFFICES ASSUME m + 1 <= N PROVE h[m + 1] \in V
      OBVIOUS
    <3>2. h[m] \in V /\ m + 1 \in 1 .. N /\ (m + 1) - 1 = m
      BY <2>2, <3>1, <1>1
    <3>3. ss[m + 1] \in Seq(S) /\ h[m + 1] = h[m] \o ss[m + 1]
      BY <3>2, <1>1, <1>8
    <3> QED
      BY <3>2, <3>3, ConcatProperties
  <2>3. Nat \subseteq T
    <3> HIDE DEF T
    <3> QED
      BY <2>1, <2>2, InductionOnSets
  <2> QED
    BY <2>3, <1>1
<1>11. h \in [0 .. N -> V]
  <2>1. h = [m \in 0 .. N |-> h[m]]
    <3>1. Body(h) = [m \in 0 .. N |-> Body(h)[m]]
      OBVIOUS
    <3> HIDE DEF Body
    <3> QED
      BY <1>6, <3>1
  <2> QED
    BY <2>1, <1>10
<1>12. FlatRun(h, ss, S)
  BY <1>7, <1>8, <1>11 DEF FlatRun
<1> QED
  BY <1>12

LEMMA FlatType ==
    ASSUME NEW S, NEW ss \in Seq(Seq(S))
    PROVE  Flat(ss) \in Seq(S)
<1>1. PICK f : FlatRun(f, ss, S)
  BY FlatSteps
<1>2. Len(ss) \in 0 .. Len(ss)
  BY LenProperties
<1> QED
  BY <1>1, <1>2 DEF FlatRun

LEMMA FlatEmpty == Flat(<<>>) = <<>>
<1>1. <<>> \in Seq(Seq({}))
  OBVIOUS
<1>2. PICK f : FlatRun(f, <<>>, {})
  BY <1>1, FlatSteps
<1> QED
  BY <1>2 DEF FlatRun

\* A further sequence comes last.
LEMMA FlatAppend ==
    ASSUME NEW S, NEW ss \in Seq(Seq(S)), NEW t \in Seq(S)
    PROVE  Flat(Append(ss, t)) = Flat(ss) \o t
<1> DEFINE tt == Append(ss, t)
<1> DEFINE N == Len(ss)
<1>1. /\ tt \in Seq(Seq(S)) /\ Len(tt) = N + 1 /\ tt[N + 1] = t /\ N \in Nat
      /\ \A i \in 1 .. N : tt[i] = ss[i]
  BY AppendProperties, LenProperties
<1> HIDE DEF tt
<1>2. PICK f : FlatRun(f, ss, S)
  BY FlatSteps
<1>3. PICK g : FlatRun(g, tt, S)
  BY <1>1, FlatSteps
<1>4. /\ f[0] = <<>> /\ g[0] = <<>> /\ Flat(ss) = f[N] /\ Flat(tt) = g[N + 1]
      /\ \A n \in 1 .. N : f[n] = f[n - 1] \o ss[n] /\ g[n] = g[n - 1] \o ss[n]
      /\ g[N + 1] = g[N] \o t
  <2>1. /\ f[0] = <<>> /\ Flat(ss) = f[N] /\ \A n \in 1 .. N : f[n] = f[n - 1] \o ss[n]
    BY <1>2 DEF FlatRun
  <2>2. /\ g[0] = <<>> /\ Flat(tt) = g[N + 1] /\ \A n \in 1 .. N + 1 : g[n] = g[n - 1] \o tt[n]
    BY <1>1, <1>3 DEF FlatRun
  <2>3. \A n \in 1 .. N : n \in 1 .. N + 1 /\ N + 1 \in 1 .. N + 1 /\ (N + 1) - 1 = N
    BY <1>1
  <2>4. N + 1 \in 1 .. N + 1 /\ (N + 1) - 1 = N
    BY <1>1
  <2>5. g[N + 1] = g[N] \o t
    BY <1>1, <2>2, <2>4
  <2>6. \A n \in 1 .. N : g[n] = g[n - 1] \o ss[n]
    BY <1>1, <2>2, <2>3
  <2> QED
    BY <2>1, <2>2, <2>5, <2>6
<1> DEFINE T == {m \in Nat : m <= N => f[m] = g[m]}
<1>5. 0 \in T
  BY <1>4
<1>6. ASSUME NEW m \in Nat, m \in T PROVE m + 1 \in T
  <2>1. SUFFICES ASSUME m + 1 <= N PROVE f[m + 1] = g[m + 1]
    OBVIOUS
  <2>2. f[m] = g[m] /\ m + 1 \in 1 .. N /\ (m + 1) - 1 = m
    BY <1>1, <1>6, <2>1
  <2>3. f[m + 1] = f[m] \o ss[m + 1] /\ g[m + 1] = g[m] \o ss[m + 1]
    BY <1>4, <2>2
  <2> QED
    BY <2>2, <2>3
<1>7. N \in T
  <2> HIDE DEF T
  <2> QED
    BY <1>1, <1>5, <1>6, InductionOnSets
<1>8. f[N] = g[N]
  BY <1>1, <1>7
<1> QED
  BY <1>4, <1>8 DEF tt

\* The elements of a concatenation and of a longer sequence.
LEMMA ToSetConcat ==
    ASSUME NEW S, NEW s \in Seq(S), NEW t \in Seq(S)
    PROVE  ToSet(s \o t) = ToSet(s) \cup ToSet(t)
<1> DEFINE z == s \o t
<1>1. /\ Len(s) \in Nat /\ Len(t) \in Nat /\ DOMAIN s = 1 .. Len(s) /\ DOMAIN t = 1 .. Len(t)
      /\ DOMAIN z = 1 .. Len(s) + Len(t)
      /\ \A i \in 1 .. Len(s) + Len(t) : z[i] = IF i <= Len(s) THEN s[i] ELSE t[i - Len(s)]
  BY ConcatProperties, LenProperties
<1> HIDE DEF z
<1>2. ASSUME NEW i \in DOMAIN z PROVE z[i] \in ToSet(s) \cup ToSet(t)
  <2>1. CASE i <= Len(s)
    <3>1. i \in DOMAIN s /\ z[i] = s[i]
      BY <1>1, <2>1
    <3> QED
      BY <3>1 DEF ToSet
  <2>2. CASE ~(i <= Len(s))
    <3>1. i - Len(s) \in DOMAIN t /\ z[i] = t[i - Len(s)]
      BY <1>1, <2>2
    <3> QED
      BY <3>1 DEF ToSet
  <2> QED
    BY <2>1, <2>2
<1>3. ASSUME NEW i \in DOMAIN s PROVE s[i] \in ToSet(z)
  <2>1. i \in DOMAIN z /\ z[i] = s[i]
    BY <1>1
  <2> QED
    BY <2>1 DEF ToSet
<1>4. ASSUME NEW i \in DOMAIN t PROVE t[i] \in ToSet(z)
  <2>1. i + Len(s) \in DOMAIN z /\ ~(i + Len(s) <= Len(s)) /\ (i + Len(s)) - Len(s) = i
    BY <1>1
  <2>2. z[i + Len(s)] = t[i]
    BY <1>1, <2>1
  <2> QED
    BY <2>1, <2>2 DEF ToSet
<1>5. ToSet(z) \subseteq ToSet(s) \cup ToSet(t)
  BY <1>2 DEF ToSet
<1>6. ToSet(s) \subseteq ToSet(z)
  BY <1>3 DEF ToSet
<1>7. ToSet(t) \subseteq ToSet(z)
  BY <1>4 DEF ToSet
<1> QED
  BY <1>5, <1>6, <1>7 DEF z

\* The elements of Flat are those of the sequences.
LEMMA FlatElements ==
    ASSUME NEW S, NEW ss \in Seq(Seq(S))
    PROVE  ToSet(Flat(ss)) = UNION {ToSet(ss[i]) : i \in DOMAIN ss}
<1> DEFINE N == Len(ss)
<1>1. N \in Nat /\ DOMAIN ss = 1 .. N /\ \A i \in 1 .. N : ss[i] \in Seq(S)
  BY LenProperties, ElementOfSeq
<1>2. PICK f : FlatRun(f, ss, S)
  BY FlatSteps
<1>3. /\ f[0] = <<>> /\ Flat(ss) = f[N] /\ \A n \in 1 .. N : f[n] = f[n - 1] \o ss[n]
      /\ \A n \in 0 .. N : f[n] \in Seq(S)
  BY <1>2 DEF FlatRun
<1> DEFINE Upto(m) == UNION {ToSet(ss[i]) : i \in 1 .. m}
<1> DEFINE T == {m \in Nat : m <= N => ToSet(f[m]) = Upto(m)}
<1>4. 0 \in T
  <2>1. ToSet(<<>>) = {} /\ 1 .. 0 = {}
    BY DEF ToSet
  <2>2. Upto(0) = {}
    BY <2>1
  <2> HIDE DEF Upto
  <2> QED
    BY <1>3, <2>1, <2>2
<1>5. ASSUME NEW m \in Nat, m \in T PROVE m + 1 \in T
  <2>1. SUFFICES ASSUME m + 1 <= N PROVE ToSet(f[m + 1]) = Upto(m + 1)
    OBVIOUS
  <2>2. ToSet(f[m]) = Upto(m) /\ m + 1 \in 1 .. N /\ (m + 1) - 1 = m /\ m \in 0 .. N
    BY <1>1, <1>5, <2>1
  <2>3. f[m + 1] = f[m] \o ss[m + 1] /\ f[m] \in Seq(S) /\ ss[m + 1] \in Seq(S)
    BY <1>1, <1>3, <2>2
  <2>4. ToSet(f[m + 1]) = ToSet(f[m]) \cup ToSet(ss[m + 1])
    BY <2>3, ToSetConcat
  <2>5. Upto(m + 1) = Upto(m) \cup ToSet(ss[m + 1])
    <3>1. 1 .. m + 1 = (1 .. m) \cup {m + 1}
      OBVIOUS
    <3> QED
      BY <3>1
  <2> HIDE DEF Upto
  <2> QED
    BY <2>2, <2>4, <2>5
<1>6. N \in T
  <2> HIDE DEF T
  <2> QED
    BY <1>1, <1>4, <1>5, InductionOnSets
<1> HIDE DEF Upto
<1>7. ToSet(Flat(ss)) = Upto(N)
  BY <1>1, <1>3, <1>6
<1> QED
  BY <1>1, <1>7 DEF Upto

\* Two sequences of sequences.
LEMMA FlatConcat ==
    ASSUME NEW S, NEW a \in Seq(Seq(S)), NEW b \in Seq(Seq(S))
    PROVE  Flat(a \o b) = Flat(a) \o Flat(b)
<1> DEFINE c == a \o b
<1> DEFINE M == Len(a)
<1> DEFINE N == Len(b)
<1>1. /\ M \in Nat /\ N \in Nat /\ c \in Seq(Seq(S)) /\ Len(c) = M + N
      /\ \A i \in 1 .. M : c[i] = a[i]
      /\ \A i \in 1 .. N : b[i] \in Seq(S)
      /\ \A i \in 1 .. N : c[M + i] = b[i]
  <2>1. M \in Nat /\ N \in Nat /\ \A i \in 1 .. N : b[i] \in Seq(S)
    BY LenProperties, ElementOfSeq
  <2>2. c \in Seq(Seq(S)) /\ Len(c) = M + N /\ \A i \in 1 .. M + N : c[i] = IF i <= M THEN a[i] ELSE b[i - M]
    BY ConcatProperties
  <2> HIDE DEF c, M, N
  <2>3. \A i \in 1 .. M : i \in 1 .. M + N /\ i <= M
    BY <2>1
  <2>4. \A i \in 1 .. N : M + i \in 1 .. M + N /\ ~(M + i <= M) /\ (M + i) - M = i
    BY <2>1
  <2> QED
    BY <2>1, <2>2, <2>3, <2>4
<1> HIDE DEF c
<1>2. PICK f : FlatRun(f, a, S)
  BY FlatSteps
<1>3. PICK g : FlatRun(g, b, S)
  BY FlatSteps
<1>4. PICK h : FlatRun(h, c, S)
  BY <1>1, FlatSteps
<1>5. /\ f[0] = <<>> /\ Flat(a) = f[M] /\ \A n \in 1 .. M : f[n] = f[n - 1] \o a[n]
      /\ \A n \in 0 .. M : f[n] \in Seq(S)
  BY <1>2 DEF FlatRun
<1>6. /\ g[0] = <<>> /\ Flat(b) = g[N] /\ \A n \in 1 .. N : g[n] = g[n - 1] \o b[n]
      /\ \A n \in 0 .. N : g[n] \in Seq(S)
  BY <1>3 DEF FlatRun
<1>7. /\ h[0] = <<>> /\ Flat(c) = h[M + N] /\ \A n \in 1 .. M + N : h[n] = h[n - 1] \o c[n]
  BY <1>1, <1>4 DEF FlatRun
<1> HIDE DEF M, N
<1> DEFINE T == {m \in Nat : m <= M => h[m] = f[m]}
<1> DEFINE J(x) == f[M] \o x
<1>8. M \in T
  <2>1. 0 \in T
    BY <1>5, <1>7
  <2>2. ASSUME NEW m \in Nat, m \in T PROVE m + 1 \in T
    <3>1. SUFFICES ASSUME m + 1 <= M PROVE h[m + 1] = f[m + 1]
      OBVIOUS
    <3>2. h[m] = f[m] /\ m + 1 \in 1 .. M /\ m + 1 \in 1 .. M + N /\ (m + 1) - 1 = m
      BY <1>1, <2>2, <3>1
    <3>3. h[m + 1] = h[m] \o c[m + 1] /\ f[m + 1] = f[m] \o a[m + 1] /\ c[m + 1] = a[m + 1]
      BY <1>1, <1>5, <1>7, <3>2
    <3> QED
      BY <3>2, <3>3
  <2> HIDE DEF T
  <2> QED
    BY <1>1, <2>1, <2>2, InductionOnSets
<1>9. h[M] = f[M] /\ f[M] \in Seq(S)
  BY <1>1, <1>5, <1>8
<1>10. J(<<>>) = h[M] /\ g[0] = <<>>
  BY <1>6, <1>9, ConcatEmptySeq
<1>11. ASSUME NEW m \in Nat, m + 1 <= N, h[M + m] = J(g[m]) PROVE h[M + (m + 1)] = J(g[m + 1])
  <2>1. /\ m + 1 \in 1 .. N /\ (m + 1) - 1 = m /\ m \in 0 .. N
        /\ M + (m + 1) \in 1 .. M + N /\ (M + (m + 1)) - 1 = M + m
    BY <1>1, <1>11
  <2>2. h[M + (m + 1)] = h[M + m] \o c[M + (m + 1)]
    <3> DEFINE n == M + (m + 1)
    <3>1. n \in 1 .. M + N /\ n - 1 = M + m
      BY <2>1
    <3> HIDE DEF n
    <3>2. h[n] = h[n - 1] \o c[n]
      BY <1>7, <3>1
    <3>3. h[n] = h[M + m] \o c[n]
      BY <3>1, <3>2
    <3> QED
      BY <3>3 DEF n
  <2>3. c[M + (m + 1)] = b[m + 1] /\ b[m + 1] \in Seq(S)
    BY <1>1, <2>1
  <2>4. g[m + 1] = g[m] \o b[m + 1] /\ g[m] \in Seq(S)
    <3>1. g[m + 1] = g[(m + 1) - 1] \o b[m + 1]
      BY <1>6, <2>1
    <3>2. (m + 1) - 1 = m
      BY <2>1
    <3>3. g[m] \in Seq(S)
      BY <1>6, <2>1
    <3> QED
      BY <3>1, <3>2, <3>3
  <2>5. J(g[m]) \o b[m + 1] = J(g[m] \o b[m + 1])
    <3> DEFINE p == f[M]
    <3> DEFINE q == g[m]
    <3> DEFINE r == b[m + 1]
    <3>1. p \in Seq(S) /\ q \in Seq(S) /\ r \in Seq(S)
      BY <1>9, <2>3, <2>4
    <3>2. J(q) = p \o q /\ J(q \o r) = p \o (q \o r)
      OBVIOUS
    <3> HIDE DEF p, q, r, J
    <3>3. (p \o q) \o r = p \o (q \o r)
      BY <3>1, ConcatAssociative
    <3>4. J(q) \o r = J(q \o r)
      BY <3>2, <3>3
    <3> QED
      BY <3>4 DEF q, r
  <2> HIDE DEF J
  <2> QED
    BY <1>11, <2>2, <2>3, <2>4, <2>5
<1> DEFINE U == {m \in Nat : m <= N => h[M + m] = J(g[m])}
<1>12. N \in U
  <2> HIDE DEF J
  <2>1. 0 \in U
    <3>1. M + 0 = M
      BY <1>1
    <3> QED
      BY <1>10, <3>1
  <2>2. ASSUME NEW m \in Nat, m \in U PROVE m + 1 \in U
    BY <1>1, <1>11, <2>2
  <2> HIDE DEF U
  <2> QED
    BY <1>1, <2>1, <2>2, InductionOnSets
<1>13. h[M + N] = J(g[N])
  <2> HIDE DEF J
  <2> QED
    BY <1>1, <1>12
<1> QED
  BY <1>5, <1>6, <1>7, <1>13 DEF c

\* One sequence, and none.
LEMMA FlatOne ==
    ASSUME NEW S, NEW t \in Seq(S)
    PROVE  Flat(<<t>>) = t
<1>1. <<>> \in Seq(Seq(S)) /\ <<t>> = Append(<<>>, t)
  OBVIOUS
<1>2. Flat(<<t>>) = Flat(<<>>) \o t
  BY <1>1, FlatAppend
<1>3. <<>> \o t = t
  BY ConcatEmptySeq
<1> QED
  BY <1>2, <1>3, FlatEmpty

\* Kept is Flat of sequences of one element and of none.
LEMMA KeptFlat ==
    ASSUME NEW S, NEW s \in Seq(S), NEW K \in SUBSET DOMAIN s, NEW ss \in Seq(Seq(S)),
           Len(ss) = Len(s), \A i \in 1 .. Len(s) : ss[i] = IF i \in K THEN <<s[i]>> ELSE <<>>
    PROVE  Kept(s, K) = Flat(ss)
<1> DEFINE N == Len(s)
<1>1. N \in Nat /\ \A i \in 1 .. N : s[i] \in S
  BY LenProperties, ElementOfSeq
<1>2. PICK f : FlatRun(f, ss, S)
  BY FlatSteps
<1>3. PICK g : KeptRun(g, s, K, S)
  BY KeptSteps
<1>4. /\ f[0] = <<>> /\ Flat(ss) = f[N] /\ \A n \in 1 .. N : f[n] = f[n - 1] \o ss[n]
  BY <1>2 DEF FlatRun
<1>5. /\ g[0] = <<>> /\ Kept(s, K) = g[N] /\ \A n \in 0 .. N : g[n] \in Seq(S)
      /\ \A n \in 1 .. N : g[n] = IF n \in K THEN Append(g[n - 1], s[n]) ELSE g[n - 1]
  BY <1>3 DEF KeptRun
<1> DEFINE T == {m \in Nat : m <= N => f[m] = g[m]}
<1>6. 0 \in T
  BY <1>4, <1>5
<1>7. ASSUME NEW m \in Nat, m \in T PROVE m + 1 \in T
  <2>1. SUFFICES ASSUME m + 1 <= N PROVE f[m + 1] = g[m + 1]
    OBVIOUS
  <2>2. f[m] = g[m] /\ m + 1 \in 1 .. N /\ (m + 1) - 1 = m /\ m \in 0 .. N
    BY <1>1, <1>7, <2>1
  <2>3. f[m + 1] = g[m] \o ss[m + 1] /\ g[m] \in Seq(S) /\ s[m + 1] \in S
    BY <1>1, <1>4, <1>5, <2>2
  <2>4. g[m + 1] = IF m + 1 \in K THEN Append(g[m], s[m + 1]) ELSE g[m]
    BY <1>5, <2>2
  <2>5. ss[m + 1] = IF m + 1 \in K THEN <<s[m + 1]>> ELSE <<>>
    BY <2>2
  <2>6. g[m] \o <<s[m + 1]>> = Append(g[m], s[m + 1]) /\ g[m] \o <<>> = g[m]
    BY <2>3, AppendIsConcat, ConcatEmptySeq
  <2> QED
    BY <2>3, <2>4, <2>5, <2>6
<1>8. N \in T
  <2> HIDE DEF T
  <2> QED
    BY <1>1, <1>6, <1>7, InductionOnSets
<1> QED
  BY <1>1, <1>4, <1>5, <1>8

LEMMA KeptNone ==
    ASSUME NEW S, NEW s \in Seq(S)
    PROVE  Kept(s, {}) = <<>>
<1>1. Kept(s, {}) \in Seq(S) /\ ToSet(Kept(s, {})) = {}
  BY KeptElements
<1>2. DOMAIN Kept(s, {}) = {}
  BY <1>1 DEF ToSet
<1> QED
  BY <1>1, <1>2

LEMMA KeptOne ==
    ASSUME NEW S, NEW s \in Seq(S), NEW k \in DOMAIN s
    PROVE  Kept(s, {k}) = <<s[k]>>
<1> DEFINE r == Kept(s, {k})
<1>1. r \in Seq(S) /\ \E e : Places(e, r, s, {k})
  BY KeptPlaces
<1> HIDE DEF r
<1>2. PICK e : Places(e, r, s, {k})
  BY <1>1
<1>3. /\ \A i, j \in 1 .. Len(r) : i < j => e[i] < e[j]
      /\ \A i \in 1 .. Len(r) : e[i] = k /\ r[i] = s[k]
      /\ \E i \in 1 .. Len(r) : TRUE
  BY <1>2 DEF Places
<1>4. k \in Int /\ Len(r) \in Nat /\ DOMAIN r = 1 .. Len(r)
  BY <1>1, LenProperties
<1>5. Len(r) = 1
  <2>1. Len(r) # 0
    BY <1>3
  <2>2. ASSUME Len(r) > 1 PROVE FALSE
    <3>1. 1 \in 1 .. Len(r) /\ 2 \in 1 .. Len(r)
      BY <1>4, <2>2
    <3>2. k < k
      BY <1>3, <3>1
    <3> QED
      BY <1>4, <3>2
  <2> QED
    BY <1>4, <2>1, <2>2
<1>6. r = <<s[k]>>
  BY <1>1, <1>3, <1>4, <1>5
<1> QED
  BY <1>6 DEF r

\* The elements up to a place, and those after it.
LEMMA KeptSplit ==
    ASSUME NEW S, NEW s \in Seq(S), NEW K \in SUBSET DOMAIN s, NEW n \in Nat
    PROVE  Kept(s, K) = Kept(s, K \cap (1 .. n)) \o Kept(s, K \ (1 .. n))
<1> DEFINE N == Len(s)
           A == K \cap (1 .. n)
           B == K \ (1 .. n)
<1>1. N \in Nat /\ DOMAIN s = 1 .. N /\ A \in SUBSET DOMAIN s /\ B \in SUBSET DOMAIN s
      /\ \A i \in 1 .. N : s[i] \in S
      /\ \A k \in 1 .. N : (k \in A <=> k \in K /\ k <= n) /\ (k \in B <=> k \in K /\ ~(k <= n))
  BY LenProperties, ElementOfSeq
<1> HIDE DEF A, B
<1>2. PICK f : KeptRun(f, s, K, S)
  BY KeptSteps
<1>3. PICK g : KeptRun(g, s, A, S)
  BY <1>1, KeptSteps
<1>4. PICK h : KeptRun(h, s, B, S)
  BY <1>1, KeptSteps
<1>5. /\ f[0] = <<>> /\ g[0] = <<>> /\ h[0] = <<>>
      /\ f[N] = Kept(s, K) /\ g[N] = Kept(s, A) /\ h[N] = Kept(s, B)
      /\ \A m \in 0 .. N : g[m] \in Seq(S) /\ h[m] \in Seq(S)
      /\ \A m \in 1 .. N : /\ f[m] = IF m \in K THEN Append(f[m - 1], s[m]) ELSE f[m - 1]
                           /\ g[m] = IF m \in A THEN Append(g[m - 1], s[m]) ELSE g[m - 1]
                           /\ h[m] = IF m \in B THEN Append(h[m - 1], s[m]) ELSE h[m - 1]
  BY <1>1, <1>2, <1>3, <1>4 DEF KeptRun
<1> HIDE DEF N
<1> DEFINE J(x, y) == x \o y
<1> HIDE DEF J
<1> DEFINE T == {m \in Nat : m <= N => f[m] = J(g[m], h[m]) /\ (m <= n => h[m] = <<>>)}
<1>6. 0 \in T
  <2>1. 0 \in 0 .. N
    BY <1>1
  <2>2. g[0] \o h[0] = <<>>
    BY <1>5, <2>1, ConcatEmptySeq
  <2> QED
    BY <1>5, <2>2 DEF J
<1>7. ASSUME NEW m \in Nat, m \in T PROVE m + 1 \in T
  <2>1. SUFFICES ASSUME m + 1 <= N
                 PROVE  f[m + 1] = J(g[m + 1], h[m + 1]) /\ (m + 1 <= n => h[m + 1] = <<>>)
    OBVIOUS
  <2>2. /\ f[m] = g[m] \o h[m] /\ (m <= n => h[m] = <<>>)
        /\ m + 1 \in 1 .. N /\ (m + 1) - 1 = m /\ m \in 0 .. N
    <3>1. f[m] = J(g[m], h[m]) /\ (m <= n => h[m] = <<>>)
      BY <1>1, <1>7, <2>1
    <3>2. m + 1 \in 1 .. N /\ (m + 1) - 1 = m /\ m \in 0 .. N
      BY <1>1, <2>1
    <3> QED
      BY <3>1, <3>2 DEF J
  <2>3. /\ g[m] \in Seq(S) /\ h[m] \in Seq(S) /\ s[m + 1] \in S
        /\ f[m + 1] = IF m + 1 \in K THEN Append(f[m], s[m + 1]) ELSE f[m]
        /\ g[m + 1] = IF m + 1 \in A THEN Append(g[m], s[m + 1]) ELSE g[m]
        /\ h[m + 1] = IF m + 1 \in B THEN Append(h[m], s[m + 1]) ELSE h[m]
    BY <1>1, <1>5, <2>2
  <2>4. CASE m + 1 <= n
    <3>1. h[m] = <<>> /\ m + 1 \notin B /\ (m + 1 \in A <=> m + 1 \in K)
      BY <1>1, <2>2, <2>4
    <3>2. f[m] = g[m]
      BY <2>2, <2>3, <3>1, ConcatEmptySeq
    <3>3. h[m + 1] = <<>> /\ f[m + 1] = g[m + 1]
      BY <2>3, <3>1, <3>2
    <3>4. g[m + 1] \in Seq(S)
      BY <1>5, <2>2
    <3> QED
      BY <3>3, <3>4, ConcatEmptySeq DEF J
  <2>5. CASE ~(m + 1 <= n)
    <3>1. m + 1 \notin A /\ (m + 1 \in B <=> m + 1 \in K)
      BY <1>1, <2>2, <2>5
    <3>2. Append(g[m] \o h[m], s[m + 1]) = g[m] \o Append(h[m], s[m + 1])
      <4>1. /\ g[m] \o h[m] \in Seq(S) /\ <<s[m + 1]>> \in Seq(S)
            /\ Append(g[m] \o h[m], s[m + 1]) = (g[m] \o h[m]) \o <<s[m + 1]>>
            /\ Append(h[m], s[m + 1]) = h[m] \o <<s[m + 1]>>
        <5>1. g[m] \o h[m] \in Seq(S) /\ <<s[m + 1]>> \in Seq(S)
          BY <2>3, ConcatProperties
        <5> QED
          BY <2>3, <5>1, AppendIsConcat
      <4>2. (g[m] \o h[m]) \o <<s[m + 1]>> = g[m] \o (h[m] \o <<s[m + 1]>>)
        <5>1. <<s[m + 1]>> \in Seq(S)
          BY <2>3
        <5> QED
          <6>1. g[m] \in Seq(S) /\ h[m] \in Seq(S)
            BY <2>3
          <6>2. \A x, y, z \in Seq(S) : (x \o y) \o z = x \o (y \o z)
            BY ConcatAssociative
          <6> QED
            BY <5>1, <6>1, <6>2, Zenon
      <4> QED
        BY <4>1, <4>2
    <3> QED
      BY <2>2, <2>3, <2>5, <3>1, <3>2 DEF J
  <2> QED
    BY <2>4, <2>5
<1>8. N \in T
  <2> HIDE DEF T
  <2> QED
    BY <1>1, <1>6, <1>7, InductionOnSets
<1>9. f[N] = J(g[N], h[N])
  BY <1>1, <1>8
<1> HIDE DEF T
<1> QED
  BY <1>5, <1>9 DEF A, B, J

\* The elements of s that are in Q.
Picked(s, Q) == Kept(s, {i \in DOMAIN s : s[i] \in Q})

LEMMA PickedConcat ==
    ASSUME NEW S, NEW a \in Seq(S), NEW b \in Seq(S), NEW Q
    PROVE  Picked(a \o b, Q) = Picked(a, Q) \o Picked(b, Q)
<1> DEFINE single(x) == IF x \in Q THEN <<x>> ELSE <<>>
           f(s) == [i \in 1 .. Len(s) |-> IF s[i] \in Q THEN <<s[i]>> ELSE <<>>]
           c == a \o b
<1>1. ASSUME NEW s \in Seq(S) PROVE f(s) \in Seq(Seq(S)) /\ Picked(s, Q) = Flat(f(s)) /\ Len(f(s)) = Len(s)
  <2>1. Len(s) \in Nat /\ DOMAIN s = 1 .. Len(s) /\ \A i \in 1 .. Len(s) : s[i] \in S
    BY LenProperties, ElementOfSeq
  <2>2. \A i \in 1 .. Len(s) : (IF s[i] \in Q THEN <<s[i]>> ELSE <<>>) \in Seq(S)
    BY <2>1
  <2>3. f(s) \in Seq(Seq(S)) /\ Len(f(s)) = Len(s)
    BY <2>1, <2>2
  <2> DEFINE K == {i \in DOMAIN s : s[i] \in Q}
  <2>4. \A i \in 1 .. Len(s) : f(s)[i] = IF i \in K THEN <<s[i]>> ELSE <<>>
    BY <2>1
  <2>5. K \in SUBSET DOMAIN s
    OBVIOUS
  <2> HIDE DEF K, f
  <2>6. Kept(s, K) = Flat(f(s))
    BY <2>3, <2>4, <2>5, KeptFlat
  <2> QED
    BY <2>3, <2>6 DEF Picked, K
<1>2. /\ c \in Seq(S) /\ Len(c) = Len(a) + Len(b) /\ Len(a) \in Nat /\ Len(b) \in Nat
      /\ \A i \in 1 .. Len(a) + Len(b) : c[i] = IF i <= Len(a) THEN a[i] ELSE b[i - Len(a)]
  BY ConcatProperties, LenProperties
<1>3. f(c) = f(a) \o f(b)
  <2>1. /\ Len(f(a)) = Len(a) /\ Len(f(b)) = Len(b) /\ f(a) \in Seq(Seq(S)) /\ f(b) \in Seq(Seq(S))
    BY <1>1
  <2>2. /\ f(a) \o f(b) \in Seq(Seq(S)) /\ Len(f(a) \o f(b)) = Len(a) + Len(b)
        /\ \A i \in 1 .. Len(a) + Len(b) :
               (f(a) \o f(b))[i] = IF i <= Len(a) THEN f(a)[i] ELSE f(b)[i - Len(a)]
    <3> HIDE DEF f
    <3>1. /\ f(a) \o f(b) \in Seq(Seq(S)) /\ Len(f(a) \o f(b)) = Len(f(a)) + Len(f(b))
          /\ \A i \in 1 .. Len(f(a)) + Len(f(b)) :
                 (f(a) \o f(b))[i] = IF i <= Len(f(a)) THEN f(a)[i] ELSE f(b)[i - Len(f(a))]
      BY <2>1, ConcatProperties, Zenon
    <3> QED
      BY <2>1, <3>1, Zenon
  <2>3. \A i \in 1 .. Len(a) + Len(b) : f(c)[i] = (f(a) \o f(b))[i]
    <3> SUFFICES ASSUME NEW i \in 1 .. Len(a) + Len(b) PROVE f(c)[i] = (f(a) \o f(b))[i]
      OBVIOUS
    <3>1. f(c)[i] = single(c[i])
      BY <1>2
    <3>2. CASE i <= Len(a)
      <4>1. i \in 1 .. Len(a) /\ f(a)[i] = single(a[i])
        BY <1>2, <3>2
      <4> HIDE DEF f, c
      <4> QED
        BY <1>2, <2>2, <3>1, <3>2, <4>1
    <3>3. CASE ~(i <= Len(a))
      <4>1. i - Len(a) \in 1 .. Len(b) /\ f(b)[i - Len(a)] = single(b[i - Len(a)])
        BY <1>2, <3>3
      <4> HIDE DEF f, c
      <4> QED
        BY <1>2, <2>2, <3>1, <3>3, <4>1
    <3> QED
      BY <3>2, <3>3
  <2>4. f(c) \in Seq(Seq(S)) /\ Len(f(c)) = Len(a) + Len(b)
    <3> HIDE DEF f, c
    <3> QED
      BY <1>1, <1>2
  <2> HIDE DEF f, c
  <2> QED
    BY <2>2, <2>3, <2>4, SeqEqual
<1> HIDE DEF f, c
<1>4. Flat(f(c)) = Flat(f(a)) \o Flat(f(b))
  BY <1>1, <1>3, FlatConcat
<1> QED
  BY <1>1, <1>2, <1>4 DEF c

Through(F, s) == [i \in DOMAIN s |-> F[s[i]]]

\* Keeping some elements, and then taking each through a function, is the same the
\* other way round.
LEMMA KeptMapped ==
    ASSUME NEW S, NEW s \in Seq(S), NEW K \in SUBSET DOMAIN s, NEW F
    PROVE  Through(F, Kept(s, K)) = Kept(Through(F, s), K)
<1> DEFINE T == {F[x] : x \in S}
<1>0. \A x \in S : F[x] \in T
  OBVIOUS
<1> HIDE DEF T
<1> DEFINE N == Len(s)
<1> DEFINE Img(x) == [i \in DOMAIN x |-> F[x[i]]]
<1> DEFINE t == Img(s)
<1>1. N \in Nat /\ DOMAIN s = 1 .. N /\ \A i \in 1 .. N : s[i] \in S
  BY LenProperties, ElementOfSeq
<1>2. t \in Seq(T) /\ Len(t) = N /\ DOMAIN t = DOMAIN s /\ \A i \in 1 .. N : t[i] = F[s[i]]
  BY <1>0, <1>1
<1>3. PICK f : KeptRun(f, s, K, S)
  BY KeptSteps
<1> HIDE DEF t
<1>4. PICK g : KeptRun(g, t, K, T)
  BY <1>2, KeptSteps
<1>5. /\ f[0] = <<>> /\ Kept(s, K) = f[N] /\ \A n \in 0 .. N : f[n] \in Seq(S)
      /\ \A n \in 1 .. N : f[n] = IF n \in K THEN Append(f[n - 1], s[n]) ELSE f[n - 1]
  BY <1>3 DEF KeptRun
<1>6. /\ g[0] = <<>> /\ Kept(t, K) = g[N]
      /\ \A n \in 1 .. N : g[n] = IF n \in K THEN Append(g[n - 1], t[n]) ELSE g[n - 1]
  BY <1>2, <1>4 DEF KeptRun
<1>7. ASSUME NEW x \in Seq(S), NEW y \in S PROVE Img(Append(x, y)) = Append(Img(x), F[y])
  <2> DEFINE M == Len(x)
  <2>1. M \in Nat /\ DOMAIN x = 1 .. M /\ \A i \in 1 .. M : x[i] \in S
    BY LenProperties, ElementOfSeq
  <2> DEFINE z == Append(x, y)
  <2>2. z \in Seq(S) /\ Len(z) = M + 1 /\ z[M + 1] = y /\ \A i \in 1 .. M : z[i] = x[i]
    BY AppendProperties
  <2>3. DOMAIN z = 1 .. M + 1
    BY <2>2, LenProperties
  <2> DEFINE u == Img(x)
  <2>4. u \in Seq(T) /\ Len(u) = M /\ \A i \in 1 .. M : u[i] = F[x[i]]
    BY <1>0, <2>1
  <2> DEFINE w == Append(u, F[y])
  <2>5. w \in Seq(T) /\ Len(w) = M + 1 /\ w[M + 1] = F[y] /\ \A i \in 1 .. M : w[i] = u[i]
    <3> HIDE DEF u
    <3> QED
      BY <1>0, <2>4, AppendProperties
  <2> DEFINE v == Img(z)
  <2> HIDE DEF z, u, w
  <2>6. v \in Seq(T) /\ Len(v) = M + 1 /\ \A i \in 1 .. M + 1 : v[i] = F[z[i]]
    <3>1. \A i \in 1 .. M + 1 : z[i] \in S
      BY <2>1, <2>2
    <3> QED
      BY <1>0, <2>1, <2>3, <3>1
  <2> HIDE DEF v
  <2>7. ASSUME NEW i \in 1 .. M + 1 PROVE v[i] = w[i]
    <3>1. CASE i = M + 1
      BY <2>2, <2>5, <2>6, <3>1
    <3>2. CASE i # M + 1
      <4>1. i \in 1 .. M
        BY <2>1, <3>2
      <4> QED
        BY <2>2, <2>4, <2>5, <2>6, <4>1
    <3> QED
      BY <3>1, <3>2
  <2>8. v = w
    BY <2>5, <2>6, <2>7, SeqEqual
  <2> QED
    BY <2>8 DEF v, w, u, z
<1>8. Img(<<>>) = <<>>
  OBVIOUS
<1> HIDE DEF Img
<1> DEFINE I == {m \in Nat : m <= N => g[m] = Img(f[m])}
<1>9. 0 \in I
  BY <1>5, <1>6, <1>8
<1>10. ASSUME NEW m \in Nat, m \in I PROVE m + 1 \in I
  <2>1. SUFFICES ASSUME m + 1 <= N PROVE g[m + 1] = Img(f[m + 1])
    OBVIOUS
  <2>2. g[m] = Img(f[m]) /\ m + 1 \in 1 .. N /\ (m + 1) - 1 = m /\ m \in 0 .. N
    BY <1>1, <1>10, <2>1
  <2>3. f[m] \in Seq(S) /\ s[m + 1] \in S /\ t[m + 1] = F[s[m + 1]]
    BY <1>1, <1>2, <1>5, <2>2
  <2>4. /\ f[m + 1] = IF m + 1 \in K THEN Append(f[m], s[m + 1]) ELSE f[m]
        /\ g[m + 1] = IF m + 1 \in K THEN Append(g[m], t[m + 1]) ELSE g[m]
    BY <1>5, <1>6, <2>2
  <2> QED
    BY <1>7, <2>2, <2>3, <2>4
<1>11. N \in I
  <2> HIDE DEF I
  <2> QED
    BY <1>1, <1>9, <1>10, InductionOnSets
<1>12. Kept(t, K) = Img(Kept(s, K))
  BY <1>1, <1>5, <1>6, <1>11
<1> QED
  BY <1>12 DEF t, Img, Through

-----------------------------------------------------------------------------
(* Total.                                                                   *)

TotalRun(f, v) ==
    /\ f \in [0 .. Len(v) -> Nat]
    /\ f[0] = 0
    /\ \A n \in 1 .. Len(v) : f[n] = f[n - 1] + v[n]
    /\ Total(v) = f[Len(v)]

\* The recursion of Total is well-defined.
LEMMA TotalSteps ==
    ASSUME NEW v \in Seq(Nat)
    PROVE  \E f : TotalRun(f, v)
<1> DEFINE N == Len(v)
<1> DEFINE step == [p \in (1 .. N) \X Nat |-> p[2] + v[p[1]]]
<1> DEFINE Body(f) == [n \in 0 .. Len(v) |-> IF n = 0 THEN 0 ELSE f[n - 1] + v[n]]
<1>1. N \in Nat /\ DOMAIN v = 1 .. N /\ \A i \in 1 .. N : v[i] \in Nat
  BY LenProperties, ElementOfSeq
<1>2. Stepping(step, N, Nat)
  <2>1. \A p \in (1 .. N) \X Nat : p[2] + v[p[1]] \in Nat
    BY <1>1
  <2> QED
    BY <2>1 DEF Stepping
<1>3. PICK g : Steps(g, step, 0, N, Nat)
  <2> HIDE DEF step, N
  <2> QED
    BY <1>1, <1>2, StepsExist
<1>4. ASSUME NEW i \in 1 .. N PROVE g[i] = g[i - 1] + v[i]
  <2>1. g[i - 1] \in Nat /\ g[i] = step[<<i, g[i - 1]>>]
    <3> HIDE DEF step, N
    <3>2. i - 1 \in 0 .. N /\ g \in [0 .. N -> Nat] /\ g[i] = step[<<i, g[i - 1]>>]
      BY <1>1, <1>3 DEF Steps
    <3> QED
      BY <3>2
  <2>2. <<i, g[i - 1]>> \in (1 .. N) \X Nat
    BY <2>1
  <2>3. step[<<i, g[i - 1]>>] = g[i - 1] + v[i]
    BY <2>2
  <2> QED
    BY <2>1, <2>3
<1>5. g = Body(g)
  <2>1. ASSUME NEW n \in 0 .. N PROVE g[n] = Body(g)[n]
    <3>1. CASE n = 0
      BY <1>3, <3>1 DEF Steps
    <3>2. CASE n # 0
      <4>1. n \in 1 .. N
        BY <1>1, <3>2
      <4> QED
        BY <1>4, <4>1, <3>2
    <3> QED
      BY <3>1, <3>2
  <2>2. DOMAIN Body(g) = 0 .. N /\ Body(g) = [n \in 0 .. N |-> Body(g)[n]]
    OBVIOUS
  <2>3. g = [n \in 0 .. N |-> g[n]]
    BY <1>3 DEF Steps
  <2> HIDE DEF Body
  <2> QED
    BY <2>1, <2>2, <2>3
<1> DEFINE h == CHOOSE f : f = Body(f)
<1>6. h = Body(h)
  <2> HIDE DEF Body
  <2> QED
    BY <1>5
<1>7. Total(v) = h[Len(v)]
  BY DEF Total
<1>8. DOMAIN h = 0 .. N /\ h[0] = 0 /\ \A n \in 1 .. N : h[n] = h[n - 1] + v[n]
  <2> HIDE DEF h
  <2>1. DOMAIN h = 0 .. N
    BY <1>6
  <2>2. ASSUME NEW n \in 0 .. N
        PROVE  h[n] = IF n = 0 THEN 0 ELSE h[n - 1] + v[n]
    BY <1>6
  <2>3. h[0] = 0
    BY <2>2, <1>1
  <2>4. ASSUME NEW n \in 1 .. N PROVE h[n] = h[n - 1] + v[n]
    <3>1. n \in 0 .. N /\ n # 0
      BY <1>1
    <3> QED
      BY <2>2, <3>1
  <2> QED
    BY <2>1, <2>3, <2>4
<1> HIDE DEF h
<1> DEFINE T == {m \in Nat : m <= N => h[m] \in Nat}
<1>10. \A m \in 0 .. N : h[m] \in Nat
  <2>1. 0 \in T
    BY <1>1, <1>8
  <2>2. ASSUME NEW m \in Nat, m \in T PROVE m + 1 \in T
    <3>1. SUFFICES ASSUME m + 1 <= N PROVE h[m + 1] \in Nat
      OBVIOUS
    <3>2. h[m] \in Nat /\ m + 1 \in 1 .. N /\ (m + 1) - 1 = m
      BY <2>2, <3>1, <1>1
    <3>3. v[m + 1] \in Nat /\ h[m + 1] = h[m] + v[m + 1]
      BY <3>2, <1>1, <1>8
    <3> QED
      BY <3>2, <3>3
  <2>3. Nat \subseteq T
    <3> HIDE DEF T
    <3> QED
      BY <2>1, <2>2, InductionOnSets
  <2> QED
    BY <2>3, <1>1
<1>11. h \in [0 .. N -> Nat]
  <2>1. h = [m \in 0 .. N |-> h[m]]
    <3>1. Body(h) = [m \in 0 .. N |-> Body(h)[m]]
      OBVIOUS
    <3> HIDE DEF Body
    <3> QED
      BY <1>6, <3>1
  <2> QED
    BY <2>1, <1>10
<1>12. TotalRun(h, v)
  BY <1>7, <1>8, <1>11 DEF TotalRun
<1> QED
  BY <1>12

LEMMA TotalType ==
    ASSUME NEW v \in Seq(Nat)
    PROVE  Total(v) \in Nat
<1>1. PICK f : TotalRun(f, v)
  BY TotalSteps
<1>2. Len(v) \in 0 .. Len(v)
  BY LenProperties
<1> QED
  BY <1>1, <1>2 DEF TotalRun

LEMMA TotalAppend ==
    ASSUME NEW v \in Seq(Nat), NEW x \in Nat
    PROVE  Total(Append(v, x)) = Total(v) + x
<1> DEFINE w == Append(v, x)
<1> DEFINE N == Len(v)
<1>1. /\ w \in Seq(Nat) /\ Len(w) = N + 1 /\ w[N + 1] = x /\ N \in Nat
      /\ \A i \in 1 .. N : w[i] = v[i]
  BY AppendProperties, LenProperties
<1> HIDE DEF w
<1>2. PICK f : TotalRun(f, v)
  BY TotalSteps
<1>3. PICK g : TotalRun(g, w)
  BY <1>1, TotalSteps
<1>4. f[0] = 0 /\ Total(v) = f[N] /\ \A n \in 1 .. N : f[n] = f[n - 1] + v[n]
  BY <1>2 DEF TotalRun
<1>5. g[0] = 0 /\ Total(w) = g[N + 1] /\ \A n \in 1 .. N + 1 : g[n] = g[n - 1] + w[n]
  BY <1>1, <1>3 DEF TotalRun
<1>6. N + 1 \in 1 .. N + 1 /\ (N + 1) - 1 = N
  BY <1>1
<1>7. g[N + 1] = g[N] + x
  BY <1>1, <1>5, <1>6
<1> DEFINE T == {m \in Nat : m <= N => f[m] = g[m]}
<1>8. 0 \in T
  BY <1>4, <1>5
<1>9. ASSUME NEW m \in Nat, m \in T PROVE m + 1 \in T
  <2>1. SUFFICES ASSUME m + 1 <= N PROVE f[m + 1] = g[m + 1]
    OBVIOUS
  <2>2. f[m] = g[m] /\ m + 1 \in 1 .. N /\ m + 1 \in 1 .. N + 1 /\ (m + 1) - 1 = m
    <3>1. N \in Nat /\ m + 1 <= N
      BY <1>1, <2>1
    <3>2. f[m] = g[m]
      BY <1>9, <3>1
    <3> HIDE DEF N
    <3> QED
      BY <3>1, <3>2
  <2>3. f[m + 1] = f[m] + v[m + 1] /\ g[m + 1] = g[m] + w[m + 1] /\ w[m + 1] = v[m + 1]
    BY <1>1, <1>4, <1>5, <2>2
  <2> QED
    BY <2>2, <2>3
<1>10. N \in T
  <2> HIDE DEF T
  <2> QED
    BY <1>1, <1>8, <1>9, InductionOnSets
<1> QED
  BY <1>1, <1>4, <1>5, <1>7, <1>10 DEF w

\* Only some of the numbers, and those not larger.
LEMMA TotalKept ==
    ASSUME NEW v \in Seq(Nat), NEW w \in Seq(Nat), Len(w) = Len(v), NEW K \in SUBSET DOMAIN w,
           \A i \in 1 .. Len(v) : w[i] <= v[i]
    PROVE  Total(Kept(w, K)) <= Total(v)
<1> DEFINE N == Len(v)
<1>1. N \in Nat /\ \A i \in 1 .. N : v[i] \in Nat /\ w[i] \in Nat
  BY LenProperties, ElementOfSeq
<1>2. PICK f : TotalRun(f, v)
  BY TotalSteps
<1>3. PICK g : KeptRun(g, w, K, Nat)
  BY KeptSteps
<1>4. /\ f[0] = 0 /\ Total(v) = f[N] /\ \A n \in 1 .. N : f[n] = f[n - 1] + v[n]
      /\ \A n \in 0 .. N : f[n] \in Nat
  BY <1>2 DEF TotalRun
<1>5. /\ g[0] = <<>> /\ Kept(w, K) = g[N] /\ \A n \in 0 .. N : g[n] \in Seq(Nat)
      /\ \A n \in 1 .. N : g[n] = IF n \in K THEN Append(g[n - 1], w[n]) ELSE g[n - 1]
  BY <1>3 DEF KeptRun
<1> DEFINE T == {m \in Nat : m <= N => Total(g[m]) <= f[m]}
<1>6. 0 \in T
  <2>1. PICK h : TotalRun(h, <<>>)
    <3>1. <<>> \in Seq(Nat)
      OBVIOUS
    <3> QED
      BY <3>1, TotalSteps
  <2>2. Total(<<>>) = 0
    BY <2>1 DEF TotalRun
  <2> QED
    BY <1>4, <1>5, <2>2
<1>7. ASSUME NEW m \in Nat, m \in T PROVE m + 1 \in T
  <2>1. SUFFICES ASSUME m + 1 <= N PROVE Total(g[m + 1]) <= f[m + 1]
    OBVIOUS
  <2>2. Total(g[m]) <= f[m] /\ m + 1 \in 1 .. N /\ (m + 1) - 1 = m /\ m \in 0 .. N
    BY <1>1, <1>7, <2>1
  <2>3. /\ f[m + 1] = f[m] + v[m + 1] /\ f[m] \in Nat /\ g[m] \in Seq(Nat)
        /\ v[m + 1] \in Nat /\ w[m + 1] \in Nat /\ w[m + 1] <= v[m + 1]
    BY <1>1, <1>4, <1>5, <2>2
  <2>4. g[m + 1] = IF m + 1 \in K THEN Append(g[m], w[m + 1]) ELSE g[m]
    BY <1>5, <2>2
  <2>5. Total(Append(g[m], w[m + 1])) = Total(g[m]) + w[m + 1] /\ Total(g[m]) \in Nat
    BY <2>3, TotalAppend, TotalType
  <2> QED
    BY <2>2, <2>3, <2>4, <2>5
<1>8. N \in T
  <2> HIDE DEF T
  <2> QED
    BY <1>1, <1>6, <1>7, InductionOnSets
<1> QED
  BY <1>1, <1>4, <1>5, <1>8

\* All of them.
LEMMA TotalAtMost ==
    ASSUME NEW v \in Seq(Nat), NEW w \in Seq(Nat), Len(w) = Len(v),
           \A i \in 1 .. Len(v) : w[i] <= v[i]
    PROVE  Total(w) <= Total(v)
<1> DEFINE N == Len(v)
<1>1. N \in Nat /\ \A i \in 1 .. N : v[i] \in Nat /\ w[i] \in Nat
  BY LenProperties, ElementOfSeq
<1>2. PICK f : TotalRun(f, v)
  BY TotalSteps
<1>3. PICK g : TotalRun(g, w)
  BY TotalSteps
<1>4. /\ f[0] = 0 /\ Total(v) = f[N] /\ \A n \in 1 .. N : f[n] = f[n - 1] + v[n]
      /\ \A n \in 0 .. N : f[n] \in Nat
  BY <1>2 DEF TotalRun
<1>5. /\ g[0] = 0 /\ Total(w) = g[N] /\ \A n \in 1 .. N : g[n] = g[n - 1] + w[n]
      /\ \A n \in 0 .. N : g[n] \in Nat
  BY <1>3 DEF TotalRun
<1> DEFINE T == {m \in Nat : m <= N => g[m] <= f[m]}
<1>6. 0 \in T
  BY <1>4, <1>5
<1>7. ASSUME NEW m \in Nat, m \in T PROVE m + 1 \in T
  <2>1. SUFFICES ASSUME m + 1 <= N PROVE g[m + 1] <= f[m + 1]
    OBVIOUS
  <2>2. g[m] <= f[m] /\ m + 1 \in 1 .. N /\ (m + 1) - 1 = m /\ m \in 0 .. N
    BY <1>1, <1>7, <2>1
  <2>3. /\ f[m + 1] = f[m] + v[m + 1] /\ g[m + 1] = g[m] + w[m + 1] /\ f[m] \in Nat /\ g[m] \in Nat
        /\ v[m + 1] \in Nat /\ w[m + 1] \in Nat /\ w[m + 1] <= v[m + 1]
    BY <1>1, <1>4, <1>5, <2>2
  <2> QED
    BY <2>2, <2>3
<1>8. N \in T
  <2> HIDE DEF T
  <2> QED
    BY <1>1, <1>6, <1>7, InductionOnSets
<1> QED
  BY <1>1, <1>4, <1>5, <1>8

=============================================================================
