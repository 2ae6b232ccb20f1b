---------------------------- MODULE ListsProofs -----------------------------
(***************************************************************************)
(* What Filter returns.                                                    *)
(***************************************************************************)
EXTENDS Lists, WellFoundedInduction, TLAPS

\* Zenon proves the steps that name no other prover.
USE ZenonT(30)

\* A set of naturals that is not empty has a least member.
LEMMA LeastNatural ==
  ASSUME NEW M \in SUBSET Nat, M # {}
  PROVE  \E r \in M : \A q \in M : r <= q
<1>1. PICK r \in M : \A q \in M : ~(<<q, r>> \in OpToRel(<, Nat))
  BY WFMin, NatLessThanWellFounded
<1>2. \A q \in M : ~(q < r)
  BY <1>1 DEF OpToRel
<1> QED
  BY SMTT(30), <1>2

\* One step of a walk that keeps S.
Step(s, S, n, kept) == IF s[n] \in S THEN Append(kept, s[n]) ELSE kept

\* f is the walk of the first m entries.
IsWalk(f, s, S, m) ==
  f = [n \in 0..m |-> IF n = 0 THEN <<>> ELSE Step(s, S, n, f[n - 1])]

\* Every list can be walked.
LEMMA WalkExists ==
  ASSUME NEW s, NEW S, NEW m \in Nat
  PROVE  \E f : IsWalk(f, s, S, m)
<1> DEFINE Bad == {n \in Nat : ~\E f : IsWalk(f, s, S, n)}
<1> SUFFICES ASSUME Bad # {} PROVE FALSE
  OBVIOUS
<1>1. PICK r \in Bad : \A q \in Bad : r <= q
  BY LeastNatural
<1>2. r # 0
  <2> DEFINE f == [n \in 0..0 |-> <<>>]
  <2>1. IsWalk(f, s, S, 0)
    BY SMTT(30) DEF IsWalk
  <2> QED
    BY <2>1
<1>3. r - 1 \in Nat /\ r - 1 \notin Bad
  BY SMTT(30), <1>1, <1>2
<1>4. PICK f : IsWalk(f, s, S, r - 1)
  BY <1>3
<1> DEFINE g == [n \in 0..r |-> IF n = r THEN Step(s, S, r, f[r - 1]) ELSE f[n]]
<1>5. f = [n \in 0..(r - 1) |-> IF n = 0 THEN <<>> ELSE Step(s, S, n, f[n - 1])]
  BY <1>4 DEF IsWalk
<1>6. \A n \in 0..r : g[n] = IF n = 0 THEN <<>> ELSE Step(s, S, n, g[n - 1])
  <2> SUFFICES ASSUME NEW n \in 0..r
               PROVE  g[n] = IF n = 0 THEN <<>> ELSE Step(s, S, n, g[n - 1])
    OBVIOUS
  <2>1. CASE n = 0
    <3>1. g[n] = f[n] /\ n \in 0..(r - 1)
      BY SMTT(30), <1>2, <1>3, <2>1
    <3>2. f[n] = <<>>
      BY <1>5, <2>1, <3>1
    <3> QED
      BY <2>1, <3>1, <3>2
  <2>2. CASE n # 0 /\ n # r
    <3>1. g[n] = f[n] /\ g[n - 1] = f[n - 1] /\ n \in 0..(r - 1)
      BY SMTT(30), <1>3, <2>2
    <3>2. f[n] = Step(s, S, n, f[n - 1])
      BY <1>5, <2>2, <3>1
    <3> QED
      BY <2>2, <3>1, <3>2
  <2>3. CASE n = r
    <3>1. g[n] = Step(s, S, r, f[r - 1]) /\ g[n - 1] = f[r - 1]
      BY SMTT(30), <1>3, <2>3
    <3> QED
      BY <1>2, <2>3, <3>1
  <2> QED
    BY <2>1, <2>2, <2>3
<1>7. IsWalk(g, s, S, r)
  <2> DEFINE h == [n \in 0..r |-> IF n = 0 THEN <<>> ELSE Step(s, S, n, g[n - 1])]
  <2>1. \A n \in 0..r : g[n] = h[n]
    BY <1>6
  <2>2. DOMAIN g = 0..r /\ DOMAIN h = 0..r
    OBVIOUS
  <2>3. g = [n \in 0..r |-> g[n]] /\ h = [n \in 0..r |-> h[n]]
    BY SMTT(30)
  <2> HIDE DEF g, h
  <2>4. g = h
    BY <2>1, <2>3
  <2> QED
    BY <2>4 DEF h, IsWalk
<1> QED
  BY <1>1, <1>7

\* Walk is the walk.
LEMMA WalkIsWalk ==
  ASSUME NEW s, NEW S, Len(s) \in Nat
  PROVE  IsWalk(Walk(s, S), s, S, Len(s))
<1>1. \E f : IsWalk(f, s, S, Len(s))
  BY WalkExists
<1>2. Walk(s, S) = CHOOSE f : IsWalk(f, s, S, Len(s))
  BY DEF Walk, IsWalk, Step
<1> QED
  BY <1>1, <1>2

\* t is the first n entries of s without those outside S: h says where in s
\* the entries of t were, in the same order and none of them left out.
KeptSoFar(t, h, s, S, n) ==
  /\ h \in [1..Len(t) -> 1..n]
  /\ \A j, k \in 1..Len(t) : j < k => h[j] < h[k]
  /\ \A k \in 1..Len(t) : t[k] = s[h[k]] /\ s[h[k]] \in S
  /\ \A i \in 1..n : s[i] \in S => \E k \in 1..Len(t) : h[k] = i

\* One more step of the walk.
LEMMA KeptStep ==
  ASSUME NEW T, NEW s \in Seq(T), NEW S, NEW n \in 1..Len(s),
         NEW t \in Seq(T), NEW h, KeptSoFar(t, h, s, S, n - 1)
  PROVE  /\ Step(s, S, n, t) \in Seq(T)
         /\ \E g : KeptSoFar(Step(s, S, n, t), g, s, S, n)
<1>1. Len(s) \in Nat /\ Len(t) \in Nat /\ s[n] \in T /\ n \in Nat \ {0}
  BY SMTT(30)
<1> DEFINE L == Len(t)
<1>a. /\ h \in [1..L -> 1..(n - 1)]
      /\ \A j, k \in 1..L : j < k => h[j] < h[k]
      /\ \A k \in 1..L : t[k] = s[h[k]] /\ s[h[k]] \in S
      /\ \A i \in 1..(n - 1) : s[i] \in S => \E k \in 1..L : h[k] = i
  BY DEF KeptSoFar
<1>b. 1..(n - 1) \subseteq 1..n /\ \A i \in 1..n : i = n \/ i \in 1..(n - 1)
  BY SMTT(30), <1>1
<1>2. CASE s[n] \notin S
  <2>1. Step(s, S, n, t) = t
    BY <1>2 DEF Step
  <2>2. h \in [1..L -> 1..n]
    BY <1>a, <1>b
  <2>3. \A i \in 1..n : s[i] \in S => \E k \in 1..L : h[k] = i
    BY <1>a, <1>b, <1>2
  <2>4. KeptSoFar(t, h, s, S, n)
    BY <1>a, <2>2, <2>3 DEF KeptSoFar
  <2> QED
    BY <2>1, <2>4
<1>3. CASE s[n] \in S
  <2> DEFINE u == Append(t, s[n])
             g == [k \in 1..Len(u) |-> IF k = Len(u) THEN n ELSE h[k]]
  <2>1. Step(s, S, n, t) = u
    BY <1>3 DEF Step
  <2>2. /\ u \in Seq(T) /\ Len(u) = Len(t) + 1 /\ u[Len(u)] = s[n]
        /\ \A k \in 1..Len(t) : u[k] = t[k]
    BY SMTT(30), <1>1
  <2> HIDE DEF u
  <2>3. \A k \in 1..Len(t) : g[k] = h[k] /\ g[k] \in 1..(n - 1)
    <3> SUFFICES ASSUME NEW k \in 1..L PROVE g[k] = h[k] /\ g[k] \in 1..(n - 1)
      OBVIOUS
    <3>1. k \in 1..Len(u) /\ k # Len(u)
      BY SMTT(30), <1>1, <2>2
    <3>2. g[k] = h[k]
      BY <3>1
    <3> QED
      BY <1>a, <3>2
  <2>4. g[Len(u)] = n /\ \A k \in 1..Len(u) : k = Len(u) \/ k \in 1..Len(t)
    BY SMTT(30), <1>1, <2>2
  <2>5. g \in [1..Len(u) -> 1..n]
    <3>1. \A k \in 1..Len(u) : g[k] \in 1..n
      <4> HIDE DEF g
      <4>1. n \in 1..n
        BY SMTT(30), <1>1
      <4> QED
        BY <1>b, <2>3, <2>4, <4>1
    <3> QED
      BY <3>1
  <2> HIDE DEF g
  <2>6. \A j, k \in 1..Len(u) : j < k => g[j] < g[k]
    <3> SUFFICES ASSUME NEW j \in 1..Len(u), NEW k \in 1..Len(u), j < k
                 PROVE  g[j] < g[k]
      OBVIOUS
    <3>1. j \in 1..Len(t)
      BY SMTT(30), <1>1, <2>2
    <3>2. CASE k = Len(u)
      BY SMTT(30), <1>1, <2>3, <2>4, <3>1, <3>2
    <3>3. CASE k \in 1..Len(t)
      BY <2>3, <3>1, <3>3 DEF KeptSoFar
    <3> QED
      BY <2>4, <3>2, <3>3
  <2>7. \A k \in 1..Len(u) : u[k] = s[g[k]] /\ s[g[k]] \in S
    BY <1>3, <2>2, <2>3, <2>4 DEF KeptSoFar
  <2>8. \A i \in 1..n : s[i] \in S => \E k \in 1..Len(u) : g[k] = i
    <3> SUFFICES ASSUME NEW i \in 1..n, s[i] \in S PROVE \E k \in 1..Len(u) : g[k] = i
      OBVIOUS
    <3>1. CASE i = n
      <4>1. Len(u) \in 1..Len(u)
        BY SMTT(30), <1>1, <2>2
      <4> QED
        BY <2>4, <3>1, <4>1
    <3>2. CASE i # n
      <4>1. PICK k \in 1..Len(t) : h[k] = i
        BY SMTT(30), <1>1, <3>2 DEF KeptSoFar
      <4>2. k \in 1..Len(u)
        BY SMTT(30), <1>1, <2>2, <4>1
      <4> QED
        BY <2>3, <4>1, <4>2
    <3> QED
      BY <3>1, <3>2
  <2>9. KeptSoFar(u, g, s, S, n)
    BY <2>5, <2>6, <2>7, <2>8 DEF KeptSoFar
  <2> QED
    BY <2>1, <2>2, <2>9
<1> QED
  BY <1>2, <1>3

\* Filter(s, S) is s without the entries outside S.
THEOREM FilterKeeps ==
  ASSUME NEW T, NEW s \in Seq(T), NEW S
  PROVE  /\ Filter(s, S) \in Seq(T)
         /\ \E h : KeptSoFar(Filter(s, S), h, s, S, Len(s))
<1> DEFINE w == Walk(s, S)
           Good(n) == w[n] \in Seq(T) /\ \E h : KeptSoFar(w[n], h, s, S, n)
           Bad == {n \in Nat : n <= Len(s) /\ ~Good(n)}
<1>0. Len(s) \in Nat
  BY SMTT(30)
<1>1. IsWalk(w, s, S, Len(s))
  BY <1>0, WalkIsWalk
<1>2. w[0] = <<>> /\ \A n \in 1..Len(s) : w[n] = Step(s, S, n, w[n - 1])
  <2>1. w = [n \in 0..Len(s) |-> IF n = 0 THEN <<>> ELSE Step(s, S, n, w[n - 1])]
    BY <1>1 DEF IsWalk
  <2> HIDE DEF w
  <2>2. 0 \in 0..Len(s) /\ 1..Len(s) \subseteq 0..Len(s)
    BY SMTT(30), <1>0
  <2>3. \A n \in 0..Len(s) : w[n] = IF n = 0 THEN <<>> ELSE Step(s, S, n, w[n - 1])
    BY <2>1
  <2> QED
    BY SMTT(30), <1>0, <2>2, <2>3
<1> HIDE DEF w
<1>3. Bad = {}
  <2> SUFFICES ASSUME Bad # {} PROVE FALSE
    OBVIOUS
  <2>1. PICK r \in Bad : \A q \in Bad : r <= q
    BY LeastNatural
  <2>2. r # 0
    <3> DEFINE e == [k \in 1..0 |-> 0]
    <3>1. KeptSoFar(<<>>, e, s, S, 0)
      BY SMTT(30) DEF KeptSoFar
    <3>2. Good(0)
      BY SMTT(30), <1>2, <3>1
    <3> QED
      BY <3>2
  <2>3. r - 1 \in Nat /\ r - 1 <= Len(s) /\ r - 1 \notin Bad /\ r \in 1..Len(s)
    BY SMTT(30), <1>0, <2>1, <2>2
  <2>4. Good(r - 1)
    BY <2>3
  <2>5. w[r - 1] \in Seq(T) /\ \E h : KeptSoFar(w[r - 1], h, s, S, r - 1)
    BY <2>4
  <2>6. Good(r)
    <3>1. w[r] = Step(s, S, r, w[r - 1])
      BY <1>2, <2>3
    <3> QED
      BY SMTT(30), <2>3, <2>5, <3>1, KeptStep
  <2> QED
    BY <2>1, <2>6
<1>4. Good(Len(s))
  BY SMTT(30), <1>0, <1>3
<1> QED
  BY <1>4 DEF w, Filter
=============================================================================
